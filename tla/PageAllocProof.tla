--------------------------- MODULE PageAllocProof ---------------------------
(***************************************************************************)
(* What the page allocator guarantees, for any pool, callers and requests. *)
(***************************************************************************)
EXTENDS PageAlloc, TLAPS

\* A page index stays one, and setting bits keeps a bitmap a bitmap: bitmap_set_bit
\* stores 0 or 1 whatever bit it is given (bitmap.c:17-26).
LEMMA SetBitType ==
    ASSUME NEW b \in [Page -> {0, 1}], NEW index, NEW n, NEW bit
    PROVE  bitmap_set_bit(b, index, n, bit) \in [Page -> {0, 1}]
BY DEF bitmap_set_bit

\* The state that addr_alloc_init leaves (memory.c:36-43) satisfies the invariant.
LEMMA InitAllocInv ==
    ASSUME AllocInit
    PROVE  AllocInv
<1> USE PageAssumption DEF AllocInit
<1>1. AllocTypeOK
  BY DEF AllocTypeOK, bitmap_init, NoRun, Page
<1>2. \A c \in Caller : ~Holds(c)
  BY DEF Holds
<1>3. SearchInv
  BY DEF SearchInv
<1>4. HeldInv /\ OverlapAtMostOne
  BY <1>2 DEF HeldInv, OverlapAtMostOne
<1> QED
  BY <1>1, <1>3, <1>4 DEF AllocInv

\* A caller that takes the mutex and starts the search keeps the invariant
\* (addr_alloc_page, memory.c:48-62).
LEMMA AllocPageInv ==
    ASSUME AllocInv, NEW c \in Caller, NEW n \in PageCounts, addr_alloc_page(c, n)
    PROVE  AllocInv'
<1> USE PageAssumption DEF AllocInv, addr_alloc_page
<1>1. AllocTypeOK'
  BY DEF AllocTypeOK
<1>2. SearchInv'
  BY DEF AllocTypeOK, SearchInv, Holds
<1>3. HeldInv' /\ OverlapAtMostOne'
  BY DEF HeldInv, OverlapAtMostOne, Holds, SearchInv
<1> QED
  BY <1>1, <1>2, <1>3

\* A turn of the search that finds nothing yet, or gives up, keeps the invariant
\* (bitmap.c:39-65 and 73-74).
LEMMA SearchTurnInv ==
    ASSUME AllocInv, SearchFails \/ SearchStart \/ SearchRun \/ SearchEnds
    PROVE  AllocInv'
<1> USE PageAssumption DEF AllocInv
<1>1. held' = held /\ bits' = bits
  BY DEF SearchFails, SearchStart, SearchRun, SearchEnds
<1>2. AllocTypeOK'
  BY <1>1 DEF AllocTypeOK, SearchFails, SearchStart, SearchRun, SearchEnds, Return,
              locals, Page
<1>3. SearchInv'
  <2>1. CASE SearchFails
    BY <2>1, <1>1 DEF SearchInv, SearchFails, Return, Holds, locals
  <2>2. CASE SearchStart
    BY <2>2, <1>1 DEF SearchInv, SearchStart, Holds, AllocTypeOK, Page, locals
  <2>3. CASE SearchRun
    BY <2>3, <1>1 DEF SearchInv, SearchRun, Holds, AllocTypeOK, Page
  <2>4. CASE SearchEnds
    BY <2>4, <1>1 DEF SearchInv, SearchEnds, Holds, locals
  <2> QED
    BY <2>1, <2>2, <2>3, <2>4
<1>4. HeldInv'
  <2>1. search_idx <= search_idx'
    BY DEF AllocTypeOK, SearchFails, SearchStart, SearchRun, SearchEnds
  <2>2. loop' = "inner" => \/ loop = "inner" /\ ok_idx' = ok_idx
                           \/ ok_idx' = search_idx
    BY DEF SearchFails, SearchStart, SearchRun, SearchEnds, Return, locals
  <2>3. SUFFICES ASSUME NEW c \in Caller, Holds(c)
                 PROVE  /\ held[c].start \in Page
                        /\ held[c].start + held[c].pages - 1 <= search_idx'
                        /\ loop' = "inner" =>
                              held[c].start + held[c].pages - 1 <= ok_idx'
    BY <1>1 DEF HeldInv, Holds, Page
  <2>4. /\ held[c].start \in Page
        /\ held[c].start + held[c].pages - 1 <= search_idx
        /\ loop = "inner" => held[c].start + held[c].pages - 1 <= ok_idx
    BY <2>3 DEF HeldInv
  <2>5. held[c].start \in Int /\ held[c].pages \in Nat
    BY DEF AllocTypeOK
  <2> QED
    BY <1>2, <2>1, <2>2, <2>4, <2>5 DEF AllocTypeOK
<1>5. OverlapAtMostOne'
  BY <1>1 DEF OverlapAtMostOne, Holds
<1> QED
  BY <1>2, <1>3, <1>4, <1>5

\* The end of a successful search keeps the invariant (bitmap.c:67-71): the new run
\* starts at ok_idx, after everything held, and ends at search_idx.
LEMMA SearchFoundInv ==
    ASSUME AllocInv, SearchFound
    PROVE  AllocInv'
<1> USE PageAssumption DEF AllocInv
<1>1. /\ inside \in Caller /\ loop = "inner"
      /\ i = page_count /\ ok_idx \in Page /\ search_idx = ok_idx + page_count - 1
      /\ page_count > 0 /\ page_count \in Nat /\ ok_idx \in Int
  BY DEF AllocTypeOK, SearchInv, SearchFound
<1>2. /\ held' = [held EXCEPT ![inside] = Run(ok_idx, page_count)]
      /\ search_idx' = search_idx /\ loop' = "none" /\ inside' = None
      /\ ok_idx' = ok_idx /\ page_count' = page_count /\ i' = i
  BY DEF SearchFound, Return, locals
<1>3. AllocTypeOK'
  <2>1. bits' \in [Page -> {0, 1}]
    BY SetBitType DEF SearchFound, AllocTypeOK
  <2>2. held' \in [Caller -> [start : Int, pages : Nat]]
    BY <1>1, <1>2 DEF AllocTypeOK, Run
  <2> QED
    BY <1>2, <2>1, <2>2 DEF AllocTypeOK
<1>4. SearchInv'
  BY <1>2 DEF SearchInv
<1>5. ASSUME NEW c \in Caller, Holds(c)'
      PROVE  \/ c = inside /\ held'[c] = Run(ok_idx, page_count)
             \/ c # inside /\ held'[c] = held[c] /\ Holds(c)
  BY <1>1, <1>2, <1>5 DEF Holds, AllocTypeOK
<1>6. Run(ok_idx, page_count).start = ok_idx /\ Run(ok_idx, page_count).pages = page_count
  BY DEF Run
<1>7. ASSUME NEW c \in Caller, Holds(c)
      PROVE  /\ held[c].start \in Page /\ held[c].start \in Int /\ held[c].pages \in Nat
             /\ held[c].start + held[c].pages - 1 <= ok_idx
             /\ held[c].start + held[c].pages - 1 <= search_idx
  BY <1>1, <1>7 DEF HeldInv, AllocTypeOK
<1>8. HeldInv'
  <2>1. SUFFICES ASSUME NEW c \in Caller, Holds(c)'
                 PROVE  /\ held'[c].start \in Page
                        /\ held'[c].start + held'[c].pages - 1 <= search_idx'
    BY <1>2 DEF HeldInv, Page
  <2>2. CASE c = inside /\ held'[c] = Run(ok_idx, page_count)
    BY <2>2, <1>1, <1>2, <1>6
  <2>3. CASE c # inside /\ held'[c] = held[c] /\ Holds(c)
    BY <2>3, <1>2, <1>7
  <2> QED
    BY <2>1, <2>2, <2>3, <1>5
<1>9. OverlapAtMostOne'
  <2>1. SUFFICES ASSUME NEW c \in Caller, NEW d \in Caller, c # d, Holds(c)', Holds(d)'
                 PROVE  \/ held'[c].start + held'[c].pages - 1 <= held'[d].start
                        \/ held'[d].start + held'[d].pages - 1 <= held'[c].start
    BY DEF OverlapAtMostOne
  <2>2. CASE c = inside
    BY <2>1, <2>2, <1>5, <1>6, <1>7
  <2>3. CASE d = inside
    BY <2>1, <2>3, <1>5, <1>6, <1>7
  <2>4. CASE c # inside /\ d # inside
    <3>1. /\ held'[c] = held[c] /\ Holds(c)
          /\ held'[d] = held[d] /\ Holds(d)
      BY <2>1, <2>4, <1>5
    <3> QED
      BY <2>1, <3>1 DEF OverlapAtMostOne
  <2> QED
    BY <2>2, <2>3, <2>4
<1> QED
  BY <1>3, <1>4, <1>8, <1>9

\* Giving a run of pages back keeps the invariant (addr_free_page, memory.c:64-69).
LEMMA FreePageInv ==
    ASSUME AllocInv, NEW c \in Caller, addr_free_page(c)
    PROVE  AllocInv'
<1> USE PageAssumption DEF AllocInv
<1>1. /\ held' = [held EXCEPT ![c] = NoRun]
      /\ inside = None /\ inside' = inside /\ loop' = loop /\ search_idx' = search_idx
      /\ page_count' = page_count /\ ok_idx' = ok_idx /\ i' = i
  BY DEF addr_free_page, locals
<1>2. AllocTypeOK'
  <2>1. bits' \in [Page -> {0, 1}]
    BY SetBitType DEF addr_free_page, AllocTypeOK
  <2>2. held' \in [Caller -> [start : Int, pages : Nat]]
    BY <1>1 DEF AllocTypeOK, NoRun
  <2> QED
    BY <1>1, <2>1, <2>2 DEF AllocTypeOK
<1>3. SearchInv'
  BY <1>1 DEF SearchInv
<1>4. \A e \in Caller : Holds(e)' => held'[e] = held[e] /\ Holds(e)
  BY <1>1 DEF Holds, AllocTypeOK
<1>5. HeldInv'
  BY <1>1, <1>4 DEF HeldInv, Page
<1>6. OverlapAtMostOne'
  BY <1>4 DEF OverlapAtMostOne
<1> QED
  BY <1>2, <1>3, <1>5, <1>6

\* AllocInv always holds: types, the state of the search, and everything held lies
\* before the place where the search goes on (bitmap_alloc_nbits, bitmap.c:35-75).
THEOREM AllocInvariant == AllocSpec => []AllocInv
<1>1. AllocInit => AllocInv
  BY InitAllocInv
<1>2. AllocInv /\ [AllocNext]_vars => AllocInv'
  <2>1. SUFFICES ASSUME AllocInv, [AllocNext]_vars
                 PROVE  AllocInv'
    OBVIOUS
  <2>2. CASE SearchFails \/ SearchStart \/ SearchRun \/ SearchEnds
    BY <2>1, <2>2, SearchTurnInv
  <2>3. CASE SearchFound
    BY <2>1, <2>3, SearchFoundInv
  <2>4. CASE \E c \in Caller, n \in PageCounts : addr_alloc_page(c, n)
    BY <2>1, <2>4, AllocPageInv
  <2>5. CASE \E c \in Caller : addr_free_page(c)
    BY <2>1, <2>5, FreePageInv
  <2>6. CASE UNCHANGED vars
    BY <2>1, <2>6 DEF vars, AllocInv, AllocTypeOK, SearchInv, HeldInv, OverlapAtMostOne,
                      Holds, Page
  <2> QED
    BY <2>1, <2>2, <2>3, <2>4, <2>5, <2>6 DEF AllocNext, Search
<1> QED
  BY <1>1, <1>2, PTL DEF AllocSpec

\* OverrunAtMostOne always holds: a run that addr_alloc_page returns begins in the pool
\* and passes its end by one page at most (bitmap.c:53).
THEOREM OverrunAtMostOneAlways == AllocSpec => []OverrunAtMostOne
<1>1. AllocInv => OverrunAtMostOne
  <2>1. SUFFICES ASSUME AllocInv, NEW c \in Caller, Holds(c)
                 PROVE  held[c].start \in Page
                        /\ held[c].start + held[c].pages - 1 <= bitcount
    BY DEF OverrunAtMostOne
  <2> QED
    BY <2>1, PageAssumption DEF AllocInv, AllocTypeOK, HeldInv
<1> QED
  BY <1>1, AllocInvariant, PTL

\* SinglePagesInPool: as long as pages are allocated one at a time, as in the one call
\* the kernel makes (memory.c:164), every page handed out is one of the pool: the
\* overrun takes a request of two pages or more.
THEOREM SinglePagesInPool == ASSUME PageCounts = {1} PROVE AllocSpec => []RunInPool
<1> DEFINE Single == /\ page_count \in {0, 1}
                     /\ \A c \in Caller : held[c].pages \in {0, 1}
<1>1. AllocInit => Single
  BY DEF AllocInit, NoRun
<1>2. AllocInv /\ Single /\ [AllocNext]_vars => Single'
  <2>1. SUFFICES ASSUME AllocInv, Single, [AllocNext]_vars PROVE Single'
    OBVIOUS
  <2>2. CASE UNCHANGED <<page_count, held>>
    BY <2>1, <2>2
  <2>3. CASE SearchFound
    BY <2>1, <2>3 DEF SearchFound, locals, Run, AllocInv, AllocTypeOK
  <2>4. CASE \E c \in Caller, n \in PageCounts : addr_alloc_page(c, n)
    BY <2>1, <2>4 DEF addr_alloc_page
  <2>5. CASE \E c \in Caller : addr_free_page(c)
    BY <2>1, <2>5 DEF addr_free_page, locals, NoRun, AllocInv, AllocTypeOK
  <2>6. UNCHANGED vars \/ SearchFails \/ SearchStart \/ SearchRun \/ SearchEnds
          => UNCHANGED <<page_count, held>>
    BY DEF vars, SearchFails, SearchStart, SearchRun, SearchEnds, locals
  <2> QED
    BY <2>1, <2>2, <2>3, <2>4, <2>5, <2>6 DEF AllocNext, Search
<1>3. AllocInv /\ Single => RunInPool
  <2>1. SUFFICES ASSUME AllocInv, Single, NEW c \in Caller, Holds(c)
                 PROVE  PagesOf(c) \subseteq Page
    BY DEF RunInPool
  <2>2. held[c].start \in Page /\ held[c].pages \in {0, 1}
    BY <2>1 DEF AllocInv, HeldInv
  <2> QED
    BY <2>2, PageAssumption DEF PagesOf, Page
<1> HIDE DEF Single
<1> QED
  BY <1>1, <1>2, <1>3, AllocInvariant, PTL DEF AllocSpec

\* OverlapAtMostOne always holds: two callers share one page at most (bitmap.c:36).
THEOREM OverlapAtMostOneAlways == AllocSpec => []OverlapAtMostOne
<1>1. AllocInv => OverlapAtMostOne
  BY DEF AllocInv
<1> QED
  BY <1>1, AllocInvariant, PTL

\* AllocTypeOK always holds: the search's cursor, the bitmap and what each caller holds
\* keep their types and bounds.
THEOREM AllocTypesAlways == AllocSpec => []AllocTypeOK
<1>1. AllocInv => AllocTypeOK
  BY DEF AllocInv
<1> QED
  BY <1>1, AllocInvariant, PTL
=============================================================================
