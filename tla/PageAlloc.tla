----------------------------- MODULE PageAlloc ------------------------------
(***************************************************************************)
(* The physical page allocator of core/memory.c over the bitmap of         *)
(* tools/bitmap.c.  addr_alloc_page holds the allocator's mutex while      *)
(* bitmap_alloc_nbits searches, so one caller at a time is inside; one     *)
(* action is one turn of one of the search's two loops.                    *)
(*                                                                         *)
(* Pages are numbered from the start of the pool: the address of page n is *)
(* start + n * page_size, and addr_free_page divides it back.              *)
(***************************************************************************)
EXTENDS Integers

CONSTANTS
    bitcount,     \* the pages of the pool
    Caller,       \* who allocates pages, each at most one run of them at a time
    None,
    PageCounts    \* how many pages a caller asks for at once

ASSUME PageAssumption ==
    /\ bitcount \in Nat
    /\ None \notin Caller
    /\ PageCounts \subseteq Nat \ {0}

VARIABLES
    bits,                  \* alloc->bitmap
    search_idx,            \* the static variable of bitmap_alloc_nbits
    inside,                \* who holds alloc->mutex
    loop,                  \* the loop it is in
    page_count, ok_idx, i, \* its locals (page_count is count in bitmap_alloc_nbits)
    held                   \* the run of pages each caller was given

vars == <<bits, search_idx, inside, loop, page_count, ok_idx, i, held>>
locals == <<page_count, ok_idx, i>>

Page == 0..(bitcount - 1)

\* No run, and the run of n pages from page s on.
NoRun == [start |-> -1, pages |-> 0]
Run(s, n) == [start |-> s, pages |-> n]

Holds(c) == held[c] # NoRun

\* ~bit in C, for an int.
Complement(bit) == -bit - 1

-----------------------------------------------------------------------------

\* Mutant: the bit is stored as it is given.
Mutant_bitmap_set_bit(b, index, n, bit) ==
    [p \in Page |-> IF p \in index..(index + n - 1) THEN bit ELSE b[p]]

\* Any bit but 1 clears.  Bits past the end of the bitmap are left out.
bitmap_set_bit(b, index, n, bit) ==
    [p \in Page |-> IF p \in index..(index + n - 1) THEN (IF bit = 1 THEN 1 ELSE 0)
                    ELSE b[p]]

\* bitmap_init: every page is free (0).
bitmap_init == bits = [p \in Page |-> 0]

\* Mutant: search_idx is not static, as in the line commented out above it.
Mutant_addr_alloc_page(c, n) ==
    /\ inside = None
    /\ ~Holds(c)
    /\ inside' = c
    /\ loop' = "outer"
    /\ page_count' = n
    /\ ok_idx' = -1
    /\ search_idx' = 0
    /\ UNCHANGED <<bits, i, held>>

\* addr_alloc_page takes the mutex and calls bitmap_alloc_nbits(bitmap, 0, n).
addr_alloc_page(c, n) ==
    /\ inside = None
    /\ ~Holds(c)
    /\ inside' = c
    /\ loop' = "outer"
    /\ page_count' = n
    /\ ok_idx' = -1
    /\ UNCHANGED <<bits, search_idx, i, held>>

\* bitmap_alloc_nbits returns, and addr_alloc_page gives the mutex back.
Return ==
    /\ inside' = None
    /\ loop' = "none"

\* The outer loop is at its end: no free run was found, and the caller gets 0.
SearchFails ==
    /\ loop = "outer"
    /\ search_idx >= bitcount
    /\ Return
    /\ UNCHANGED <<bits, search_idx, locals, held>>

\* The outer loop looks for the first free page.
SearchStart ==
    /\ loop = "outer"
    /\ search_idx < bitcount
    /\ IF bits[search_idx] # 0
       THEN /\ search_idx' = search_idx + 1
            /\ UNCHANGED <<loop, locals>>
       ELSE /\ ok_idx' = search_idx
            /\ i' = 1
            /\ loop' = "inner"
            /\ UNCHANGED <<search_idx, page_count>>
    /\ UNCHANGED <<bits, inside, held>>

\* The inner loop counts free pages; it begins with the page just tested.
SearchRun ==
    /\ loop = "inner"
    /\ i < page_count
    /\ search_idx < bitcount
    /\ search_idx' = search_idx + 1
    /\ IF bits[search_idx] # 0
       THEN /\ ok_idx' = -1
            /\ loop' = "outer"
            /\ UNCHANGED i
       ELSE /\ i' = i + 1
            /\ UNCHANGED <<ok_idx, loop>>
    /\ UNCHANGED <<bits, inside, page_count, held>>

\* The bitmap ended first: back to the outer loop, which ends too.
SearchEnds ==
    /\ loop = "inner"
    /\ i < page_count
    /\ search_idx >= bitcount
    /\ loop' = "outer"
    /\ UNCHANGED <<bits, search_idx, inside, locals, held>>

\* Mutant: the run found is taken when the bitmap ends, however short it is.
Mutant_SearchFound ==
    /\ loop = "inner"
    /\ i >= page_count \/ search_idx >= bitcount
    /\ bits' = bitmap_set_bit(bits, ok_idx, page_count, Complement(0))
    /\ held' = [held EXCEPT ![inside] = Run(ok_idx, page_count)]
    /\ Return
    /\ UNCHANGED <<search_idx, locals>>

\* The run is marked and its address returned.
SearchFound ==
    /\ loop = "inner"
    /\ i >= page_count
    /\ bits' = bitmap_set_bit(bits, ok_idx, page_count, Complement(0))
    /\ held' = [held EXCEPT ![inside] = Run(ok_idx, page_count)]
    /\ Return
    /\ UNCHANGED <<search_idx, locals>>

addr_free_page(c) ==
    /\ inside = None
    /\ Holds(c)
    /\ bits' = bitmap_set_bit(bits, held[c].start, held[c].pages, 0)
    /\ held' = [held EXCEPT ![c] = NoRun]
    /\ UNCHANGED <<search_idx, inside, loop, locals>>

\* addr_alloc_init.
AllocInit ==
    /\ bitmap_init
    /\ search_idx = 0
    /\ inside = None
    /\ loop = "none"
    /\ page_count = 0 /\ ok_idx = -1 /\ i = 0
    /\ held = [c \in Caller |-> NoRun]

Search == SearchFails \/ SearchStart \/ SearchRun \/ SearchEnds \/ SearchFound

AllocNext ==
    \/ Search
    \/ \E c \in Caller, n \in PageCounts : addr_alloc_page(c, n)
    \/ \E c \in Caller : addr_free_page(c)

AllocSpec == AllocInit /\ [][AllocNext]_vars

-----------------------------------------------------------------------------

\* Every variable has its type: above all, the search index and the bits.
AllocTypeOK ==
    /\ bits \in [Page -> {0, 1}]
    /\ search_idx \in 0..bitcount
    /\ inside \in Caller \cup {None}
    /\ loop \in {"none", "outer", "inner"}
    /\ page_count \in Nat /\ ok_idx \in Int /\ i \in Nat
    /\ held \in [Caller -> [start : Int, pages : Nat]]

\* OverrunAtMostOne: the run of pages a caller holds begins in the pool and passes its end
\* by one page at most.  The search tests its first page twice and so one page too few
\* (bitmap.c:53): it stops at the end of the bitmap, but takes a run that it has not
\* tested to the last page.  RunInPool is what should hold.
OverrunAtMostOne ==
    \A c \in Caller : Holds(c) =>
        held[c].start \in Page /\ held[c].start + held[c].pages - 1 <= bitcount

\* The pages that c holds.
PagesOf(c) == held[c].start..(held[c].start + held[c].pages - 1)

\* RunInPool: every page that a caller holds is a page of the pool: bitmap_alloc_nbits
\* looks for a run in the bitmap (bitmap.h:13, "找位图中连续的count个位为bit的空闲区间").
RunInPool == \A c \in Caller : Holds(c) => PagesOf(c) \subseteq Page

\* OverlapAtMostOne: the runs that two callers hold share one page at most, the last of
\* the earlier run.  Allocated pages are not marked (see HeldDisjoint), so all that
\* keeps runs apart is that search_idx never goes back.
OverlapAtMostOne ==
    \A c, d \in Caller : c # d /\ Holds(c) /\ Holds(d) =>
        \/ held[c].start + held[c].pages - 1 <= held[d].start
        \/ held[d].start + held[d].pages - 1 <= held[c].start

\* HeldDisjoint: no page is given to two callers at once: bitmap_alloc_nbits looks for
\* pages that are free (bitmap.h:13, "找位图中连续的count个位为bit的空闲区间").
HeldDisjoint ==
    \A c, d \in Caller : c # d /\ Holds(c) /\ Holds(d) => PagesOf(c) \cap PagesOf(d) = {}

-----------------------------------------------------------------------------
(* The inductive invariant.                                                *)

\* What the search has found so far: a run from ok_idx to search_idx, of which the
\* first page was counted twice.
SearchInv ==
    /\ loop = "none" <=> inside = None
    /\ loop # "none" => page_count > 0 /\ ~Holds(inside)
    /\ loop = "inner" => /\ ok_idx \in Page
                         /\ i > 0 /\ i <= page_count
                         /\ search_idx = ok_idx + i - 1

\* Everything held lies before the place where the search goes on, and before the
\* run it is looking at.
HeldInv ==
    \A c \in Caller : Holds(c) =>
        /\ held[c].start \in Page
        /\ held[c].start + held[c].pages - 1 <= search_idx
        /\ loop = "inner" => held[c].start + held[c].pages - 1 <= ok_idx

AllocInv == AllocTypeOK /\ SearchInv /\ HeldInv /\ OverlapAtMostOne
=============================================================================
