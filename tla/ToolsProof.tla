----------------------------- MODULE ToolsProof -----------------------------
(***************************************************************************)
(* The tools.  For any number of lists and nodes, the pointer code of      *)
(* tools/list.c keeps every list the sequence that ListOps says it is.     *)
(* For any int, string and message, the functions of tools/klib.c and the  *)
(* loader's int_to_str give what their callers expect.                     *)
(***************************************************************************)
EXTENDS List, Klib, ListLemmas, WellFoundedInduction, TLAPS

\* Reading a field after a write through a pointer.
LEMMA PutFacts ==
    ASSUME NEW V, NEW f \in [Node -> V], NEW p, NEW q \in V
    PROVE  /\ Put(f, p, q) \in [Node -> V]
           /\ \A x \in Node : Put(f, p, q)[x] = IF x = p THEN q ELSE f[x]
  BY DEF Put

\* The members of a list by position.
LEMMA MemberFacts ==
    ASSUME NEW s \in Seq(Node)
    PROVE  /\ Len(s) \in Nat
           /\ \A i \in 1..Len(s) : s[i] \in Node /\ s[i] \in Nodes(s)
           /\ \A x \in Nodes(s) : \E i \in 1..Len(s) : x = s[i]
           /\ s = <<>> <=> Len(s) = 0
           /\ s # <<>> => Head(s) = s[1] /\ Len(s) \in 1..Len(s) /\ 1 \in 1..Len(s)
  <1>1. s = <<>> <=> Len(s) = 0
    OBVIOUS
  <1>2. Len(s) \in Nat /\ \A i \in 1..Len(s) : s[i] \in Node
    OBVIOUS
  <1>3. s # <<>> => Head(s) = s[1]
    OBVIOUS
  <1> QED BY <1>1, <1>2, <1>3 DEF Nodes

\* A list none of whose nodes or fields an operation wrote is represented as before.
LEMMA OtherList ==
    ASSUME NEW k \in ListId, ListTypeOK, Rep(k),
           view'[k] = view[k], first'[k] = first[k], last'[k] = last[k],
           count'[k] = count[k],
           \A x \in Nodes(view[k]) : next'[x] = next[x] /\ pre'[x] = pre[x]
    PROVE  Rep(k)'
  <1>1. \A i \in 1..Len(view[k]) : view[k][i] \in Nodes(view[k])
    BY DEF Nodes
  <1>2. \A i \in 1..Len(view[k]) :
           /\ next'[view[k][i]] = (IF i = Len(view[k]) THEN Null ELSE view[k][i + 1])
           /\ pre'[view[k][i]] = (IF i = 1 THEN Null ELSE view[k][i - 1])
    BY <1>1 DEF Rep
  <1> QED BY <1>2 DEF Rep, list_count, list_first

\* The two ends of a nonempty list.
LEMMA Ends ==
    ASSUME NEW l \in ListId, ListTypeOK, Rep(l)
    PROVE  /\ view[l] \in Seq(Node)
           /\ list_is_empty(l) <=> view[l] = <<>>
           /\ view[l] = <<>> => first[l] = Null /\ last[l] = Null
           /\ view[l] # <<>> => /\ first[l] = view[l][1] /\ first[l] \in Nodes(view[l])
                                /\ last[l] = view[l][Len(view[l])]
                                /\ last[l] \in Nodes(view[l])
  <1>1. view[l] \in Seq(Node)
    BY DEF ListTypeOK
  <1> QED BY <1>1, MemberFacts DEF Rep, list_is_empty, list_count, list_first

-----------------------------------------------------------------------------
(* One lemma per operation: the pointers still represent the lists.        *)

\* list_insert_last.
LEMMA InsertLastRep ==
    ASSUME NEW l \in ListId, NEW n \in Node, ListInv, InsertLastCall(l, n)
    PROVE  ListInv'
  <1> DEFINE s == view[l]
             P == Node \cup {Null}
  <1>1. /\ s \in Seq(Node) /\ n \notin Nodes(s) /\ NoRepeat(s)
        /\ list_is_empty(l) <=> s = <<>>
        /\ s = <<>> => first[l] = Null /\ last[l] = Null
        /\ s # <<>> => /\ first[l] = s[1] /\ first[l] \in Nodes(s)
                       /\ last[l] = s[Len(s)] /\ last[l] \in Nodes(s)
    BY Ends DEF ListInv, Represents, LinkedOnce, InsertLastCall, Unlinked
  <1>2. /\ pre' \in [Node -> P] /\ next' \in [Node -> P]
        /\ \A x \in Node : pre'[x] = IF x = n THEN last[l] ELSE pre[x]
        /\ \A x \in Node : next'[x] = IF x = last[l] /\ s # <<>> THEN n
                                      ELSE IF x = n THEN Null ELSE next[x]
    <2>1. /\ pre \in [Node -> P] /\ next \in [Node -> P] /\ last[l] \in P
          /\ Null \in P /\ n \in P
      BY DEF ListInv, ListTypeOK
    <2> HIDE DEF P
    <2>2. pre' = Put(pre, n, last[l])
      BY DEF InsertLastCall, ptr_insert_last
    <2>3. next' = IF s = <<>> THEN Put(next, n, Null) ELSE Put(Put(next, n, Null), last[l], n)
      BY <1>1 DEF InsertLastCall, ptr_insert_last
    <2>4. /\ Put(next, n, Null) \in [Node -> P]
          /\ \A x \in Node : Put(next, n, Null)[x] = IF x = n THEN Null ELSE next[x]
      BY <2>1 DEF Put
    <2>5. /\ Put(Put(next, n, Null), last[l], n) \in [Node -> P]
          /\ \A x \in Node : Put(Put(next, n, Null), last[l], n)[x] =
                                IF x = last[l] THEN n ELSE Put(next, n, Null)[x]
      BY <2>1, <2>4, PutFacts
    <2>6. /\ Put(pre, n, last[l]) \in [Node -> P]
          /\ \A x \in Node : Put(pre, n, last[l])[x] = IF x = n THEN last[l] ELSE pre[x]
      BY <2>1 DEF Put
    <2> QED BY <2>2, <2>3, <2>4, <2>5, <2>6
  <1>3. /\ view' = [view EXCEPT ![l] = list_insert_last(s, n)]
        /\ count' = [count EXCEPT ![l] = count[l] + 1]
        /\ last' = [last EXCEPT ![l] = n]
        /\ first' = IF s = <<>> THEN [first EXCEPT ![l] = n] ELSE first
    BY <1>1 DEF InsertLastCall, ptr_insert_last
  <1>4. ListTypeOK'
    <2>1. list_insert_last(s, n) \in Seq(Node)
      BY <1>1, InsertLast
    <2> QED BY <1>2, <1>3, <2>1 DEF ListInv, ListTypeOK
  <1>5. /\ view'[l] = Append(s, n) /\ last'[l] = n
        /\ first'[l] = (IF s = <<>> THEN n ELSE first[l])
        /\ count'[l] = count[l] + 1
        /\ Len(view'[l]) = Len(s) + 1
        /\ \A i \in 1..Len(s) : view'[l][i] = s[i]
        /\ view'[l][Len(s) + 1] = n
    <2>1. /\ view'[l] = Append(s, n) /\ last'[l] = n
          /\ first'[l] = (IF s = <<>> THEN n ELSE first[l])
          /\ count'[l] = count[l] + 1
      BY <1>3 DEF ListInv, ListTypeOK, list_insert_last
    <2>2. /\ Len(Append(s, n)) = Len(s) + 1
          /\ \A i \in 1..Len(s) : Append(s, n)[i] = s[i]
          /\ Append(s, n)[Len(s) + 1] = n
      BY <1>1
    <2> QED BY <2>1, <2>2
  <1>6. Rep(l)'
    <2>1. Len(s) \in Nat /\ (s = <<>> <=> Len(s) = 0) /\ count[l] = Len(s)
      BY <1>1, MemberFacts DEF ListInv, Represents, Rep, list_count
    <2>2. count'[l] = Len(view'[l])
      BY <1>5, <2>1
    <2>3. first'[l] = Head(view'[l]) /\ view'[l] # <<>>
      <3>1. s # <<>> => 1 \in 1..Len(s)
        BY <2>1
      <3>6. view'[l] \in Seq(Node)
        BY <1>4 DEF ListTypeOK
      <3>2. view'[l] \in Seq(Node) /\ Len(view'[l]) # 0
        BY <3>6, <1>5, <2>1
      <3>3. view'[l] # <<>> /\ Head(view'[l]) = view'[l][1]
        BY <3>2
      <3>4. CASE s = <<>>
        BY <3>3, <3>4, <1>5, <2>1
      <3>5. CASE s # <<>>
        BY <3>3, <3>5, <1>5, <1>1, <3>1
      <3> QED BY <3>3, <3>4, <3>5
    <2>4. last'[l] = view'[l][Len(view'[l])]
      BY <1>5
    <2>5. ASSUME NEW i \in 1..Len(view'[l])
          PROVE  /\ next'[view'[l][i]] = (IF i = Len(view'[l]) THEN Null ELSE view'[l][i + 1])
                 /\ pre'[view'[l][i]] = (IF i = 1 THEN Null ELSE view'[l][i - 1])
      <3>1. CASE i = Len(s) + 1
        <4>1. view'[l][i] = n
          BY <3>1, <1>5
        <4>2. next'[n] = Null
          BY <1>1, <1>2
        <4>3. pre'[n] = last[l]
          BY <1>2
        <4>4. s # <<>> => view'[l][i - 1] = s[Len(s)] /\ i # 1
          BY <3>1, <1>5, <2>1
        <4> QED BY <4>1, <4>2, <4>3, <4>4, <3>1, <1>1, <1>5, <2>1
      <3>2. CASE i \in 1..Len(s)
        <4>1. /\ view'[l][i] = s[i] /\ s[i] \in Node /\ s[i] \in Nodes(s) /\ s[i] # n
              /\ s # <<>>
          BY <3>2, <1>1, <1>5, <2>1, MemberFacts
        <4>2. pre'[s[i]] = pre[s[i]]
          BY <4>1, <1>2
        <4>3. pre[s[i]] = (IF i = 1 THEN Null ELSE s[i - 1])
          BY <3>2 DEF ListInv, Represents, Rep
        <4>4. i # 1 => view'[l][i - 1] = s[i - 1]
          BY <3>2, <1>5, <2>1
        <4>5. i = Len(s) => next'[s[i]] = n
          BY <4>1, <1>1, <1>2
        <4>6. i # Len(s) => s[i] # last[l]
          <5>1. Len(s) \in 1..Len(s)
            BY <2>1, <3>2
          <5> QED BY <3>2, <1>1, <4>1, <5>1 DEF NoRepeat
        <4>7. i # Len(s) => next'[s[i]] = next[s[i]] /\ next[s[i]] = s[i + 1]
          BY <4>1, <4>6, <1>2, <3>2 DEF ListInv, Represents, Rep
        <4>8. i # Len(s) => view'[l][i + 1] = s[i + 1]
          BY <3>2, <1>5, <2>1
        <4>9. i = Len(s) => view'[l][i + 1] = n
          BY <1>5
        <4> QED BY <4>1, <4>2, <4>3, <4>4, <4>5, <4>7, <4>8, <4>9, <3>2, <1>5, <2>1
      <3>3. i = Len(s) + 1 \/ i \in 1..Len(s)
        BY <1>5, <2>1
      <3> QED BY <3>1, <3>2, <3>3
    <2> QED BY <2>2, <2>3, <2>4, <2>5 DEF Rep, list_count, list_first
  <1>7. ASSUME NEW k \in ListId, k # l
        PROVE  Rep(k)' /\ view'[k] = view[k]
    <2>1. /\ view'[k] = view[k] /\ first'[k] = first[k] /\ last'[k] = last[k]
          /\ count'[k] = count[k]
      BY <1>3, <1>7 DEF ListInv, ListTypeOK
    <2>2. \A x \in Nodes(view[k]) : x \in Node /\ x # n /\ x \notin Nodes(s)
      <3>1. Nodes(view[k]) \subseteq Node
        BY NodesType DEF ListInv, ListTypeOK
      <3> QED BY <3>1, <1>7 DEF ListInv, LinkedOnce, InsertLastCall, Unlinked
    <2>3. \A x \in Nodes(view[k]) : next'[x] = next[x] /\ pre'[x] = pre[x]
      BY <2>2, <1>1, <1>2
    <2>4. ListTypeOK /\ Rep(k)
      BY DEF ListInv, Represents
    <2> QED BY <2>1, <2>3, <2>4, OtherList
  <1>8. Nodes(view'[l]) = Nodes(s) \cup {n} /\ NoRepeat(view'[l])
    <2>1. view'[l] = list_insert_last(s, n)
      BY <1>5 DEF list_insert_last
    <2>2. /\ Nodes(list_insert_last(s, n)) = Nodes(s) \cup {n}
          /\ NoRepeat(list_insert_last(s, n))
      BY <1>1, InsertLast
    <2> QED BY <2>1, <2>2
  <1>9. LinkedOnce'
    <2>1. \A k \in ListId : NoRepeat(view'[k])
      BY <1>7, <1>8 DEF ListInv, LinkedOnce
    <2>2. ASSUME NEW k \in ListId, NEW j \in ListId, k # j
          PROVE  Nodes(view'[k]) \cap Nodes(view'[j]) = {}
      <3>1. Nodes(view[k]) \cap Nodes(view[j]) = {} /\ n \notin Nodes(view[k])
            /\ n \notin Nodes(view[j])
        BY <2>2 DEF ListInv, LinkedOnce, InsertLastCall, Unlinked
      <3> QED BY <3>1, <1>7, <1>8, <2>2
    <2> QED BY <2>1, <2>2 DEF LinkedOnce
  <1>10. UnlinkedClear'
    <2> SUFFICES ASSUME NEW m \in Node, Unlinked(m)'
                 PROVE  pre'[m] = Null /\ next'[m] = Null
      BY DEF UnlinkedClear
    <2>1. m # n /\ Unlinked(m)
      BY <1>7, <1>8 DEF Unlinked
    <2>2. pre[m] = Null /\ next[m] = Null /\ (s # <<>> => m # last[l])
      BY <2>1, <1>1 DEF ListInv, UnlinkedClear, Unlinked
    <2> QED BY <2>1, <2>2, <1>2
  <1> QED BY <1>4, <1>6, <1>7, <1>9, <1>10 DEF ListInv, Represents

\* list_insert_first.
LEMMA InsertFirstRep ==
    ASSUME NEW l \in ListId, NEW n \in Node, ListInv, InsertFirstCall(l, n)
    PROVE  ListInv'
  <1> DEFINE s == view[l]
             P == Node \cup {Null}
  <1>1. /\ s \in Seq(Node) /\ n \notin Nodes(s) /\ NoRepeat(s)
        /\ list_is_empty(l) <=> s = <<>>
        /\ s = <<>> => first[l] = Null /\ last[l] = Null
        /\ s # <<>> => /\ first[l] = s[1] /\ first[l] \in Nodes(s)
                       /\ last[l] = s[Len(s)] /\ last[l] \in Nodes(s)
    BY Ends DEF ListInv, Represents, LinkedOnce, InsertFirstCall, Unlinked
  <1>2. /\ pre' \in [Node -> P] /\ next' \in [Node -> P]
        /\ \A x \in Node : next'[x] = IF x = n THEN first[l] ELSE next[x]
        /\ \A x \in Node : pre'[x] = IF x = first[l] /\ s # <<>> THEN n
                                     ELSE IF x = n THEN Null ELSE pre[x]
    <2>1. /\ pre \in [Node -> P] /\ next \in [Node -> P] /\ first[l] \in P
          /\ Null \in P /\ n \in P
      BY DEF ListInv, ListTypeOK
    <2> HIDE DEF P
    <2>2. next' = Put(next, n, first[l])
      BY DEF InsertFirstCall, ptr_insert_first
    <2>3. pre' = IF s = <<>> THEN Put(pre, n, Null) ELSE Put(Put(pre, n, Null), first[l], n)
      BY <1>1 DEF InsertFirstCall, ptr_insert_first
    <2>4. /\ Put(pre, n, Null) \in [Node -> P]
          /\ \A x \in Node : Put(pre, n, Null)[x] = IF x = n THEN Null ELSE pre[x]
      BY <2>1 DEF Put
    <2>5. /\ Put(Put(pre, n, Null), first[l], n) \in [Node -> P]
          /\ \A x \in Node : Put(Put(pre, n, Null), first[l], n)[x] =
                                IF x = first[l] THEN n ELSE Put(pre, n, Null)[x]
      BY <2>1, <2>4, PutFacts
    <2>6. /\ Put(next, n, first[l]) \in [Node -> P]
          /\ \A x \in Node : Put(next, n, first[l])[x] = IF x = n THEN first[l] ELSE next[x]
      BY <2>1 DEF Put
    <2> QED BY <2>2, <2>3, <2>4, <2>5, <2>6
  <1>3. /\ view' = [view EXCEPT ![l] = list_insert_first(s, n)]
        /\ count' = [count EXCEPT ![l] = count[l] + 1]
        /\ first' = [first EXCEPT ![l] = n]
        /\ last' = IF s = <<>> THEN [last EXCEPT ![l] = n] ELSE last
    BY <1>1 DEF InsertFirstCall, ptr_insert_first
  <1>4. ListTypeOK'
    <2>1. list_insert_first(s, n) \in Seq(Node)
      BY <1>1 DEF list_insert_first
    <2> QED BY <1>2, <1>3, <2>1 DEF ListInv, ListTypeOK
  <1>5. /\ first'[l] = n
        /\ last'[l] = (IF s = <<>> THEN n ELSE last[l])
        /\ count'[l] = count[l] + 1
        /\ view'[l] \in Seq(Node)
        /\ Len(view'[l]) = Len(s) + 1
        /\ view'[l][1] = n
        /\ \A i \in 1..Len(s) : view'[l][i + 1] = s[i]
    <2>1. /\ view'[l] = <<n>> \o s /\ first'[l] = n
          /\ last'[l] = (IF s = <<>> THEN n ELSE last[l])
          /\ count'[l] = count[l] + 1
      BY <1>3 DEF ListInv, ListTypeOK, list_insert_first
    <2>2. /\ Len(<<n>> \o s) = Len(s) + 1
          /\ (<<n>> \o s)[1] = n
          /\ \A i \in 1..Len(s) : (<<n>> \o s)[i + 1] = s[i]
          /\ <<n>> \o s \in Seq(Node)
      BY <1>1
    <2> QED BY <2>1, <2>2
  <1>11. Len(s) \in Nat /\ (s = <<>> <=> Len(s) = 0) /\ count[l] = Len(s)
    BY <1>1, MemberFacts DEF ListInv, Represents, Rep, list_count
  <1>6. Rep(l)'
    <2>2. count'[l] = Len(view'[l])
      BY <1>5, <1>11
    <2>3. first'[l] = Head(view'[l]) /\ view'[l] # <<>>
      BY <1>5, <1>11
    <2>4. last'[l] = view'[l][Len(view'[l])]
      <3>1. s # <<>> => Len(s) \in 1..Len(s)
        BY <1>11
      <3> QED BY <3>1, <1>1, <1>5, <1>11
    <2>5. ASSUME NEW i \in 1..Len(view'[l])
          PROVE  /\ next'[view'[l][i]] = (IF i = Len(view'[l]) THEN Null ELSE view'[l][i + 1])
                 /\ pre'[view'[l][i]] = (IF i = 1 THEN Null ELSE view'[l][i - 1])
      <3>1. CASE i = 1
        <4>1. view'[l][i] = n /\ next'[n] = first[l]
          BY <3>1, <1>2, <1>5
        <4>2. pre'[n] = Null
          BY <1>1, <1>2, MemberFacts
        <4>3. s # <<>> => view'[l][2] = s[1] /\ Len(view'[l]) # 1
          <5>1. s # <<>> => 1 \in 1..Len(s)
            BY <1>11
          <5> QED BY <5>1, <1>5, <1>11
        <4>4. s = <<>> => Len(view'[l]) = 1
          BY <1>5, <1>11
        <4> QED BY <4>1, <4>2, <4>3, <4>4, <3>1, <1>1
      <3>2. CASE i # 1
        <4> DEFINE j == i - 1
        <4>1. j \in 1..Len(s) /\ i = j + 1
          BY <3>2, <1>5, <1>11
        <4> HIDE DEF j
        <4>2. /\ view'[l][i] = s[j] /\ s[j] \in Node /\ s[j] \in Nodes(s) /\ s[j] # n
              /\ s # <<>>
          BY <4>1, <1>1, <1>5, <1>11, MemberFacts
        <4>3. next'[s[j]] = next[s[j]]
          BY <4>2, <1>2
        <4>4. /\ next[s[j]] = (IF j = Len(s) THEN Null ELSE s[j + 1])
              /\ pre[s[j]] = (IF j = 1 THEN Null ELSE s[j - 1])
          BY <4>1 DEF ListInv, Represents, Rep
        <4>5. j # Len(s) => view'[l][i + 1] = s[j + 1]
          <5>1. j # Len(s) => j + 1 \in 1..Len(s)
            BY <4>1, <1>11
          <5>2. j # Len(s) => view'[l][(j + 1) + 1] = s[j + 1]
            BY <5>1, <1>5
          <5> QED BY <5>2, <4>1
        <4>6. i = Len(view'[l]) <=> j = Len(s)
          BY <4>1, <1>5, <1>11
        <4>7. j = 1 => pre'[s[j]] = n
          BY <4>2, <1>1, <1>2
        <4>8. j # 1 => s[j] # first[l]
          <5>1. 1 \in 1..Len(s)
            BY <4>1, <1>11
          <5> QED BY <5>1, <4>1, <4>2, <1>1 DEF NoRepeat
        <4>9. j # 1 => pre'[s[j]] = s[j - 1] /\ view'[l][i - 1] = s[j - 1]
          <5>1. j # 1 => pre'[s[j]] = s[j - 1]
            BY <4>2, <4>4, <4>8, <1>2
          <5>2. j # 1 => j - 1 \in 1..Len(s)
            BY <4>1, <1>11
          <5>3. j # 1 => view'[l][(j - 1) + 1] = s[j - 1]
            BY <5>2, <1>5
          <5>4. (j - 1) + 1 = i - 1
            BY <4>1
          <5> QED BY <5>1, <5>3, <5>4
        <4>10. j = 1 => view'[l][i - 1] = n
          BY <4>1, <1>5
        <4> QED BY <4>2, <4>3, <4>4, <4>5, <4>6, <4>7, <4>9, <4>10, <3>2
      <3> QED BY <3>1, <3>2
    <2> QED BY <2>2, <2>3, <2>4, <2>5 DEF Rep, list_count, list_first
  <1>7. ASSUME NEW k \in ListId, k # l
        PROVE  Rep(k)' /\ view'[k] = view[k]
    <2>1. /\ view'[k] = view[k] /\ first'[k] = first[k] /\ last'[k] = last[k]
          /\ count'[k] = count[k]
      BY <1>3, <1>7 DEF ListInv, ListTypeOK
    <2>2. \A x \in Nodes(view[k]) : x \in Node /\ x # n /\ x \notin Nodes(s)
      <3>1. Nodes(view[k]) \subseteq Node
        BY NodesType DEF ListInv, ListTypeOK
      <3> QED BY <3>1, <1>7 DEF ListInv, LinkedOnce, InsertFirstCall, Unlinked
    <2>3. \A x \in Nodes(view[k]) : next'[x] = next[x] /\ pre'[x] = pre[x]
      BY <2>2, <1>1, <1>2
    <2>4. ListTypeOK /\ Rep(k)
      BY DEF ListInv, Represents
    <2> QED BY <2>1, <2>3, <2>4, OtherList
  <1>8. Nodes(view'[l]) = Nodes(s) \cup {n} /\ NoRepeat(view'[l])
    <2>1. \A i \in 1..Len(view'[l]) :
             IF i = 1 THEN view'[l][i] = n
                      ELSE i - 1 \in 1..Len(s) /\ view'[l][i] = s[i - 1]
      <3>1. \A i \in 1..Len(view'[l]) : i # 1 => i - 1 \in 1..Len(s) /\ (i - 1) + 1 = i
        BY <1>5, <1>11
      <3> QED BY <3>1, <1>5
    <2>2. \A j \in 1..Len(s) : j + 1 \in 1..Len(view'[l]) /\ view'[l][j + 1] = s[j]
      BY <1>5, <1>11
    <2>3. 1 \in 1..Len(view'[l])
      BY <1>5, <1>11
    <2>4. Nodes(view'[l]) \subseteq Nodes(s) \cup {n}
      BY <2>1 DEF Nodes
    <2>7. n \in Nodes(view'[l])
      BY <2>3, <1>5 DEF Nodes
    <2>8. Nodes(s) \subseteq Nodes(view'[l])
      BY <2>2 DEF Nodes
    <2>5. Nodes(s) \cup {n} \subseteq Nodes(view'[l])
      BY <2>7, <2>8
    <2>6. NoRepeat(view'[l])
      <3> SUFFICES ASSUME NEW i \in 1..Len(view'[l]), NEW j \in 1..Len(view'[l]),
                          view'[l][i] = view'[l][j]
                   PROVE  i = j
        BY DEF NoRepeat
      <3>1. \A k \in 1..Len(s) : s[k] # n
        BY <1>1 DEF Nodes
      <3>2. i = 1 <=> j = 1
        BY <2>1, <3>1
      <3>3. i # 1 => i - 1 = j - 1
        BY <2>1, <3>2, <1>1 DEF NoRepeat
      <3> QED BY <3>2, <3>3, <1>5, <1>11
    <2> QED BY <2>4, <2>5, <2>6
  <1>9. LinkedOnce'
    <2>1. \A k \in ListId : NoRepeat(view'[k])
      BY <1>7, <1>8 DEF ListInv, LinkedOnce
    <2>2. ASSUME NEW k \in ListId, NEW j \in ListId, k # j
          PROVE  Nodes(view'[k]) \cap Nodes(view'[j]) = {}
      <3>1. Nodes(view[k]) \cap Nodes(view[j]) = {} /\ n \notin Nodes(view[k])
            /\ n \notin Nodes(view[j])
        BY <2>2 DEF ListInv, LinkedOnce, InsertFirstCall, Unlinked
      <3> QED BY <3>1, <1>7, <1>8, <2>2
    <2> QED BY <2>1, <2>2 DEF LinkedOnce
  <1>10. UnlinkedClear'
    <2> SUFFICES ASSUME NEW m \in Node, Unlinked(m)'
                 PROVE  pre'[m] = Null /\ next'[m] = Null
      BY DEF UnlinkedClear
    <2>1. m # n /\ Unlinked(m)
      BY <1>7, <1>8 DEF Unlinked
    <2>2. pre[m] = Null /\ next[m] = Null /\ (s # <<>> => m # first[l])
      BY <2>1, <1>1 DEF ListInv, UnlinkedClear, Unlinked
    <2> QED BY <2>1, <2>2, <1>2
  <1> QED BY <1>4, <1>6, <1>7, <1>9, <1>10 DEF ListInv, Represents

\* list_remove.
LEMMA RemoveRep ==
    ASSUME NEW l \in ListId, NEW n \in Node, ListInv, RemoveCall(l, n)
    PROVE  ListInv'
  <1> DEFINE s == view[l]
             N == Len(view[l])
             P == Node \cup {Null}
             p == Position(view[l], n)
  <1>1. /\ s \in Seq(Node) /\ n \in Nodes(s) /\ NoRepeat(s) /\ s # <<>>
        /\ first[l] = s[1] /\ last[l] = s[N] /\ N \in Nat
    <2>1. s \in Seq(Node) /\ n \in Nodes(s) /\ NoRepeat(s)
      BY DEF ListInv, ListTypeOK, LinkedOnce, RemoveCall
    <2>2. s # <<>>
      BY <2>1, NodesType
    <2> QED BY <2>1, <2>2, Ends, MemberFacts DEF ListInv, Represents
  <1>2. p \in 1..N /\ s[p] = n
    BY <1>1 DEF Nodes, Position
  <1> HIDE DEF p
  <1>3. \A i, j \in 1..N : s[i] = s[j] => i = j
    BY <1>1 DEF NoRepeat
  <1>4. \A i \in 1..N : /\ s[i] \in Node /\ s[i] # Null
                        /\ next[s[i]] = (IF i = N THEN Null ELSE s[i + 1])
                        /\ pre[s[i]] = (IF i = 1 THEN Null ELSE s[i - 1])
    <2>1. \A i \in 1..N : s[i] \in Node
      BY <1>1, MemberFacts
    <2>2. \A i \in 1..N : s[i] # Null
      BY <2>1, ListAssumption
    <2>3. Rep(l)
      BY DEF ListInv, Represents
    <2> QED BY <2>1, <2>2, <2>3 DEF Rep
  <1>5. /\ next[n] = (IF p = N THEN Null ELSE s[p + 1])
        /\ pre[n] = (IF p = 1 THEN Null ELSE s[p - 1])
    BY <1>2, <1>4
  <1>6. /\ pre' \in [Node -> P] /\ next' \in [Node -> P]
        /\ \A x \in Node : next'[x] = IF x = n THEN Null
                                      ELSE IF x = pre[n] THEN next[n] ELSE next[x]
        /\ \A x \in Node : pre'[x] = IF x = n THEN Null
                                     ELSE IF x = next[n] THEN pre[n] ELSE pre[x]
    <2>1. /\ pre \in [Node -> P] /\ next \in [Node -> P] /\ Null \in P
          /\ pre[n] \in P /\ next[n] \in P
      BY DEF ListInv, ListTypeOK
    <2> HIDE DEF P
    <2>2. /\ next' = Put(Put(next, pre[n], next[n]), n, Null)
          /\ pre' = Put(Put(pre, next[n], pre[n]), n, Null)
      BY DEF RemoveCall, ptr_remove
    <2>3. /\ Put(next, pre[n], next[n]) \in [Node -> P]
          /\ \A x \in Node : Put(next, pre[n], next[n])[x] = IF x = pre[n] THEN next[n] ELSE next[x]
      BY <2>1 DEF Put
    <2>4. /\ Put(pre, next[n], pre[n]) \in [Node -> P]
          /\ \A x \in Node : Put(pre, next[n], pre[n])[x] = IF x = next[n] THEN pre[n] ELSE pre[x]
      BY <2>1 DEF Put
    <2>5. /\ Put(Put(next, pre[n], next[n]), n, Null) \in [Node -> P]
          /\ \A x \in Node : Put(Put(next, pre[n], next[n]), n, Null)[x]
                               = IF x = n THEN Null ELSE Put(next, pre[n], next[n])[x]
      BY <2>1, <2>3, PutFacts
    <2>6. /\ Put(Put(pre, next[n], pre[n]), n, Null) \in [Node -> P]
          /\ \A x \in Node : Put(Put(pre, next[n], pre[n]), n, Null)[x]
                               = IF x = n THEN Null ELSE Put(pre, next[n], pre[n])[x]
      BY <2>1, <2>4 DEF Put
    <2> QED BY <2>2, <2>3, <2>4, <2>5, <2>6
  <1>7. /\ view' = [view EXCEPT ![l] = list_remove(s, n)]
        /\ count' = [count EXCEPT ![l] = count[l] - 1]
        /\ first' = IF n = first[l] THEN [first EXCEPT ![l] = next[n]] ELSE first
        /\ last' = IF n = last[l] THEN [last EXCEPT ![l] = pre[n]] ELSE last
    BY DEF RemoveCall, ptr_remove
  <1>8. /\ list_remove(s, n) \in Seq(Node)
        /\ Nodes(list_remove(s, n)) = Nodes(s) \ {n}
        /\ NoRepeat(list_remove(s, n))
    BY <1>1, Remove
  <1>9. count[l] = N /\ N > 0
    BY <1>1, MemberFacts DEF ListInv, Represents, Rep, list_count
  <1>10. ListTypeOK'
    <2>1. next[n] \in P /\ pre[n] \in P /\ N - 1 \in Nat
      BY <1>9, <1>1 DEF ListInv, ListTypeOK
    <2> QED BY <1>6, <1>7, <1>8, <1>9, <2>1 DEF ListInv, ListTypeOK
  <1>11. /\ view'[l] = list_remove(s, n)
         /\ count'[l] = N - 1
         /\ first'[l] = (IF n = first[l] THEN next[n] ELSE first[l])
         /\ last'[l] = (IF n = last[l] THEN pre[n] ELSE last[l])
    BY <1>7, <1>9 DEF ListInv, ListTypeOK
  <1>12. /\ Len(view'[l]) = N - 1
         /\ \A i \in 1..(N - 1) : view'[l][i] = IF i < p THEN s[i] ELSE s[i + 1]
    <2>1. view'[l] = [i \in 1..(N - 1) |-> IF i < p THEN s[i] ELSE s[i + 1]]
      BY <1>11 DEF list_remove, p
    <2>2. N - 1 \in Nat
      BY <1>9, <1>1
    <2>3. Len([i \in 1..(N - 1) |-> IF i < p THEN s[i] ELSE s[i + 1]]) = N - 1
      BY <2>2, <1>8, <1>11, <2>1
    <2> QED BY <2>1, <2>3
  <1> HIDE DEF s, N, P
  <1>13. Rep(l)'
    <2>1. view'[l] \in Seq(Node) /\ (view'[l] = <<>> <=> N = 1)
      BY <1>8, <1>11, <1>12, <1>1
    <2>2. N # 1 => Head(view'[l]) = view'[l][1]
      BY <2>1
    <2>3. first'[l] = IF N = 1 THEN Null ELSE view'[l][1]
      <3>1. n = first[l] <=> p = 1
        BY <1>1, <1>2, <1>3, <1>9
      <3>2. N # 1 => view'[l][1] = IF 1 < p THEN s[1] ELSE s[2]
        <4>1. N # 1 => 1 \in 1..(N - 1)
          BY <1>1, <1>9
        <4>2. N # 1 => view'[l][1] = IF 1 < p THEN s[1] ELSE s[1 + 1]
          BY <4>1, <1>12
        <4> QED BY <4>2
      <3>3. CASE p = 1
        BY <3>1, <3>2, <3>3, <1>2, <1>5, <1>9, <1>11
      <3>4. CASE p # 1
        BY <3>1, <3>2, <3>4, <1>1, <1>2, <1>9, <1>11
      <3> QED BY <3>3, <3>4
    <2>4. last'[l] = IF N = 1 THEN Null ELSE view'[l][N - 1]
      <3>1. n = last[l] <=> p = N
        BY <1>1, <1>2, <1>3, <1>9
      <3>2. N # 1 => view'[l][N - 1] = IF N - 1 < p THEN s[N - 1] ELSE s[(N - 1) + 1]
        BY <1>1, <1>9, <1>12
      <3>3. CASE p = N
        BY <3>1, <3>2, <3>3, <1>1, <1>2, <1>5, <1>9, <1>11
      <3>4. CASE p # N
        <4>1. N # 1 /\ ~(N - 1 < p) /\ (N - 1) + 1 = N
          BY <3>4, <1>1, <1>2
        <4> QED BY <4>1, <3>1, <3>2, <3>4, <1>1, <1>11
      <3> QED BY <3>3, <3>4
    <2>5. ASSUME NEW i \in 1..(N - 1)
          PROVE  /\ next'[view'[l][i]] = (IF i = N - 1 THEN Null ELSE view'[l][i + 1])
                 /\ pre'[view'[l][i]] = (IF i = 1 THEN Null ELSE view'[l][i - 1])
      <3> DEFINE j == IF i < p THEN i ELSE i + 1
      <3>1. /\ j \in 1..N /\ j # p /\ view'[l][i] = s[j]
            /\ s[j] \in Node /\ s[j] # n
        <4>1. j \in 1..N /\ j # p /\ i \in Nat
          BY <1>1, <1>2, <1>9
        <4>2. view'[l][i] = s[j]
          BY <1>12
        <4> QED BY <4>1, <4>2, <1>2, <1>3, <1>4
      <3>2. p # 1 => p - 1 \in 1..N /\ (s[j] = s[p - 1] <=> j = p - 1)
        <4>1. p # 1 => p - 1 \in 1..N
          BY <1>2, <1>1
        <4> QED BY <4>1, <3>1, <1>3
      <3>3. p # N => p + 1 \in 1..N /\ (s[j] = s[p + 1] <=> j = p + 1)
        <4>1. p # N => p + 1 \in 1..N
          BY <1>2, <1>1
        <4> QED BY <4>1, <3>1, <1>3
      <3>4. s[j] = pre[n] <=> j = p - 1
        <4>1. p = 1 => j # p - 1
          BY <3>1
        <4> QED BY <4>1, <3>1, <3>2, <1>4, <1>5
      <3>5. s[j] = next[n] <=> j = p + 1
        <4>1. p = N => j # p + 1
          BY <3>1, <1>1, <1>2
        <4> QED BY <4>1, <3>1, <3>3, <1>4, <1>5
      <3>6. next'[s[j]] = IF j = p - 1 THEN next[n] ELSE next[s[j]]
        BY <3>1, <3>4, <1>6
      <3>7. pre'[s[j]] = IF j = p + 1 THEN pre[n] ELSE pre[s[j]]
        BY <3>1, <3>5, <1>6
      <3>8. i # N - 1 => view'[l][i + 1] = IF i + 1 < p THEN s[i + 1] ELSE s[(i + 1) + 1]
        <4>1. i # N - 1 => i + 1 \in 1..(N - 1)
          BY <1>1, <1>9
        <4> QED BY <4>1, <1>12
      <3>9. i # 1 => view'[l][i - 1] = IF i - 1 < p THEN s[i - 1] ELSE s[(i - 1) + 1]
        <4>1. i # 1 => i - 1 \in 1..(N - 1)
          BY <1>1, <1>9
        <4> QED BY <4>1, <1>12
      <3>10. /\ next[s[j]] = (IF j = N THEN Null ELSE s[j + 1])
             /\ pre[s[j]] = (IF j = 1 THEN Null ELSE s[j - 1])
        BY <3>1, <1>4
      <3>11. CASE i < p
        <4>1. j = i /\ j # p + 1 /\ (j = p - 1 <=> i + 1 = p)
          BY <3>11, <1>2, <1>1
        <4> HIDE DEF j
        <4>2. pre'[s[i]] = (IF i = 1 THEN Null ELSE s[i - 1])
          BY <4>1, <3>7, <3>10
        <4>3. i # 1 => view'[l][i - 1] = s[i - 1]
          <5>1. i - 1 < p
            BY <3>11, <1>1, <1>2
          <5> QED BY <5>1, <3>9
        <4>4. CASE i + 1 = p
          <5>1. next'[s[i]] = (IF p = N THEN Null ELSE s[p + 1])
            BY <4>1, <4>4, <3>6, <1>5
          <5>2. i = N - 1 <=> p = N
            BY <4>4, <1>1, <1>2
          <5>3. ~(i + 1 < p) /\ (i + 1) + 1 = p + 1
            BY <4>4, <1>2
          <5>4. i # N - 1 => view'[l][i + 1] = s[p + 1]
            BY <5>3, <3>8
          <5> QED BY <5>1, <5>2, <5>4, <4>1, <4>2, <4>3, <3>1
        <4>5. CASE i + 1 # p
          <5>1. i + 1 < p /\ i # N /\ i # N - 1
            BY <4>5, <3>11, <1>1, <1>2
          <5>2. next'[s[i]] = s[i + 1]
            BY <4>1, <4>5, <5>1, <3>6, <3>10
          <5>3. view'[l][i + 1] = s[i + 1]
            BY <5>1, <3>8
          <5> QED BY <5>1, <5>2, <5>3, <4>1, <4>2, <4>3, <3>1
        <4> QED BY <4>4, <4>5
      <3>12. CASE ~(i < p)
        <4>1. j = i + 1 /\ j # p - 1 /\ (j = p + 1 <=> i = p) /\ (j = N <=> i = N - 1)
          BY <3>12, <1>2, <1>1
        <4> HIDE DEF j
        <4>2. next'[s[j]] = (IF i = N - 1 THEN Null ELSE s[(i + 1) + 1])
          BY <4>1, <3>6, <3>10
        <4>3. i # N - 1 => view'[l][i + 1] = s[(i + 1) + 1]
          <5>1. ~(i + 1 < p)
            BY <3>12, <1>1, <1>2
          <5> QED BY <5>1, <3>8
        <4>4. CASE i = p
          <5>1. pre'[s[j]] = (IF p = 1 THEN Null ELSE s[p - 1])
            BY <4>1, <4>4, <3>7, <1>5
          <5>2. i # 1 => view'[l][i - 1] = s[p - 1]
            <6>1. i - 1 < p
              BY <4>4, <1>2
            <6> QED BY <6>1, <4>4, <3>9
          <5> QED BY <5>1, <5>2, <4>2, <4>3, <4>4, <3>1
        <4>5. CASE i # p
          <5>1. ~(i - 1 < p) /\ i # 1 /\ (i - 1) + 1 = i /\ j # 1 /\ j - 1 = i
            BY <4>5, <4>1, <3>12, <1>1, <1>2
          <5>2. pre'[s[j]] = s[i]
            BY <5>1, <4>1, <4>5, <3>7, <3>10
          <5>3. view'[l][i - 1] = s[i]
            BY <5>1, <3>9
          <5> QED BY <5>1, <5>2, <5>3, <4>2, <4>3, <3>1
        <4> QED BY <4>4, <4>5
      <3> QED BY <3>11, <3>12
    <2> QED BY <2>1, <2>2, <2>3, <2>4, <2>5, <1>11, <1>12 DEF Rep, list_count, list_first
  <1>14. /\ pre[n] = Null \/ pre[n] \in Nodes(s)
         /\ next[n] = Null \/ next[n] \in Nodes(s)
    <2>1. /\ p # 1 => p - 1 \in 1..N
          /\ p # N => p + 1 \in 1..N
      BY <1>1, <1>2
    <2> QED BY <2>1, <1>5 DEF Nodes, N, s
  <1>15. ASSUME NEW k \in ListId, k # l
        PROVE  Rep(k)' /\ view'[k] = view[k]
    <2>1. /\ view'[k] = view[k] /\ first'[k] = first[k] /\ last'[k] = last[k]
          /\ count'[k] = count[k]
      BY <1>7, <1>15 DEF ListInv, ListTypeOK
    <2>2. \A x \in Nodes(view[k]) : x \in Node /\ x # Null /\ x \notin Nodes(s)
      <3>1. Nodes(view[k]) \subseteq Node
        BY NodesType DEF ListInv, ListTypeOK
      <3>2. Nodes(view[k]) \cap Nodes(s) = {}
        BY <1>15 DEF ListInv, LinkedOnce, s
      <3> QED BY <3>1, <3>2, ListAssumption
    <2>3. \A x \in Nodes(view[k]) : next'[x] = next[x] /\ pre'[x] = pre[x]
      BY <2>2, <1>1, <1>6, <1>14
    <2>4. ListTypeOK /\ Rep(k)
      BY DEF ListInv, Represents
    <2> QED BY <2>1, <2>3, <2>4, OtherList
  <1>16. LinkedOnce'
    <2>1. \A k \in ListId : NoRepeat(view'[k])
      BY <1>8, <1>11, <1>15 DEF ListInv, LinkedOnce
    <2>2. \A k \in ListId : Nodes(view'[k]) \subseteq Nodes(view[k])
      BY <1>8, <1>11, <1>15 DEF s
    <2> QED BY <2>1, <2>2 DEF ListInv, LinkedOnce
  <1>17. UnlinkedClear'
    <2> SUFFICES ASSUME NEW m \in Node, Unlinked(m)'
                 PROVE  pre'[m] = Null /\ next'[m] = Null
      BY DEF UnlinkedClear
    <2>1. CASE m = n
      BY <2>1, <1>6
    <2>2. CASE m # n
      <3>1. Unlinked(m)
        BY <2>2, <1>8, <1>11, <1>15 DEF Unlinked, s
      <3>2. pre[m] = Null /\ next[m] = Null /\ m \notin Nodes(s) /\ m # Null
        BY <3>1, ListAssumption DEF ListInv, UnlinkedClear, Unlinked, s
      <3> QED BY <2>2, <3>2, <1>6, <1>14
    <2> QED BY <2>1, <2>2
  <1> QED BY <1>10, <1>13, <1>15, <1>16, <1>17 DEF ListInv, Represents

\* list_remove_first takes out the first node the way list_remove would.
LEMMA RemoveFirstIsRemove ==
    ASSUME NEW l \in ListId, ListInv, RemoveFirstCall(l)
    PROVE  first[l] \in Node /\ RemoveCall(l, first[l])
  <1> DEFINE s == view[l]
             n == first[l]
             P == Node \cup {Null}
  <1>1. /\ s \in Seq(Node) /\ s # <<>> /\ NoRepeat(s)
        /\ n = s[1] /\ n \in Nodes(s) /\ last[l] = s[Len(s)]
    BY Ends DEF ListInv, Represents, LinkedOnce, RemoveFirstCall
  <1>2. /\ Len(s) \in Nat /\ Len(s) # 0 /\ 1 \in 1..Len(s) /\ Len(s) \in 1..Len(s)
        /\ Nodes(s) \subseteq Node /\ \A i \in 1..Len(s) : s[i] \in Node
    BY <1>1, MemberFacts, NodesType
  <1>3. /\ n \in Node /\ pre[n] = Null
        /\ next[n] = (IF 1 = Len(s) THEN Null ELSE s[2])
    <2>1. next[s[1]] = (IF 1 = Len(s) THEN Null ELSE s[1 + 1]) /\ pre[s[1]] = Null
      BY <1>2 DEF ListInv, Represents, Rep
    <2> QED BY <2>1, <1>1, <1>2
  <1>4. /\ next[n] = Null <=> Len(s) = 1
        /\ n = last[l] <=> Len(s) = 1
    <2>5. Len(s) \in Nat /\ Len(s) # 0
      BY <1>2
    <2>4. Len(s) # 1 => 2 \in 1..Len(s)
      <3>1. \A k \in Nat : k # 0 /\ k # 1 => 2 \in 1..k
        OBVIOUS
      <3> HIDE DEF s
      <3> QED BY <2>5, <3>1
    <2>1. Len(s) # 1 => s[2] \in Node
      BY <1>2, <2>4
    <2>2. next[n] = Null <=> Len(s) = 1
      BY <2>1, <1>3, ListAssumption
    <2>3. n = last[l] <=> Len(s) = 1
      BY <1>1, <1>2 DEF NoRepeat
    <2> QED BY <2>2, <2>3
  <1>5. list_remove_first(s) = list_remove(s, n)
    <2>1. Position(s, n) = 1
      BY <1>1, <1>2 DEF Position, NoRepeat
    <2>2. Tail(s) = [i \in 1..(Len(s) - 1) |-> s[i + 1]]
      BY <1>1, <1>2
    <2>3. \A i \in 1..(Len(s) - 1) : ~(i < 1)
      BY <1>2
    <2>4. list_remove(s, n) = [i \in 1..(Len(s) - 1) |-> IF i < 1 THEN s[i] ELSE s[i + 1]]
      BY <2>1 DEF list_remove
    <2>5. [i \in 1..(Len(s) - 1) |-> IF i < 1 THEN s[i] ELSE s[i + 1]]
            = [i \in 1..(Len(s) - 1) |-> s[i + 1]]
      BY <2>3
    <2> QED BY <2>2, <2>4, <2>5 DEF list_remove_first
  <1>6. /\ first' = [first EXCEPT ![l] = next[n]]
        /\ last' = IF n = last[l] THEN [last EXCEPT ![l] = pre[n]] ELSE last
        /\ count' = [count EXCEPT ![l] = @ - 1]
        /\ pre' = Put(Put(pre, next[n], pre[n]), n, Null)
        /\ next' = Put(next, n, Null)
        /\ view' = [view EXCEPT ![l] = list_remove(s, n)]
    BY <1>3, <1>4, <1>5 DEF RemoveFirstCall, ptr_remove_first
  <1>7. Put(next, pre[n], next[n]) = next
    <2>1. next = [x \in Node |-> next[x]]
      BY DEF ListInv, ListTypeOK
    <2>2. \A x \in Node : x # pre[n]
      BY <1>3, ListAssumption
    <2>3. Put(next, pre[n], next[n]) = [x \in Node |-> next[x]]
      BY <2>2 DEF Put
    <2> QED BY <2>1, <2>3
  <1>8. ptr_remove(l, n)
    BY <1>6, <1>7 DEF ptr_remove
  <1> QED BY <1>1, <1>3, <1>6, <1>8 DEF RemoveCall

-----------------------------------------------------------------------------
(* The invariant of the whole specification.                               *)

LEMMA ListInitInv == ListInit => ListInv
  <1> SUFFICES ASSUME ListInit PROVE ListInv
    OBVIOUS
  <1>1. \A l \in ListId : view[l] = <<>> /\ Len(view[l]) = 0
    BY DEF ListInit
  <1>2. ListTypeOK
    BY <1>1 DEF ListInit, ListTypeOK
  <1>3. Represents
    BY <1>1 DEF ListInit, Represents, Rep, list_count, list_first
  <1>4. LinkedOnce
    BY <1>1, EmptyList DEF LinkedOnce
  <1>5. UnlinkedClear
    BY DEF ListInit, UnlinkedClear
  <1> QED BY <1>2, <1>3, <1>4, <1>5 DEF ListInv

LEMMA ListNextInv == ListInv /\ [ListNext]_listVars => ListInv'
  <1> SUFFICES ASSUME ListInv, [ListNext]_listVars PROVE ListInv'
    OBVIOUS
  <1>1. ASSUME NEW l \in ListId, RemoveFirstCall(l) PROVE ListInv'
    BY <1>1, RemoveFirstIsRemove, RemoveRep
  <1>2. ASSUME NEW l \in ListId, NEW n \in Node, InsertFirstCall(l, n) PROVE ListInv'
    BY <1>2, InsertFirstRep
  <1>3. ASSUME NEW l \in ListId, NEW n \in Node, InsertLastCall(l, n) PROVE ListInv'
    BY <1>3, InsertLastRep
  <1>4. ASSUME NEW l \in ListId, NEW n \in Node, RemoveCall(l, n) PROVE ListInv'
    BY <1>4, RemoveRep
  <1>5. CASE UNCHANGED listVars
    BY <1>5 DEF listVars, ptrVars, ListInv, ListTypeOK, Represents, Rep, LinkedOnce,
                UnlinkedClear, Unlinked
  <1> QED BY <1>1, <1>2, <1>3, <1>4, <1>5 DEF ListNext

\* ListInv holds in every reachable state, for any lists and nodes.
THEOREM ListInvariant == ListSpec => []ListInv
  BY ListInitInv, ListNextInv, PTL DEF ListSpec

\* The pointers always represent the lists that ListOps describes.
THEOREM RepresentsAlways == ListSpec => []Represents
  BY ListInvariant, PTL DEF ListInv

\* A node that is linked nowhere always has null pointers.
THEOREM UnlinkedClearAlways == ListSpec => []UnlinkedClear
  BY ListInvariant, PTL DEF ListInv

\* Every pointer is a node or null, and no count goes below 0, however the operations of
\* list.c are called in the legal orders: list_remove decrements without a test.
THEOREM ListTypesAlways == ListSpec => []ListTypeOK
  BY ListInvariant, PTL DEF ListInv

-----------------------------------------------------------------------------
(* The library: strings.                                                   *)

\* kernel_strncpy copies what is two characters shorter than the buffer.
LEMMA StrncpyCopies ==
    ASSUME NEW src, NEW size \in Nat, Len(src) \in Nat, Len(src) + 1 < size
    PROVE  LET dest == kernel_strncpy(src, size)
           IN  /\ dest[-1] = "junk" /\ dest[size] = "junk"
               /\ \A i \in 1..Len(src) : dest[i - 1] = src[i]
               /\ dest[Len(src)] = "NUL"
<1> DEFINE n == Len(src)
<1>1. kernel_strncpy(src, size) = [i \in -1..size |-> IF i = n THEN "NUL"
                                                      ELSE IF i \in 0..(n - 1) THEN src[i + 1] ELSE "junk"]
  <2>1. n < size /\ size - n - 1 # 0 /\ size # 0
    OBVIOUS
  <2> QED BY <2>1 DEF kernel_strncpy
<1> HIDE DEF n
<1>2. n \in Nat /\ n + 1 < size
  BY DEF n
<1>3. \A i \in 1..n : (i - 1) + 1 = i /\ i - 1 \in 0..(n - 1) /\ i - 1 # n /\ i - 1 \in -1..size
  BY <1>2
<1> QED BY <1>1, <1>2, <1>3 DEF n

\* A name that is at least two characters shorter than its buffer is copied whole, and
\* nothing else is written, for any string and any buffer (klib.c:20, task.c:116).
THEOREM StrncpyExactAlways == KlibSpec => []StrncpyExact
<1>1. KlibInit => StrncpyExact
  BY DEF KlibInit, NoCall, StrncpyExact
<1>2. StrncpyExact /\ [KlibNext]_klib => StrncpyExact'
  <2> SUFFICES ASSUME StrncpyExact, [KlibNext]_klib PROVE StrncpyExact'
    OBVIOUS
  <2>1. CASE strncpy_call
    <3>1. PICK src \in Strings, size \in Sizes :
            klib' = [fn |-> "kernel_strncpy", src |-> src, size |-> size,
                     dest |-> kernel_strncpy(src, size)]
      BY <2>1 DEF strncpy_call
    <3>2. klib'.src = src /\ klib'.size = size /\ klib'.dest = kernel_strncpy(src, size)
      BY <3>1
    <3>3. Len(src) \in Nat /\ size \in Nat
      BY KlibAssumption
    <3> QED BY <3>2, <3>3, StrncpyCopies DEF StrncpyExact
  <2>2. CASE itoa_call \/ int_to_str_call \/ log_call \/ Returned
    <3>1. klib'.fn # "kernel_strncpy"
      BY <2>2 DEF itoa_call, int_to_str_call, log_call, Returned, NoCall
    <3> QED BY <3>1 DEF StrncpyExact
  <2>3. CASE UNCHANGED klib
    BY <2>3 DEF StrncpyExact
  <2> QED BY <2>1, <2>2, <2>3 DEF KlibNext
<1> QED BY <1>1, <1>2, PTL DEF KlibSpec

-----------------------------------------------------------------------------
(* The library: numbers.                                                   *)

\* A set of naturals that is not empty has a least element.
LEMMA SmallestNat ==
    ASSUME NEW S \in SUBSET Nat, S # {}
    PROVE  \E n \in S : \A m \in S : n <= m
<1> DEFINE R == OpToRel(<, Nat)
<1>1. IsWellFoundedOn(R, Nat)
  BY NatLessThanWellFounded
<1>2. \E x \in S : \A y \in S : ~ (<<y, x>> \in R)
  BY <1>1, WFMin
<1>3. PICK x \in S : \A y \in S : ~ (<<y, x>> \in R)
  BY <1>2
<1>4. \A y \in S : ~(y < x)
  BY <1>3 DEF OpToRel
<1> QED BY <1>4

\* f[i] is what the first i of n digits stand for.
IsHorner(f, n, digits, base) ==
    f = [i \in 0..n |-> IF i = 0 THEN 0 ELSE f[i - 1] * base + DigitValue(digits[i])]

\* There are such values.
LEMMA HornerExists ==
    ASSUME NEW digits, NEW base
    PROVE  \A n \in Nat : \E f : IsHorner(f, n, digits, base)
<1> DEFINE St(x, i) == x * base + DigitValue(digits[i])
           P(n) == \E f : f = [i \in 0..n |-> IF i = 0 THEN 0 ELSE St(f[i - 1], i)]
           S == {n \in Nat : ~P(n)}
<1>1. SUFFICES \A n \in Nat : P(n)
  BY DEF IsHorner
<1> HIDE DEF St
<1>2. SUFFICES ASSUME S # {} PROVE FALSE
  OBVIOUS
<1>3. PICK n \in S : \A m \in S : n <= m
  BY <1>2, SmallestNat
<1>4. n \in Nat /\ ~P(n)
  BY <1>3
<1>5. CASE n = 0
  <2> DEFINE f == [i \in 0..0 |-> 0]
  <2>1. f = [i \in 0..0 |-> IF i = 0 THEN 0 ELSE St(f[i - 1], i)]
    OBVIOUS
  <2> HIDE DEF f
  <2> QED BY <1>4, <1>5, <2>1
<1>6. CASE n # 0
  <2>1. n - 1 \in Nat /\ ~(n <= n - 1)
    BY <1>4, <1>6
  <2>2. n - 1 \notin S
    BY <1>3, <2>1
  <2>3. PICK g : g = [i \in 0..(n - 1) |-> IF i = 0 THEN 0 ELSE St(g[i - 1], i)]
    BY <2>1, <2>2
  <2> DEFINE f == [i \in 0..n |-> IF i = 0 THEN 0 ELSE St(g[i - 1], i)]
  <2>4. \A i \in 0..n : i # 0 => i - 1 \in 0..n /\ i - 1 \in 0..(n - 1)
    BY <1>4
  <2>5. \A i \in 0..(n - 1) : f[i] = g[i]
    BY <1>4, <2>3
  <2>6. f = [i \in 0..n |-> IF i = 0 THEN 0 ELSE St(f[i - 1], i)]
    BY <2>4, <2>5
  <2> HIDE DEF f
  <2> QED BY <1>4, <2>6
<1> QED BY <1>5, <1>6

\* They depend on the digits so far only.
LEMMA HornerUnique ==
    ASSUME NEW d, NEW e, NEW f, NEW g, NEW base, NEW n \in Nat, NEW m \in Nat, n <= m,
           IsHorner(f, n, d, base), IsHorner(g, m, e, base), \A i \in 1..n : d[i] = e[i]
    PROVE  \A i \in 0..n : f[i] = g[i]
<1> DEFINE S == {i \in 0..n : f[i] # g[i]}
<1>1. SUFFICES ASSUME S # {} PROVE FALSE
  OBVIOUS
<1>2. S \in SUBSET Nat
  OBVIOUS
<1> HIDE DEF S
<1>3. PICK i \in S : \A k \in S : i <= k
  BY <1>1, <1>2, SmallestNat
<1>4. i \in 0..n /\ i \in 0..m /\ f[i] # g[i]
  BY <1>3 DEF S
<1>5. i # 0 => i - 1 \in 0..n /\ i \in 1..n /\ ~(i <= i - 1)
  BY <1>4
<1>6. i # 0 => f[i - 1] = g[i - 1]
  <2>1. i # 0 => i - 1 \notin S
    BY <1>3, <1>5
  <2> QED BY <2>1, <1>5 DEF S
<1>7. f[i] = IF i = 0 THEN 0 ELSE f[i - 1] * base + DigitValue(d[i])
  BY <1>4 DEF IsHorner
<1>8. g[i] = IF i = 0 THEN 0 ELSE g[i - 1] * base + DigitValue(e[i])
  BY <1>4 DEF IsHorner
<1> QED BY <1>4, <1>5, <1>6, <1>7, <1>8

\* Horner gives the last of them.
LEMMA HornerIs ==
    ASSUME NEW digits, NEW base, Len(digits) \in Nat
    PROVE  \E f : IsHorner(f, Len(digits), digits, base) /\ Horner(digits, base) = f[Len(digits)]
<1> DEFINE Body(h) == [i \in 0..Len(digits) |->
                          IF i = 0 THEN 0 ELSE h[i - 1] * base + DigitValue(digits[i])]
           v == CHOOSE h : h = Body(h)
<1>1. PICK f : IsHorner(f, Len(digits), digits, base)
  BY HornerExists
<1>2. f = Body(f)
  BY <1>1 DEF IsHorner
<1>3. v = Body(v)
  <2> HIDE DEF Body
  <2> QED BY <1>2, Zenon
<1>4. Horner(digits, base) = v[Len(digits)]
  BY DEF Horner
<1> HIDE DEF v
<1>5. IsHorner(v, Len(digits), digits, base)
  BY <1>3 DEF IsHorner
<1> QED BY <1>4, <1>5

\* A further digit.
LEMMA HornerAppend ==
    ASSUME NEW C, NEW s \in Seq(C), NEW ch \in C, NEW base
    PROVE  Horner(Append(s, ch), base) = Horner(s, base) * base + DigitValue(ch)
<1> DEFINE t == Append(s, ch)
           n == Len(s)
<1>1. n \in Nat /\ Len(t) = n + 1 /\ t[n + 1] = ch /\ \A i \in 1..n : s[i] = t[i]
  OBVIOUS
<1>2. PICK f : IsHorner(f, n, s, base) /\ Horner(s, base) = f[n]
  BY <1>1, HornerIs
<1>3. PICK g : IsHorner(g, n + 1, t, base) /\ Horner(t, base) = g[n + 1]
  <2> HIDE DEF t, n
  <2>1. Len(t) \in Nat
    BY <1>1
  <2>2. \E g : IsHorner(g, Len(t), t, base) /\ Horner(t, base) = g[Len(t)]
    BY <2>1, HornerIs
  <2> QED BY <2>2, <1>1
<1> HIDE DEF t, n
<1>4. f[n] = g[n]
  <2>1. n + 1 \in Nat /\ n <= n + 1 /\ n \in 0..n
    BY <1>1
  <2>2. \A i \in 0..n : f[i] = g[i]
    BY <1>1, <1>2, <1>3, <2>1, HornerUnique
  <2> QED BY <2>1, <2>2
<1>5. g[n + 1] = g[n] * base + DigitValue(ch)
  <2>1. n + 1 \in 0..(n + 1) /\ n + 1 # 0 /\ (n + 1) - 1 = n
    BY <1>1
  <2>2. g[n + 1] = IF n + 1 = 0 THEN 0 ELSE g[(n + 1) - 1] * base + DigitValue(t[n + 1])
    BY <1>3, <2>1 DEF IsHorner
  <2> QED BY <2>1, <2>2, <1>1
<1> QED BY <1>2, <1>3, <1>4, <1>5 DEF t

\* No digit.
LEMMA HornerEmpty == ASSUME NEW base PROVE Horner(<<>>, base) = 0
<1>1. Len(<<>>) = 0
  OBVIOUS
<1>2. PICK f : IsHorner(f, 0, <<>>, base) /\ Horner(<<>>, base) = f[0]
  BY <1>1, HornerIs
<1> QED BY <1>2 DEF IsHorner

\* The digit table, character by character.
LEMMA NumcharAt ==
    /\ numchar[1] = "F" /\ numchar[2] = "E" /\ numchar[3] = "D" /\ numchar[4] = "C"
    /\ numchar[5] = "B" /\ numchar[6] = "A" /\ numchar[7] = "9" /\ numchar[8] = "8"
    /\ numchar[9] = "7" /\ numchar[10] = "6" /\ numchar[11] = "5" /\ numchar[12] = "4"
    /\ numchar[13] = "3" /\ numchar[14] = "2" /\ numchar[15] = "1" /\ numchar[16] = "0"
    /\ numchar[17] = "1" /\ numchar[18] = "2" /\ numchar[19] = "3" /\ numchar[20] = "4"
    /\ numchar[21] = "5" /\ numchar[22] = "6" /\ numchar[23] = "7" /\ numchar[24] = "8"
    /\ numchar[25] = "9" /\ numchar[26] = "A" /\ numchar[27] = "B" /\ numchar[28] = "C"
    /\ numchar[29] = "D" /\ numchar[30] = "E" /\ numchar[31] = "F"
BY DEF numchar

\* A digit on the right half of the table is there once, and it is neither a sign nor,
\* but for the first, 0.
LEMMA NumcharRight ==
    /\ \A i, j \in 16..31 : numchar[i] = numchar[j] => i = j
    /\ \A i \in 16..31 : numchar[i] # "-" /\ (i # 16 => numchar[i] # "0")
    /\ \A i \in 16..31 : numchar[i] \notin {"a", "b", "c", "d", "e", "f"}
<1>1. \A i \in 16..31 : \/ i = 16 \/ i = 17 \/ i = 18 \/ i = 19 \/ i = 20 \/ i = 21 \/ i = 22 \/ i = 23
                        \/ i = 24 \/ i = 25 \/ i = 26 \/ i = 27 \/ i = 28 \/ i = 29 \/ i = 30 \/ i = 31
  OBVIOUS
<1>2. ASSUME NEW i \in 16..31, NEW j \in 16..31, numchar[i] = numchar[j] PROVE i = j
  BY <1>1, <1>2, NumcharAt
<1>3. ASSUME NEW i \in 16..31 PROVE numchar[i] # "-" /\ (i # 16 => numchar[i] # "0")
  BY <1>1, NumcharAt
<1>4. \A i \in 16..31 : numchar[i] \notin {"a", "b", "c", "d", "e", "f"}
  BY <1>1, NumcharAt
<1> QED BY <1>2, <1>3, <1>4

\* The left half is the right half mirrored.
LEMMA NumcharMirror == \A r \in 0..15 : numchar[16 - r] = numchar[r + 16]
<1> TAKE r \in 0..15
<1>1. \/ r = 0 \/ r = 1 \/ r = 2 \/ r = 3 \/ r = 4 \/ r = 5 \/ r = 6 \/ r = 7
      \/ r = 8 \/ r = 9 \/ r = 10 \/ r = 11 \/ r = 12 \/ r = 13 \/ r = 14 \/ r = 15
  OBVIOUS
<1> QED BY <1>1, NumcharAt

\* What digit has for the remainders of base is the digits of base.
GoodDigits(digit, sign, base) ==
    \A r \in 0..(base - 1) :
        /\ DigitValue(digit[sign * r]) = r
        /\ digit[sign * r] # "-" /\ (r # 0 => digit[sign * r] # "0")

\* The value of a digit of numchar.
LEMMA NumcharValue ==
    ASSUME NEW r \in 0..15
    PROVE  DigitValue(numchar[r + 16]) = r
<1> DEFINE ch == numchar[r + 16]
           c == CHOOSE i \in 16..31 : numchar[i] = ch
<1>1. r + 16 \in 16..31
  OBVIOUS
<1>2. c \in 16..31 /\ numchar[c] = numchar[r + 16]
  BY <1>1, Zenon
<1>3. DigitValue(ch) = c - 16
  BY <1>1 DEF DigitValue
<1> HIDE DEF c
<1>4. c = r + 16
  BY <1>1, <1>2, NumcharRight
<1> QED BY <1>3, <1>4

\* kernel_itoa has digits for remainders of either sign.
LEMMA ItoaDigits ==
    ASSUME NEW sign \in {-1, 1}, NEW base \in 2..16
    PROVE  GoodDigits(itoaDigit, sign, base)
<1> SUFFICES ASSUME NEW r \in 0..(base - 1)
             PROVE  /\ DigitValue(itoaDigit[sign * r]) = r
                    /\ itoaDigit[sign * r] # "-" /\ (r # 0 => itoaDigit[sign * r] # "0")
  BY DEF GoodDigits
<1>1. r \in 0..15 /\ r + 16 \in 16..31 /\ (r # 0 => r + 16 # 16)
  OBVIOUS
<1>2. itoaDigit[sign * r] = numchar[r + 16]
  <2>1. CASE sign = 1
    <3>1. sign * r = r /\ r \in -15..15
      BY <1>1, <2>1
    <3> QED BY <3>1 DEF itoaDigit
  <2>2. CASE sign = -1
    <3>1. sign * r = -r /\ -r \in -15..15 /\ -r + 16 = 16 - r
      BY <1>1, <2>2
    <3>2. itoaDigit[-r] = numchar[16 - r]
      BY <3>1 DEF itoaDigit
    <3> QED BY <3>1, <3>2, <1>1, NumcharMirror
  <2> QED BY <2>1, <2>2
<1>3. DigitValue(numchar[r + 16]) = r
  BY <1>1, NumcharValue
<1> QED BY <1>1, <1>2, <1>3, NumcharRight

\* The loader's table, character by character.
LEMMA LoaderDigitAt ==
    /\ loaderDigit[0] = "0" /\ loaderDigit[1] = "1" /\ loaderDigit[2] = "2" /\ loaderDigit[3] = "3"
    /\ loaderDigit[4] = "4" /\ loaderDigit[5] = "5" /\ loaderDigit[6] = "6" /\ loaderDigit[7] = "7"
    /\ loaderDigit[8] = "8" /\ loaderDigit[9] = "9" /\ loaderDigit[10] = "a" /\ loaderDigit[11] = "b"
    /\ loaderDigit[12] = "c" /\ loaderDigit[13] = "d" /\ loaderDigit[14] = "e" /\ loaderDigit[15] = "f"
<1> DEFINE hex == <<"0", "1", "2", "3", "4", "5", "6", "7", "8", "9",
                    "a", "b", "c", "d", "e", "f">>
<1>1. \A i \in 0..15 : loaderDigit[i] = hex[i + 1]
  BY DEF loaderDigit
<1>2. /\ loaderDigit[0] = hex[1] /\ loaderDigit[1] = hex[2] /\ loaderDigit[2] = hex[3]
      /\ loaderDigit[3] = hex[4] /\ loaderDigit[4] = hex[5] /\ loaderDigit[5] = hex[6]
      /\ loaderDigit[6] = hex[7] /\ loaderDigit[7] = hex[8] /\ loaderDigit[8] = hex[9]
      /\ loaderDigit[9] = hex[10] /\ loaderDigit[10] = hex[11] /\ loaderDigit[11] = hex[12]
      /\ loaderDigit[12] = hex[13] /\ loaderDigit[13] = hex[14] /\ loaderDigit[14] = hex[15]
      /\ loaderDigit[15] = hex[16]
  <2> HIDE DEF hex
  <2> QED BY <1>1
<1> QED BY <1>2

\* The loader has digits for remainders that are not negative.
LEMMA LoaderDigits ==
    ASSUME NEW base \in 2..16
    PROVE  GoodDigits(loaderDigit, 1, base)
<1> SUFFICES ASSUME NEW r \in 0..(base - 1)
             PROVE  /\ DigitValue(loaderDigit[r]) = r
                    /\ loaderDigit[r] # "-" /\ (r # 0 => loaderDigit[r] # "0")
  BY DEF GoodDigits
<1>1. r \in 0..15 /\ r + 16 \in 16..31 /\ (r # 0 => r + 16 # 16)
  OBVIOUS
<1>2. CASE r <= 9
  <2>1. loaderDigit[r] = numchar[r + 16]
    <3>1. r = 0 \/ r = 1 \/ r = 2 \/ r = 3 \/ r = 4 \/ r = 5 \/ r = 6 \/ r = 7 \/ r = 8 \/ r = 9
      BY <1>1, <1>2
    <3> QED BY <3>1, NumcharAt, LoaderDigitAt
  <2>2. DigitValue(numchar[r + 16]) = r
    BY <1>1, NumcharValue
  <2> QED BY <1>1, <2>1, <2>2, NumcharRight
<1>3. CASE r > 9
  <2> DEFINE ch == loaderDigit[r]
             c == CHOOSE i \in 10..15 : loaderDigit[i] = ch
  <2>1. r \in 10..15
    BY <1>1, <1>3
  <2>2. \A i \in 10..15 : i = 10 \/ i = 11 \/ i = 12 \/ i = 13 \/ i = 14 \/ i = 15
    OBVIOUS
  <2>3. /\ ch \in {"a", "b", "c", "d", "e", "f"}
        /\ ch # "-" /\ ch # "0"
    <3>1. ch \in {"a", "b", "c", "d", "e", "f"}
      BY <2>1, <2>2, LoaderDigitAt
    <3>2. \A x \in {"a", "b", "c", "d", "e", "f"} : x # "-" /\ x # "0"
      OBVIOUS
    <3> QED BY <3>1, <3>2
  <2>4. \A i, j \in 10..15 : loaderDigit[i] = loaderDigit[j] => i = j
    BY <2>2, LoaderDigitAt
  <2>5. ~ \E i \in 16..31 : numchar[i] = ch
    BY <2>3, NumcharRight
  <2>6. c \in 10..15 /\ loaderDigit[c] = loaderDigit[r]
    BY <2>1, Zenon
  <2>7. DigitValue(ch) = c
    BY <2>1, <2>5 DEF DigitValue
  <2> HIDE DEF c
  <2>8. c = r
    BY <2>1, <2>4, <2>6
  <2> QED BY <2>3, <2>7, <2>8
<1> QED BY <1>1, <1>2, <1>3

\* Division by a base.
LEMMA Division ==
    ASSUME NEW n \in Nat, NEW base \in {2, 8, 10, 16}
    PROVE  /\ n \div base \in Nat /\ n % base \in 0..(base - 1)
           /\ n = (n \div base) * base + (n % base)
           /\ n # 0 => n \div base < n
           /\ n \div base = 0 => n % base = n
<1>1. CASE base = 2
  BY <1>1
<1>2. CASE base = 8
  BY <1>2
<1>3. CASE base = 10
  BY <1>3
<1>4. CASE base = 16
  BY <1>4
<1> QED BY <1>1, <1>2, <1>3, <1>4

\* f[n] is the digits of n, last first, for n up to m.
IsDigits(f, m, digit, sign, base) ==
    f = [n \in 0..m |-> <<digit[Rem(sign, n, base)]>>
                        \o (IF n \div base = 0 THEN <<>> ELSE f[n \div base])]

\* There are digits.
LEMMA DigitsExist ==
    ASSUME NEW digit, NEW sign, NEW base \in {2, 8, 10, 16}
    PROVE  \A m \in Nat : \E f : IsDigits(f, m, digit, sign, base)
<1> DEFINE St(x, n) == <<digit[Rem(sign, n, base)]>> \o x
           P(m) == \E f : f = [n \in 0..m |->
                                  St(IF n \div base = 0 THEN <<>> ELSE f[n \div base], n)]
           S == {m \in Nat : ~P(m)}
<1>1. SUFFICES \A m \in Nat : P(m)
  BY DEF IsDigits
<1> HIDE DEF St
<1>2. SUFFICES ASSUME S # {} PROVE FALSE
  OBVIOUS
<1>3. PICK m \in S : \A k \in S : m <= k
  BY <1>2, SmallestNat
<1>4. m \in Nat /\ ~P(m)
  BY <1>3
<1>5. \A n \in 0..m : n \div base # 0 => n \div base \in 0..m /\ n \div base \in 0..(m - 1)
  <2> SUFFICES ASSUME NEW n \in 0..m, n \div base # 0
               PROVE  n \div base \in 0..m /\ n \div base \in 0..(m - 1)
    OBVIOUS
  <2>1. n \in Nat /\ n \div base \in Nat /\ (n # 0 => n \div base < n)
    BY Division
  <2>2. n # 0
    BY DEF St
  <2> QED BY <1>4, <2>1, <2>2
<1>6. CASE m = 0
  <2> DEFINE f == [n \in 0..0 |-> St(<<>>, n)]
  <2>1. \A n \in 0..0 : n \div base = 0
    BY <1>5, <1>6
  <2>2. f = [n \in 0..0 |-> St(IF n \div base = 0 THEN <<>> ELSE f[n \div base], n)]
    BY <2>1
  <2> HIDE DEF f
  <2> QED BY <1>4, <1>6, <2>2
<1>7. CASE m # 0
  <2>1. m - 1 \in Nat /\ ~(m <= m - 1)
    BY <1>4, <1>7
  <2>2. m - 1 \notin S
    BY <1>3, <2>1
  <2>3. PICK g : g = [n \in 0..(m - 1) |-> St(IF n \div base = 0 THEN <<>> ELSE g[n \div base], n)]
    BY <2>1, <2>2
  <2> DEFINE f == [n \in 0..m |-> St(IF n \div base = 0 THEN <<>> ELSE g[n \div base], n)]
  <2>4. \A n \in 0..(m - 1) : f[n] = g[n]
    <3> DEFINE G(n) == St(IF n \div base = 0 THEN <<>> ELSE g[n \div base], n)
    <3>1. f = [n \in 0..m |-> G(n)] /\ g = [n \in 0..(m - 1) |-> G(n)]
      BY <2>3
    <3>2. \A n \in 0..(m - 1) : n \in 0..m
      BY <1>4
    <3> HIDE DEF f, G
    <3> QED BY <3>1, <3>2
  <2>5. f = [n \in 0..m |-> St(IF n \div base = 0 THEN <<>> ELSE f[n \div base], n)]
    <3>1. \A n \in 0..m : n \div base # 0 => f[n \div base] = g[n \div base]
      BY <1>5, <2>4
    <3> QED BY <3>1
  <2> HIDE DEF f
  <2> QED BY <1>4, <2>5
<1> QED BY <1>6, <1>7

\* Digits gives those of the absolute value.
LEMMA DigitsAre ==
    ASSUME NEW digit, NEW num \in Int, NEW base \in {2, 8, 10, 16}
    PROVE  \E f : /\ IsDigits(f, Abs(num), digit, Sign(num), base)
                  /\ Digits(digit, num, base) = f[Abs(num)]
<1> DEFINE Body(h) == [n \in 0..Abs(num) |->
                          <<digit[Rem(Sign(num), n, base)]>>
                          \o (IF n \div base = 0 THEN <<>> ELSE h[n \div base])]
           v == CHOOSE h : h = Body(h)
<1>1. Abs(num) \in Nat
  BY DEF Abs
<1>2. PICK f : IsDigits(f, Abs(num), digit, Sign(num), base)
  BY <1>1, DigitsExist
<1>3. f = Body(f)
  BY <1>2 DEF IsDigits
<1>4. v = Body(v)
  <2> HIDE DEF Body
  <2> QED BY <1>3, Zenon
<1>5. Digits(digit, num, base) = v[Abs(num)]
  BY DEF Digits
<1> HIDE DEF v
<1>6. IsDigits(v, Abs(num), digit, Sign(num), base)
  BY <1>4 DEF IsDigits
<1> QED BY <1>5, <1>6

\* The first character comes last.
LEMMA ReversedCons ==
    ASSUME NEW C, NEW s \in Seq(C), NEW ch \in C
    PROVE  /\ reversed(s) \in Seq(C) /\ Len(reversed(s)) = Len(s)
           /\ <<ch>> \o s \in Seq(C) /\ Len(<<ch>> \o s) = Len(s) + 1
           /\ reversed(<<ch>> \o s) = Append(reversed(s), ch)
<1> DEFINE t == <<ch>> \o s
           n == Len(s)
           r == reversed(s)
<1>1. n \in Nat /\ t \in Seq(C) /\ Len(t) = n + 1 /\ t[1] = ch
      /\ \A i \in 1..n : t[i + 1] = s[i] /\ s[i] \in C
  OBVIOUS
<1>2. r = [i \in 1..n |-> s[n - i + 1]]
  BY DEF reversed
<1>3. \A i \in 1..n : n - i + 1 \in 1..n
  BY <1>1
<1>4. r \in [1..n -> C]
  <2> HIDE DEF n, t, r
  <2> QED BY <1>1, <1>2, <1>3
<1>5. r \in Seq(C) /\ Len(r) = n
  <2> HIDE DEF n, t, r
  <2>1. \A f \in [1..n -> C] : f \in Seq(C) /\ Len(f) = n
    BY <1>1
  <2> QED BY <2>1, <1>4
<1>6. reversed(t) = [i \in 1..(n + 1) |-> t[(n + 1) - i + 1]]
  BY <1>1 DEF reversed
<1> HIDE DEF t, n, r
<1>7. Append(r, ch) = [i \in 1..(n + 1) |-> IF i = n + 1 THEN ch ELSE r[i]]
  <2>1. Append(r, ch) \in Seq(C) /\ Len(Append(r, ch)) = n + 1
    BY <1>1, <1>5
  <2>2. \A i \in 1..(n + 1) : Append(r, ch)[i] = IF i = n + 1 THEN ch ELSE r[i]
    BY <1>1, <1>5
  <2> DEFINE u == Append(r, ch)
  <2>3. u = [i \in 1..Len(u) |-> u[i]]
    <3>1. u \in Seq(C)
      BY <2>1
    <3> HIDE DEF u
    <3> QED BY <3>1
  <2> HIDE DEF u
  <2>4. u = [i \in 1..(n + 1) |-> u[i]]
    BY <2>1, <2>3 DEF u
  <2>5. \A i \in 1..(n + 1) : u[i] = IF i = n + 1 THEN ch ELSE r[i]
    BY <2>2 DEF u
  <2> QED BY <2>4, <2>5 DEF u
<1>8. \A i \in 1..(n + 1) : t[(n + 1) - i + 1] = IF i = n + 1 THEN ch ELSE r[i]
  <2> TAKE i \in 1..(n + 1)
  <2>1. CASE i = n + 1
    <3>1. (n + 1) - i + 1 = 1
      BY <1>1, <2>1
    <3> QED BY <3>1, <2>1, <1>1
  <2>2. CASE i # n + 1
    <3>1. i \in 1..n /\ n - i + 1 \in 1..n /\ (n - i + 1) + 1 = (n + 1) - i + 1
      BY <1>1, <2>2
    <3>2. t[(n - i + 1) + 1] = s[n - i + 1]
      BY <3>1, <1>1
    <3>3. r[i] = s[n - i + 1]
      BY <3>1, <1>2
    <3> QED BY <3>1, <3>2, <3>3, <2>2
  <2> QED BY <2>1, <2>2
<1>9. reversed(t) = Append(r, ch)
  BY <1>6, <1>7, <1>8
<1> QED BY <1>1, <1>5, <1>9 DEF t, n, r

\* The sequence without a member.
LEMMA NoCharacter ==
    ASSUME NEW C, NEW s \in Seq(C)
    PROVE  s = <<>> <=> Len(s) = 0
OBVIOUS

\* s is the digits of n, last first, in characters of C.
IsNumeral(s, n, C, base) ==
    /\ s \in Seq(C) /\ Len(s) >= 1
    /\ Horner(reversed(s), base) = n
    /\ n # 0 => reversed(s)[1] # "0"

\* The digits of a number stand for it, and the first is not 0.
LEMMA DigitsValue ==
    ASSUME NEW digit, NEW sign, NEW base \in {2, 8, 10, 16}, GoodDigits(digit, sign, base),
           NEW m \in Nat, NEW f, IsDigits(f, m, digit, sign, base),
           NEW C, \A r \in 0..(base - 1) : digit[sign * r] \in C
    PROVE  \A n \in 0..m : IsNumeral(f[n], n, C, base)
<1> DEFINE S == {n \in 0..m : ~IsNumeral(f[n], n, C, base)}
<1>1. SUFFICES ASSUME S # {} PROVE FALSE
  OBVIOUS
<1>2. S \in SUBSET Nat
  OBVIOUS
<1>3. PICK n \in S : \A k \in S : n <= k
  <2> HIDE DEF S
  <2> QED BY <1>1, <1>2, SmallestNat
<1>4. n \in 0..m /\ n \in Nat /\ ~IsNumeral(f[n], n, C, base)
  BY <1>3
<1> DEFINE q == n \div base
           r == n % base
           ch == digit[sign * r]
<1>5. /\ q \in Nat /\ r \in 0..(base - 1) /\ r \in Int /\ n = q * base + r
      /\ n # 0 => q < n
      /\ q = 0 => r = n
  BY <1>4, Division
<1>6. ch \in C /\ DigitValue(ch) = r /\ (r # 0 => ch # "0")
  <2> HIDE DEF r
  <2> QED BY <1>5 DEF GoodDigits
<1>7. f[n] = <<ch>> \o (IF q = 0 THEN <<>> ELSE f[q])
  <2>1. f[n] = <<digit[Rem(sign, n, base)]>>
                \o (IF n \div base = 0 THEN <<>> ELSE f[n \div base])
    BY <1>4 DEF IsDigits
  <2> QED BY <2>1 DEF Rem
<1>8. q # 0 => q \in 0..m /\ IsNumeral(f[q], q, C, base)
  <2> SUFFICES ASSUME q # 0 PROVE q \in 0..m /\ IsNumeral(f[q], q, C, base)
    OBVIOUS
  <2> HIDE DEF q
  <2>1. n # 0
    <3>1. 0 \div base = 0
      <4>1. base = 2 \/ base = 8 \/ base = 10 \/ base = 16
        OBVIOUS
      <4> QED BY <4>1
    <3> QED BY <3>1 DEF q
  <2>2. q < n /\ q \in 0..m /\ ~(n <= q)
    BY <1>4, <1>5, <2>1
  <2>3. q \notin S
    BY <1>3, <2>2
  <2> QED BY <2>2, <2>3
<1> HIDE DEF S, q, r, ch
<1>9. CASE q = 0
  <2>1. <<>> \in Seq(C)
    OBVIOUS
  <2>2. reversed(<<>>) = <<>>
    <3> DEFINE e == reversed(<<>>)
    <3>1. e \in Seq(C) /\ Len(e) = Len(<<>>)
      BY <1>6, <2>1, ReversedCons
    <3> HIDE DEF e
    <3>2. Len(e) = 0
      BY <3>1
    <3>3. e = <<>>
      BY <3>1, <3>2, NoCharacter
    <3> QED BY <3>3 DEF e
  <2>3. f[n] = <<ch>> \o <<>>
    BY <1>7, <1>9
  <2>4. f[n] \in Seq(C) /\ Len(f[n]) = Len(<<>>) + 1 /\ reversed(f[n]) = Append(<<>>, ch)
    <3> DEFINE e == <<>>
    <3>1. e \in Seq(C) /\ reversed(e) = e /\ f[n] = <<ch>> \o e
      BY <2>1, <2>2, <2>3
    <3> HIDE DEF e
    <3>2. f[n] \in Seq(C) /\ Len(f[n]) = Len(e) + 1 /\ reversed(f[n]) = Append(e, ch)
      BY <1>6, <3>1, ReversedCons
    <3> QED BY <3>2 DEF e
  <2>5. Horner(reversed(f[n]), base) = 0 * base + r
    BY <1>6, <2>1, <2>4, HornerAppend, HornerEmpty
  <2>6. 0 * base + r = n
    <3>1. base \in Int
      OBVIOUS
    <3> QED BY <1>5, <1>9, <3>1
  <2>7. reversed(f[n])[1] = ch
    BY <2>4
  <2>8. n # 0 => reversed(f[n])[1] # "0"
    BY <2>7, <1>6, <1>5, <1>9
  <2>9. Len(f[n]) >= 1
    BY <2>4
  <2> QED BY <2>4, <2>5, <2>6, <2>8, <2>9, <1>4 DEF IsNumeral
<1>10. CASE q # 0
  <2> DEFINE s == f[q]
             t == reversed(s)
  <2>1. s \in Seq(C) /\ Len(s) >= 1 /\ Horner(t, base) = q /\ t[1] # "0"
    BY <1>8, <1>10 DEF IsNumeral
  <2>2. f[n] = <<ch>> \o s
    BY <1>7, <1>10
  <2> HIDE DEF s
  <2>3. /\ t \in Seq(C) /\ Len(t) = Len(s) /\ f[n] \in Seq(C) /\ Len(f[n]) = Len(s) + 1
        /\ reversed(f[n]) = Append(t, ch)
    BY <1>6, <2>1, <2>2, ReversedCons
  <2> HIDE DEF t
  <2>4. Horner(reversed(f[n]), base) = q * base + r
    BY <1>6, <2>1, <2>3, HornerAppend
  <2>5. Append(t, ch)[1] = t[1]
    BY <1>6, <2>1, <2>3
  <2>6. Len(f[n]) >= 1 /\ reversed(f[n])[1] # "0"
    BY <2>1, <2>3, <2>5
  <2> QED BY <2>3, <2>4, <2>6, <1>4, <1>5 DEF IsNumeral
<1> QED BY <1>9, <1>10

\* t, in characters of C, is a numeral for n without a sign.
IsUnsigned(t, n, C, base) ==
    /\ t \in Seq(C) /\ Len(t) >= 1
    /\ \A i \in 1..Len(t) : t[i] # "-"
    /\ Horner(t, base) = n
    /\ n # 0 => t[1] # "0"

\* What the do loop and the reversal write is the numeral of the absolute value.
LEMMA ReversedDigits ==
    ASSUME NEW digit, NEW num \in Int, NEW base \in {2, 8, 10, 16},
           GoodDigits(digit, Sign(num), base)
    PROVE  \E C : /\ Digits(digit, num, base) \in Seq(C)
                  /\ IsUnsigned(reversed(Digits(digit, num, base)), Abs(num), C, base)
<1> DEFINE C == {digit[Sign(num) * r] : r \in 0..(base - 1)}
           s == Digits(digit, num, base)
           t == reversed(s)
<1>1. Abs(num) \in Nat /\ Abs(num) \in 0..Abs(num)
  BY DEF Abs
<1>2. PICK f : IsDigits(f, Abs(num), digit, Sign(num), base) /\ s = f[Abs(num)]
  BY DigitsAre
<1>3. IsNumeral(s, Abs(num), C, base)
  <2>1. \A n \in 0..Abs(num) : IsNumeral(f[n], n, C, base)
    <3> DEFINE m == Abs(num)
               sg == Sign(num)
    <3>1. /\ m \in Nat /\ GoodDigits(digit, sg, base) /\ IsDigits(f, m, digit, sg, base)
          /\ \A r \in 0..(base - 1) : digit[sg * r] \in C
      BY <1>1, <1>2
    <3> HIDE DEF m, sg, C
    <3>2. \A n \in 0..m : IsNumeral(f[n], n, C, base)
      BY <3>1, DigitsValue
    <3> QED BY <3>2 DEF m, sg
  <2> HIDE DEF C, s
  <2> QED BY <1>1, <1>2, <2>1
<1>4. \A ch \in C : ch # "-"
  <2>1. \A r \in 0..(base - 1) : digit[Sign(num) * r] # "-"
    BY Zenon DEF GoodDigits
  <2> QED BY <2>1, Zenon
<1> HIDE DEF C, s
<1>5. s \in Seq(C) /\ Len(s) >= 1 /\ Horner(t, base) = Abs(num) /\ (Abs(num) # 0 => t[1] # "0")
  BY <1>3 DEF IsNumeral
<1>6. t \in Seq(C) /\ Len(t) = Len(s)
  <2>1. 1 \in 1..Len(s) /\ s[1] \in C
    BY <1>5
  <2> QED BY <1>5, <2>1, ReversedCons
<1> HIDE DEF t
<1>7. \A i \in 1..Len(t) : t[i] # "-"
  BY <1>4, <1>6
<1>8. IsUnsigned(t, Abs(num), C, base)
  BY <1>5, <1>6, <1>7 DEF IsUnsigned
<1> QED BY <1>5, <1>8 DEF s, t

\* A numeral without a sign has the value of its digits.
LEMMA UnsignedValue ==
    ASSUME NEW C, NEW t, NEW n, NEW base, IsUnsigned(t, n, C, base)
    PROVE  Value(t, base) = n /\ (n # 0 => t[1] # "0")
<1>1. 1 \in 1..Len(t)
  BY DEF IsUnsigned
<1>2. t[1] # "-" /\ Horner(t, base) = n
  BY <1>1 DEF IsUnsigned
<1>3. Value(t, base) = n
  BY <1>2 DEF Value
<1> QED BY <1>2, <1>3 DEF IsUnsigned

\* A numeral with a sign in front has the negated value.
LEMMA SignedValue ==
    ASSUME NEW C, NEW t, NEW n, NEW base, IsUnsigned(t, n, C, base)
    PROVE  LET str == <<"-">> \o t
           IN  Value(str, base) = -n /\ str[1] # "0"
<1> DEFINE D == C \cup {"-"}
           str == <<"-">> \o t
<1>1. t \in Seq(D) /\ Len(t) >= 1 /\ Horner(t, base) = n
  BY DEF IsUnsigned
<1>2. str[1] = "-" /\ Tail(str) = t
  <2>1. "-" \in D
    OBVIOUS
  <2> HIDE DEF D
  <2>2. str[1] = "-"
    BY <1>1, <2>1
  <2>3. Tail(str) = t
    BY <1>1, <2>1
  <2> QED BY <2>2, <2>3
<1> HIDE DEF str
<1>3. Value(str, base) = -n
  BY <1>1, <1>2 DEF Value
<1>4. str[1] # "0"
  BY <1>2
<1> QED BY <1>3, <1>4 DEF str

\* kernel_itoa writes the number's numeral: with its sign in base 10, and of a number that
\* is not negative in the other bases.
LEMMA ItoaValue ==
    ASSUME NEW num \in Int, NEW base \in {2, 8, 10, 16}, num >= 0 \/ base = 10
    PROVE  LET str == kernel_itoa(num, base)
           IN  Value(str, base) = num /\ (num # 0 => str[1] # "0")
<1> DEFINE t == reversed(Digits(itoaDigit, num, base))
           str == kernel_itoa(num, base)
<1>1. PICK C : IsUnsigned(t, Abs(num), C, base)
  <2>1. Sign(num) \in {-1, 1} /\ base \in 2..16
    BY DEF Sign
  <2>2. GoodDigits(itoaDigit, Sign(num), base)
    BY <2>1, ItoaDigits
  <2> QED BY <2>2, ReversedDigits
<1>2. str = (IF num < 0 /\ base = 10 THEN <<"-">> ELSE <<>>) \o t
  BY DEF kernel_itoa
<1> HIDE DEF t, str
<1>3. CASE num < 0
  <2>1. str = <<"-">> \o t
    BY <1>2, <1>3
  <2>2. Value(str, base) = -Abs(num) /\ str[1] # "0"
    BY <1>1, <2>1, SignedValue
  <2>3. -Abs(num) = num
    BY <1>3 DEF Abs
  <2> QED BY <2>2, <2>3 DEF str
<1>4. CASE ~(num < 0)
  <2>1. str = t
    <3>1. t \in Seq(C)
      BY <1>1 DEF IsUnsigned
    <3> QED BY <1>2, <1>4, <3>1
  <2>2. Value(str, base) = Abs(num) /\ (Abs(num) # 0 => str[1] # "0")
    BY <1>1, <2>1, UnsignedValue
  <2>3. Abs(num) = num
    BY <1>4 DEF Abs
  <2> QED BY <2>2, <2>3 DEF str
<1> QED BY <1>3, <1>4

\* int_to_str writes the numeral of a number that is not negative.
LEMMA IntToStrValue ==
    ASSUME NEW num \in Int, NEW base \in {10, 16}, num >= 0
    PROVE  Value(int_to_str(num, base), base) = num
<1>1. base \in {2, 8, 10, 16} /\ base \in 2..16
  OBVIOUS
<1>2. Sign(num) = 1 /\ Abs(num) = num /\ ~(num < 0)
  BY DEF Sign, Abs
<1>3. GoodDigits(loaderDigit, Sign(num), base)
  BY <1>1, <1>2, LoaderDigits
<1>4. PICK C : IsUnsigned(reversed(Digits(loaderDigit, num, base)), num, C, base)
  BY <1>1, <1>2, <1>3, ReversedDigits
<1>5. int_to_str(num, base) = reversed(Digits(loaderDigit, num, base))
  BY <1>2 DEF int_to_str
<1> QED BY <1>4, <1>5, UnsignedValue

\* The decimal numerals that kernel_itoa writes stand for the numbers they were written
\* for, whatever the width of an int, the smallest included (klib.c:87-115); so do those
\* in the other bases, and those of int_to_str (loader_16.c:22-45), of the numbers that
\* are not negative.
THEOREM NumberRoundTripAlways == KlibSpec => []NumberRoundTrip
<1>1. KlibInit => NumberRoundTrip
  BY DEF KlibInit, NoCall, NumberRoundTrip
<1>2. NumberRoundTrip /\ [KlibNext]_klib => NumberRoundTrip'
  <2> SUFFICES ASSUME NumberRoundTrip, [KlibNext]_klib PROVE NumberRoundTrip'
    OBVIOUS
  <2>1. CASE itoa_call
    <3>1. PICK num \in Int32, base \in Bases :
            klib' = [fn |-> "kernel_itoa", num |-> num, base |-> base,
                     str |-> kernel_itoa(num, base)]
      BY <2>1 DEF itoa_call
    <3>2. klib'.fn # "int_to_str" /\ klib'.num = num /\ klib'.base = base
          /\ klib'.str = kernel_itoa(num, base)
      BY <3>1
    <3>3. num \in Int
      BY KlibAssumption DEF Int32, INT_MIN
    <3>4. base \in {2, 8, 10, 16} /\ (num >= 0 \/ base = 10) =>
            /\ Value(klib'.str, base) = num
            /\ num # 0 => klib'.str[1] # "0"
      BY <3>2, <3>3, ItoaValue
    <3> QED BY <3>2, <3>4, Zenon DEF NumberRoundTrip
  <2>2. CASE int_to_str_call
    <3>1. PICK num \in Int32, base \in {10, 16} :
            klib' = [fn |-> "int_to_str", num |-> num, base |-> base,
                     str |-> int_to_str(num, base)]
      BY <2>2 DEF int_to_str_call
    <3>2. klib'.fn # "kernel_itoa" /\ klib'.num = num /\ klib'.base = base
          /\ klib'.str = int_to_str(num, base)
      BY <3>1
    <3>3. num \in Int
      BY KlibAssumption DEF Int32, INT_MIN
    <3>4. num >= 0 => Value(klib'.str, base) = num
      BY <3>2, <3>3, IntToStrValue
    <3> QED BY <3>2, <3>4, Zenon DEF NumberRoundTrip
  <2>3. CASE strncpy_call \/ log_call \/ Returned
    <3>1. klib'.fn # "kernel_itoa" /\ klib'.fn # "int_to_str"
      BY <2>3 DEF strncpy_call, log_call, Returned, NoCall
    <3> QED BY <3>1 DEF NumberRoundTrip
  <2>4. CASE UNCHANGED klib
    BY <2>4 DEF NumberRoundTrip
  <2> QED BY <2>1, <2>2, <2>3, <2>4 DEF KlibNext
<1> QED BY <1>1, <1>2, PTL DEF KlibSpec

-----------------------------------------------------------------------------
(* The library: formatted output.                                          *)

\* f[i] is the first i of n sequences, one behind the other.
IsJoined(f, n, seqs) == f = [i \in 0..n |-> IF i = 0 THEN <<>> ELSE f[i - 1] \o seqs[i]]

\* There are such sequences.
LEMMA JoinedExists ==
    ASSUME NEW seqs
    PROVE  \A n \in Nat : \E f : IsJoined(f, n, seqs)
<1> DEFINE St(x, i) == x \o seqs[i]
           P(n) == \E f : f = [i \in 0..n |-> IF i = 0 THEN <<>> ELSE St(f[i - 1], i)]
           S == {n \in Nat : ~P(n)}
<1>1. SUFFICES \A n \in Nat : P(n)
  BY DEF IsJoined
<1> HIDE DEF St
<1>2. SUFFICES ASSUME S # {} PROVE FALSE
  OBVIOUS
<1>3. PICK n \in S : \A m \in S : n <= m
  BY <1>2, SmallestNat
<1>4. n \in Nat /\ ~P(n)
  BY <1>3
<1>5. CASE n = 0
  <2> DEFINE f == [i \in 0..0 |-> <<>>]
  <2>1. f = [i \in 0..0 |-> IF i = 0 THEN <<>> ELSE St(f[i - 1], i)]
    OBVIOUS
  <2> HIDE DEF f
  <2> QED BY <1>4, <1>5, <2>1
<1>6. CASE n # 0
  <2>1. n - 1 \in Nat /\ ~(n <= n - 1)
    BY <1>4, <1>6
  <2>2. n - 1 \notin S
    BY <1>3, <2>1
  <2>3. PICK g : g = [i \in 0..(n - 1) |-> IF i = 0 THEN <<>> ELSE St(g[i - 1], i)]
    BY <2>1, <2>2
  <2> DEFINE f == [i \in 0..n |-> IF i = 0 THEN <<>> ELSE St(g[i - 1], i)]
  <2>4. \A i \in 0..n : i # 0 => i - 1 \in 0..n /\ i - 1 \in 0..(n - 1)
    BY <1>4
  <2>5. \A i \in 0..(n - 1) : f[i] = g[i]
    BY <1>4, <2>3
  <2>6. f = [i \in 0..n |-> IF i = 0 THEN <<>> ELSE St(f[i - 1], i)]
    BY <2>4, <2>5
  <2> HIDE DEF f
  <2> QED BY <1>4, <2>6
<1> QED BY <1>5, <1>6

\* Joined gives the last of them.
LEMMA JoinedIs ==
    ASSUME NEW seqs, Len(seqs) \in Nat
    PROVE  \E f : IsJoined(f, Len(seqs), seqs) /\ Joined(seqs) = f[Len(seqs)]
<1> DEFINE Body(h) == [i \in 0..Len(seqs) |-> IF i = 0 THEN <<>> ELSE h[i - 1] \o seqs[i]]
           v == CHOOSE h : h = Body(h)
<1>1. PICK f : IsJoined(f, Len(seqs), seqs)
  BY JoinedExists
<1>2. f = Body(f)
  BY <1>1 DEF IsJoined
<1>3. v = Body(v)
  <2> HIDE DEF Body
  <2> QED BY <1>2, Zenon
<1>4. Joined(seqs) = v[Len(seqs)]
  BY DEF Joined
<1> HIDE DEF v
<1>5. IsJoined(v, Len(seqs), seqs)
  BY <1>3 DEF IsJoined
<1> QED BY <1>4, <1>5

\* Each is the one before with a further sequence behind it.
LEMMA JoinedStep ==
    ASSUME NEW k \in Nat, NEW seqs, NEW f, IsJoined(f, k, seqs)
    PROVE  /\ f[0] = <<>>
           /\ \A i \in 1..k : f[i] = f[i - 1] \o seqs[i]
<1>1. f[0] = <<>>
  BY DEF IsJoined
<1>2. \A i \in 1..k : f[i] = f[i - 1] \o seqs[i]
  <2> DEFINE St(x, i) == x \o seqs[i]
  <2>1. f = [i \in 0..k |-> IF i = 0 THEN <<>> ELSE St(f[i - 1], i)]
    BY DEF IsJoined
  <2> HIDE DEF St
  <2>2. \A i \in 1..k : i \in 0..k /\ i # 0
    OBVIOUS
  <2>3. \A i \in 1..k : f[i] = St(f[i - 1], i)
    BY <2>1, <2>2
  <2> QED BY <2>3 DEF St
<1> QED BY <1>1, <1>2

\* Their type.
LEMMA JoinedType ==
    ASSUME NEW C, NEW k \in Nat, NEW seqs, \A i \in 1..k : seqs[i] \in Seq(C),
           NEW f, IsJoined(f, k, seqs)
    PROVE  \A i \in 0..k : f[i] \in Seq(C)
<1>1. f[0] = <<>>
  BY JoinedStep, Zenon
<1>2. \A i \in 1..k : f[i] = f[i - 1] \o seqs[i]
  BY JoinedStep, Zenon
<1>3. \A i \in 0..k : f[i] \in Seq(C)
  <2> DEFINE S == {i \in 0..k : f[i] \notin Seq(C)}
  <2>1. SUFFICES ASSUME S # {} PROVE FALSE
    OBVIOUS
  <2>2. S \in SUBSET Nat
    OBVIOUS
  <2> HIDE DEF S
  <2>3. PICK i \in S : \A m \in S : i <= m
    BY <2>1, <2>2, SmallestNat
  <2>4. i \in 0..k /\ f[i] \notin Seq(C)
    BY <2>3 DEF S
  <2>5. i # 0
    <3>1. <<>> \in Seq(C)
      OBVIOUS
    <3> QED BY <1>1, <2>4, <3>1
  <2>6. i \in 1..k /\ i - 1 \in 0..k /\ ~(i <= i - 1)
    BY <2>4, <2>5
  <2>7. f[i - 1] \in Seq(C)
    <3>1. i - 1 \notin S
      BY <2>3, <2>6
    <3> QED BY <3>1, <2>6 DEF S
  <2>8. f[i] = f[i - 1] \o seqs[i] /\ seqs[i] \in Seq(C)
    BY <1>2, <2>6
  <2> QED BY <2>4, <2>7, <2>8
<1> QED BY <1>3

\* s begins with t.
Begins(s, t) == Len(t) <= Len(s) /\ \A i \in 1..Len(t) : s[i] = t[i]

\* All of them begin with those before.
LEMMA JoinedPrefix ==
    ASSUME NEW C, NEW k \in Nat, NEW seqs, \A i \in 1..k : seqs[i] \in Seq(C),
           NEW f, IsJoined(f, k, seqs)
    PROVE  \A n \in 0..k : \A j \in 0..n : Begins(f[n], f[j])
<1> DEFINE S == {n \in 0..k : ~ \A j \in 0..n : Begins(f[n], f[j])}
<1>1. SUFFICES ASSUME S # {} PROVE FALSE
  OBVIOUS
<1>2. S \in SUBSET Nat
  OBVIOUS
<1>3. PICK n \in S : \A m \in S : n <= m
  <2> HIDE DEF S
  <2> QED BY <1>1, <1>2, SmallestNat
<1>4. PICK j \in 0..n : ~Begins(f[n], f[j])
  BY <1>3
<1>5. n \in 0..k /\ j \in 0..k
  BY <1>3, <1>4
<1>6. f[n] \in Seq(C) /\ f[j] \in Seq(C)
  BY <1>5, JoinedType
<1>7. n # j
  BY <1>4, <1>6 DEF Begins
<1>8. n \in 1..k /\ n - 1 \in 0..k /\ j \in 0..(n - 1) /\ ~(n <= n - 1)
  BY <1>4, <1>5, <1>7
<1>9. Begins(f[n - 1], f[j])
  <2>1. n - 1 \notin S
    <3> HIDE DEF S
    <3> QED BY <1>3, <1>8
  <2> QED BY <2>1, <1>8
<1>10. f[n] = f[n - 1] \o seqs[n] /\ f[n - 1] \in Seq(C) /\ seqs[n] \in Seq(C)
  <2>1. \A i \in 1..k : f[i] = f[i - 1] \o seqs[i]
    BY JoinedStep, Zenon
  <2>2. \A i \in 0..k : f[i] \in Seq(C)
    BY JoinedType, Zenon
  <2> QED BY <1>8, <2>1, <2>2
<1>11. Begins(f[n], f[n - 1])
  <2> DEFINE s == f[n - 1]
             t == seqs[n]
  <2>1. s \in Seq(C) /\ t \in Seq(C) /\ f[n] = s \o t
    BY <1>10
  <2> HIDE DEF s, t
  <2>2. Len(s \o t) = Len(s) + Len(t) /\ \A i \in 1..Len(s) : (s \o t)[i] = s[i]
    BY <2>1
  <2>3. Len(s) \in Nat /\ Len(t) \in Nat
    BY <2>1
  <2> QED BY <2>1, <2>2, <2>3 DEF Begins, s
<1>12. Begins(f[n], f[j])
  <2>1. Len(f[n]) \in Nat /\ Len(f[n - 1]) \in Nat /\ Len(f[j]) \in Nat
    <3>1. \A s \in Seq(C) : Len(s) \in Nat
      OBVIOUS
    <3>2. f[n - 1] \in Seq(C)
      BY <1>10
    <3> QED BY <1>6, <3>1, <3>2
  <2> QED BY <1>9, <1>11, <2>1 DEF Begins
<1> QED BY <1>4, <1>12

\* The loop's state outside of a directive, and behind its %.
Outside(o, t) == [read_fmt |-> FALSE, out |-> o, taken |-> t]
Inside(o, t) == [read_fmt |-> TRUE, out |-> o, taken |-> t]

\* f[i] is the state after the first i of n characters of the format.
IsFormat(f, n, fmt, args) ==
    f = [i \in 0..n |-> IF i = 0 THEN [read_fmt |-> FALSE, out |-> <<>>, taken |-> 0]
                        ELSE format_char(f[i - 1], args, fmt[i])]

\* There are such states.
LEMMA FormatExists ==
    ASSUME NEW fmt, NEW args
    PROVE  \A n \in Nat : \E f : IsFormat(f, n, fmt, args)
<1> DEFINE St(x, i) == format_char(x, args, fmt[i])
           z == [read_fmt |-> FALSE, out |-> <<>>, taken |-> 0]
           P(n) == \E f : f = [i \in 0..n |-> IF i = 0 THEN z ELSE St(f[i - 1], i)]
           S == {n \in Nat : ~P(n)}
<1>1. SUFFICES \A n \in Nat : P(n)
  BY DEF IsFormat
<1> HIDE DEF St, z
<1>2. SUFFICES ASSUME S # {} PROVE FALSE
  OBVIOUS
<1>3. PICK n \in S : \A m \in S : n <= m
  BY <1>2, SmallestNat
<1>4. n \in Nat /\ ~P(n)
  BY <1>3
<1>5. CASE n = 0
  <2> DEFINE f == [i \in 0..0 |-> z]
  <2>1. f = [i \in 0..0 |-> IF i = 0 THEN z ELSE St(f[i - 1], i)]
    OBVIOUS
  <2> HIDE DEF f
  <2> QED BY <1>4, <1>5, <2>1
<1>6. CASE n # 0
  <2>1. n - 1 \in Nat /\ ~(n <= n - 1)
    BY <1>4, <1>6
  <2>2. n - 1 \notin S
    BY <1>3, <2>1
  <2>3. PICK g : g = [i \in 0..(n - 1) |-> IF i = 0 THEN z ELSE St(g[i - 1], i)]
    BY <2>1, <2>2
  <2> DEFINE f == [i \in 0..n |-> IF i = 0 THEN z ELSE St(g[i - 1], i)]
  <2>4. \A i \in 0..n : i # 0 => i - 1 \in 0..n /\ i - 1 \in 0..(n - 1)
    BY <1>4
  <2>5. \A i \in 0..(n - 1) : f[i] = g[i]
    BY <1>4, <2>3
  <2>6. f = [i \in 0..n |-> IF i = 0 THEN z ELSE St(f[i - 1], i)]
    BY <2>4, <2>5
  <2> HIDE DEF f
  <2> QED BY <1>4, <2>6
<1> QED BY <1>5, <1>6

\* kernel_vsprintf's output is that of the last one.
LEMMA FormatIs ==
    ASSUME NEW fmt, NEW args, Len(fmt) \in Nat
    PROVE  \E f : IsFormat(f, Len(fmt), fmt, args) /\ kernel_vsprintf(fmt, args) = f[Len(fmt)].out
<1> DEFINE Body(h) == [i \in 0..Len(fmt) |->
                          IF i = 0 THEN [read_fmt |-> FALSE, out |-> <<>>, taken |-> 0]
                          ELSE format_char(h[i - 1], args, fmt[i])]
           v == CHOOSE h : h = Body(h)
<1>1. PICK f : IsFormat(f, Len(fmt), fmt, args)
  BY FormatExists
<1>2. f = Body(f)
  BY <1>1 DEF IsFormat
<1>3. v = Body(v)
  <2> HIDE DEF Body
  <2> QED BY <1>2, Zenon
<1>4. kernel_vsprintf(fmt, args) = v[Len(fmt)].out
  BY DEF kernel_vsprintf
<1> HIDE DEF v
<1>5. IsFormat(v, Len(fmt), fmt, args)
  BY <1>3 DEF IsFormat
<1> QED BY <1>4, <1>5

\* The state at the start.
LEMMA FormatStart ==
    ASSUME NEW n \in Nat, NEW fmt, NEW args, NEW f, IsFormat(f, n, fmt, args)
    PROVE  f[0] = Outside(<<>>, 0)
<1> DEFINE St(x, i) == format_char(x, args, fmt[i])
           z == Outside(<<>>, 0)
<1>1. f = [i \in 0..n |-> IF i = 0 THEN z ELSE St(f[i - 1], i)]
  BY DEF IsFormat, Outside
<1> HIDE DEF St, z
<1>2. f[0] = z
  BY <1>1
<1> QED BY <1>2 DEF z

\* Each state is made from the one before by a turn of the loop.
LEMMA FormatStep ==
    ASSUME NEW n \in Nat, NEW fmt, NEW args, NEW f, IsFormat(f, n, fmt, args)
    PROVE  \A i \in 1..n : f[i] = format_char(f[i - 1], args, fmt[i])
<1> DEFINE St(x, i) == format_char(x, args, fmt[i])
           z == Outside(<<>>, 0)
<1>1. f = [i \in 0..n |-> IF i = 0 THEN z ELSE St(f[i - 1], i)]
  BY DEF IsFormat, Outside
<1> HIDE DEF St, z
<1>2. \A i \in 1..n : i \in 0..n /\ i # 0
  OBVIOUS
<1>3. \A i \in 1..n : f[i] = St(f[i - 1], i)
  BY <1>1, <1>2
<1> QED BY <1>3 DEF St

\* A turn of the loop outside of a directive.
LEMMA FormatText ==
    ASSUME NEW o, NEW t, NEW args, NEW ch
    PROVE  format_char(Outside(o, t), args, ch) =
               IF ch = "%" THEN Inside(o, t) ELSE Outside(Append(o, ch), t)
<1> DEFINE s == Outside(o, t)
<1>1. s.read_fmt = FALSE /\ s.out = o /\ s.taken = t
  BY DEF Outside, Inside
<1>2. [s EXCEPT !.read_fmt = TRUE] = Inside(o, t)
  <2>1. \A a, b : [[read_fmt |-> a, out |-> o, taken |-> t] EXCEPT !.read_fmt = b]
                     = [read_fmt |-> b, out |-> o, taken |-> t]
    OBVIOUS
  <2> QED BY <2>1, Zenon DEF Outside, Inside
<1>3. [s EXCEPT !.out = Append(@, ch)] = Outside(Append(o, ch), t)
  <2> DEFINE u == Append(o, ch)
  <2>1. [s EXCEPT !.out = Append(@, ch)] = [s EXCEPT !.out = u]
    BY <1>1, Zenon
  <2> HIDE DEF u
  <2>2. \A a, b : [[read_fmt |-> a, out |-> o, taken |-> t] EXCEPT !.out = b]
                     = [read_fmt |-> a, out |-> b, taken |-> t]
    OBVIOUS
  <2>3. [s EXCEPT !.out = u] = Outside(u, t)
    BY <2>2, Zenon DEF Outside
  <2> QED BY <2>1, <2>3 DEF u
<1> HIDE DEF s
<1>4. CASE ch = "%"
  <2>1. format_char(s, args, ch) = [s EXCEPT !.read_fmt = TRUE]
    BY <1>1, <1>4, Zenon DEF format_char
  <2> QED BY <1>2, <1>4, <2>1 DEF s
<1>5. CASE ch # "%"
  <2>1. format_char(s, args, ch) = [s EXCEPT !.out = Append(@, ch)]
    BY <1>1, <1>5, Zenon DEF format_char
  <2> QED BY <1>3, <1>5, <2>1 DEF s
<1> QED BY <1>4, <1>5

\* What a directive's second character ch makes of its argument.
Expansion(ch, arg) ==
    IF ch = "s" THEN arg ELSE IF ch = "c" THEN <<arg>>
    ELSE IF ch = "d" THEN kernel_itoa(arg, 10) ELSE kernel_itoa(arg, 16)

\* A turn of the loop that ends a directive.
LEMMA FormatDirective ==
    ASSUME NEW o, NEW t, NEW args, NEW ch \in {"s", "c", "d", "x"}
    PROVE  format_char(Inside(o, t), args, ch) =
               Outside(o \o Expansion(ch, args[t + 1]), t + 1)
<1> DEFINE s == Inside(o, t)
<1>1. s.read_fmt = TRUE /\ s.out = o /\ s.taken = t
  BY DEF Outside, Inside
<1> HIDE DEF s
<1>2. CASE ch = "s"
  <2>1. ch # "c" /\ ch # "d" /\ ch # "x"
    BY <1>2
  <2> QED BY <1>1, <1>2, <2>1, Zenon DEF format_char, Expansion, Inside, Outside, s
<1>3. CASE ch = "c"
  <2>1. ch # "s" /\ ch # "d" /\ ch # "x"
    BY <1>3
  <2> QED BY <1>1, <1>3, <2>1, Zenon DEF format_char, Expansion, Inside, Outside, s
<1>4. CASE ch = "d"
  <2>1. ch # "s" /\ ch # "c" /\ ch # "x"
    BY <1>4
  <2> QED BY <1>1, <1>4, <2>1, Zenon DEF format_char, Expansion, Inside, Outside, s
<1>5. CASE ch = "x"
  <2>1. ch # "s" /\ ch # "c" /\ ch # "d"
    BY <1>5
  <2> QED BY <1>1, <1>5, <2>1, Zenon DEF format_char, Expansion, Inside, Outside, s
<1> QED BY <1>2, <1>3, <1>4, <1>5

\* A piece is a character or a directive with its argument.
LEMMA PieceCases ==
    ASSUME NEW p, IsPiece(p)
    PROVE  /\ p.fmt \in Seq(STRING) /\ p.text \in Seq(STRING)
           /\ \/ \E c \in STRING : c # "%" /\ p.fmt = <<c>> /\ p.args = <<>> /\ p.text = <<c>>
              \/ \E ch \in {"s", "c", "d", "x"} :
                     /\ p.fmt = <<"%", ch>> /\ p.args = <<p.args[1]>>
                     /\ p.text = Expansion(ch, p.args[1])
<1>1. p.fmt \in Seq(STRING) /\ p.text \in Seq(STRING)
  BY Zenon DEF IsPiece
<1>2. CASE p.fmt = <<p.fmt[1]>> /\ p.fmt[1] # "%" /\ p.args = <<>> /\ p.text = p.fmt
  <2>1. p.fmt[1] \in STRING
    <3> DEFINE s == p.fmt
    <3>1. s \in Seq(STRING) /\ s = <<s[1]>>
      BY <1>1, <1>2
    <3> HIDE DEF s
    <3>2. Len(s) = 1
      BY <3>1
    <3>3. s[1] \in STRING
      BY <3>1, <3>2
    <3> QED BY <3>3 DEF s
  <2>2. p.text = <<p.fmt[1]>>
    BY <1>2, Zenon
  <2> QED BY <1>1, <1>2, <2>1, <2>2, Zenon
<1>3. CASE p.fmt = <<"%", "s">> /\ p.args = <<p.args[1]>> /\ p.text = p.args[1]
  <2>1. Expansion("s", p.args[1]) = p.args[1]
    BY DEF Expansion
  <2> QED BY <1>1, <1>3, <2>1, Zenon
<1>4. CASE p.fmt = <<"%", "c">> /\ p.args = <<p.args[1]>> /\ p.text = <<p.args[1]>>
  <2>1. Expansion("c", p.args[1]) = <<p.args[1]>>
    BY DEF Expansion
  <2> QED BY <1>1, <1>4, <2>1, Zenon
<1>5. CASE p.fmt = <<"%", "d">> /\ p.args = <<p.args[1]>> /\ p.text = kernel_itoa(p.args[1], 10)
  <2>1. Expansion("d", p.args[1]) = kernel_itoa(p.args[1], 10)
    BY DEF Expansion
  <2> QED BY <1>1, <1>5, <2>1, Zenon
<1>6. CASE p.fmt = <<"%", "x">> /\ p.args = <<p.args[1]>> /\ p.text = kernel_itoa(p.args[1], 16)
  <2>1. Expansion("x", p.args[1]) = kernel_itoa(p.args[1], 16)
    BY DEF Expansion
  <2> QED BY <1>1, <1>6, <2>1, Zenon
<1> QED BY <1>2, <1>3, <1>4, <1>5, <1>6, Zenon DEF IsPiece

\* Where the piece that is put behind s begins.
LEMMA BehindFacts ==
    ASSUME NEW C, NEW s \in Seq(C), NEW t \in Seq(C), NEW all \in Seq(C), Begins(all, s \o t)
    PROVE  /\ Len(s) \in Nat /\ Len(t) \in Nat /\ Len(all) \in Nat
           /\ Len(s \o t) = Len(s) + Len(t) /\ Len(s) + Len(t) <= Len(all)
           /\ \A i \in 1..Len(t) : all[Len(s) + i] = t[i]
<1> DEFINE u == s \o t
<1>1. Len(s) \in Nat /\ Len(t) \in Nat /\ Len(all) \in Nat
  OBVIOUS
<1>2. Len(u) = Len(s) + Len(t) /\ \A i \in 1..Len(t) : u[Len(s) + i] = t[i]
  OBVIOUS
<1> HIDE DEF u
<1>3. Len(u) <= Len(all) /\ \A i \in 1..Len(u) : all[i] = u[i]
  BY DEF Begins, u
<1>4. \A i \in 1..Len(t) : Len(s) + i \in 1..Len(u)
  BY <1>1, <1>2
<1> QED BY <1>1, <1>2, <1>3, <1>4 DEF u

\* Over a piece that is one character the loop writes that character.
LEMMA CharacterPiece ==
    ASSUME NEW N \in Nat, NEW fmt, NEW args, NEW g, IsFormat(g, N, fmt, args),
           NEW L \in Nat, L + 1 <= N, NEW o, NEW a,
           g[L] = Outside(o, a), fmt[L + 1] # "%"
    PROVE  g[L + 1] = Outside(Append(o, fmt[L + 1]), a)
<1>1. L + 1 \in 1..N /\ (L + 1) - 1 = L
  OBVIOUS
<1>2. \A i \in 1..N : g[i] = format_char(g[i - 1], args, fmt[i])
  BY FormatStep
<1>3. g[L + 1] = format_char(g[(L + 1) - 1], args, fmt[L + 1])
  BY <1>1, <1>2, Zenon
<1>4. g[L + 1] = format_char(Outside(o, a), args, fmt[L + 1])
  BY <1>1, <1>3, Zenon
<1>5. format_char(Outside(o, a), args, fmt[L + 1]) =
          IF fmt[L + 1] = "%" THEN Inside(o, a) ELSE Outside(Append(o, fmt[L + 1]), a)
  BY FormatText
<1> QED BY <1>4, <1>5, Zenon

\* Over a directive it writes the expansion of the next argument.
LEMMA DirectivePiece ==
    ASSUME NEW N \in Nat, NEW fmt, NEW args, NEW g, IsFormat(g, N, fmt, args),
           NEW L \in Nat, L + 2 <= N, NEW o, NEW a,
           g[L] = Outside(o, a), fmt[L + 1] = "%", fmt[L + 2] \in {"s", "c", "d", "x"}
    PROVE  g[L + 2] = Outside(o \o Expansion(fmt[L + 2], args[a + 1]), a + 1)
<1>1. L + 1 \in 1..N /\ (L + 1) - 1 = L /\ L + 2 \in 1..N /\ (L + 2) - 1 = L + 1
  OBVIOUS
<1>2. \A i \in 1..N : g[i] = format_char(g[i - 1], args, fmt[i])
  BY FormatStep
<1>3. g[L + 1] = format_char(g[(L + 1) - 1], args, fmt[L + 1])
  BY <1>1, <1>2, Zenon
<1>4. g[L + 1] = format_char(Outside(o, a), args, fmt[L + 1])
  BY <1>1, <1>3, Zenon
<1>5. g[L + 1] = Inside(o, a)
  BY <1>4, FormatText, Zenon
<1>6. g[L + 2] = format_char(g[(L + 2) - 1], args, fmt[L + 2])
  BY <1>1, <1>2, Zenon
<1>7. g[L + 2] = format_char(Inside(o, a), args, fmt[L + 2])
  BY <1>1, <1>5, <1>6, Zenon
<1> QED BY <1>7, FormatDirective, Zenon

\* A message is formatted to its text.
LEMMA PiecesFormatted ==
    ASSUME NEW pieces \in Formats
    PROVE  kernel_vsprintf(FmtOf(pieces), ArgsOf(pieces)) = TextOf(pieces)
<1> DEFINE k == Len(pieces)
           fs == [i \in 1..k |-> pieces[i].fmt]
           as == [i \in 1..k |-> pieces[i].args]
           ts == [i \in 1..k |-> pieces[i].text]
           D == {pieces[i].args[1] : i \in 1..k}
<1>1. k \in Nat /\ \A i \in 1..k : IsPiece(pieces[i])
  BY FormatAssumption
<1>2. \A i \in 1..k : fs[i] = pieces[i].fmt /\ as[i] = pieces[i].args /\ ts[i] = pieces[i].text
  OBVIOUS
<1>3. \A i \in 1..k : as[i][1] \in D
  BY <1>2
<1>4. FmtOf(pieces) = Joined(fs) /\ ArgsOf(pieces) = Joined(as) /\ TextOf(pieces) = Joined(ts)
  BY DEF FmtOf, ArgsOf, TextOf
<1>5. Len(fs) = k /\ Len(as) = k /\ Len(ts) = k
  BY <1>1
<1> HIDE DEF k, fs, as, ts, D
<1>6. \A i \in 1..k :
        /\ fs[i] \in Seq(STRING) /\ ts[i] \in Seq(STRING)
        /\ \/ \E c \in STRING : c # "%" /\ fs[i] = <<c>> /\ as[i] = <<>> /\ ts[i] = <<c>>
           \/ \E ch \in {"s", "c", "d", "x"} :
                  /\ fs[i] = <<"%", ch>> /\ as[i] = <<as[i][1]>>
                  /\ ts[i] = Expansion(ch, as[i][1])
  <2> TAKE i \in 1..k
  <2>1. IsPiece(pieces[i])
    BY <1>1
  <2> DEFINE p == pieces[i]
  <2>2. fs[i] = p.fmt /\ as[i] = p.args /\ ts[i] = p.text
    BY <1>2
  <2>3. /\ p.fmt \in Seq(STRING) /\ p.text \in Seq(STRING)
        /\ \/ \E c \in STRING : c # "%" /\ p.fmt = <<c>> /\ p.args = <<>> /\ p.text = <<c>>
           \/ \E ch \in {"s", "c", "d", "x"} :
                  /\ p.fmt = <<"%", ch>> /\ p.args = <<p.args[1]>>
                  /\ p.text = Expansion(ch, p.args[1])
    BY <2>1, PieceCases
  <2> HIDE DEF p
  <2> QED BY <2>2, <2>3, Zenon
<1>7. \A i \in 1..k : as[i] \in Seq(D)
  <2> TAKE i \in 1..k
  <2>1. as[i] = <<>> \/ as[i] = <<as[i][1]>>
    BY <1>6, Zenon
  <2> DEFINE x == as[i][1]
             a == as[i]
  <2>2. x \in D /\ (a = <<>> \/ a = <<x>>)
    BY <1>3, <2>1
  <2> HIDE DEF x, a
  <2>3. a = <<>> => a \in Seq(D)
    OBVIOUS
  <2>4. a = <<x>> => a \in Seq(D)
    BY <2>2
  <2> QED BY <2>2, <2>3, <2>4 DEF a
<1>8. PICK F : IsJoined(F, k, fs) /\ FmtOf(pieces) = F[k]
  BY <1>1, <1>4, <1>5, JoinedIs
<1>9. PICK A : IsJoined(A, k, as) /\ ArgsOf(pieces) = A[k]
  BY <1>1, <1>4, <1>5, JoinedIs
<1>10. PICK T : IsJoined(T, k, ts) /\ TextOf(pieces) = T[k]
  BY <1>1, <1>4, <1>5, JoinedIs
<1>11. /\ F[0] = <<>> /\ \A i \in 1..k : F[i] = F[i - 1] \o fs[i]
       /\ A[0] = <<>> /\ \A i \in 1..k : A[i] = A[i - 1] \o as[i]
       /\ T[0] = <<>> /\ \A i \in 1..k : T[i] = T[i - 1] \o ts[i]
  <2>1. F[0] = <<>> /\ \A i \in 1..k : F[i] = F[i - 1] \o fs[i]
    BY <1>1, <1>8, JoinedStep, Zenon
  <2>2. A[0] = <<>> /\ \A i \in 1..k : A[i] = A[i - 1] \o as[i]
    BY <1>1, <1>9, JoinedStep, Zenon
  <2>3. T[0] = <<>> /\ \A i \in 1..k : T[i] = T[i - 1] \o ts[i]
    BY <1>1, <1>10, JoinedStep, Zenon
  <2> QED BY <2>1, <2>2, <2>3
<1>12. \A i \in 0..k : F[i] \in Seq(STRING) /\ A[i] \in Seq(D) /\ T[i] \in Seq(STRING)
  <2>1. \A i \in 0..k : F[i] \in Seq(STRING)
    BY <1>1, <1>6, <1>8, JoinedType
  <2>2. \A i \in 0..k : A[i] \in Seq(D)
    BY <1>1, <1>7, <1>9, JoinedType
  <2>3. \A i \in 0..k : T[i] \in Seq(STRING)
    BY <1>1, <1>6, <1>10, JoinedType
  <2> QED BY <2>1, <2>2, <2>3
<1>13. \A j \in 0..k : Begins(F[k], F[j]) /\ Begins(A[k], A[j])
  <2>1. k \in 0..k
    BY <1>1
  <2>2. \A n \in 0..k : \A j \in 0..n : Begins(F[n], F[j])
    BY <1>1, <1>6, <1>8, JoinedPrefix
  <2>3. \A n \in 0..k : \A j \in 0..n : Begins(A[n], A[j])
    BY <1>1, <1>7, <1>9, JoinedPrefix
  <2> QED BY <2>1, <2>2, <2>3
<1> DEFINE N == Len(F[k])
<1>14. k \in 0..k /\ N \in Nat
  <2>1. k \in 0..k
    BY <1>1
  <2>2. F[k] \in Seq(STRING)
    BY <2>1, <1>12
  <2> QED BY <2>1, <2>2
<1>15. PICK g : IsFormat(g, N, F[k], A[k]) /\ kernel_vsprintf(F[k], A[k]) = g[N].out
  BY <1>14, FormatIs
<1> HIDE DEF N
<1> DEFINE S == {j \in 0..k : g[Len(F[j])] # Outside(T[j], Len(A[j]))}
<1>16. S = {}
  <2>1. SUFFICES ASSUME S # {} PROVE FALSE
    OBVIOUS
  <2>2. S \in SUBSET Nat
    <3>1. \A n \in S : n \in 0..k
      BY Zenon
    <3>2. \A n \in 0..k : n \in Nat
      BY <1>1
    <3> HIDE DEF S
    <3> QED BY <3>1, <3>2
  <2> HIDE DEF S
  <2>3. PICK j \in S : \A m \in S : j <= m
    BY <2>1, <2>2, SmallestNat
  <2>4. j \in 0..k /\ g[Len(F[j])] # Outside(T[j], Len(A[j]))
    BY <2>3 DEF S
  <2>5. j # 0
    <3>1. g[0] = Outside(<<>>, 0)
      BY <1>14, <1>15, FormatStart
    <3>2. Len(F[0]) = 0 /\ Len(A[0]) = 0
      BY <1>11
    <3> QED BY <2>4, <3>1, <3>2, <1>11, Zenon
  <2> DEFINE i == j - 1
  <2>6. j \in 1..k /\ i \in 0..k /\ ~(j <= i)
    BY <1>1, <2>4, <2>5
  <2>7. g[Len(F[i])] = Outside(T[i], Len(A[i]))
    <3>1. i \notin S
      BY <2>3, <2>6
    <3> QED BY <3>1, <2>6 DEF S
  <2>8. F[j] = F[i] \o fs[j] /\ A[j] = A[i] \o as[j] /\ T[j] = T[i] \o ts[j]
    BY <2>6, <1>11
  <2>9. F[i] \in Seq(STRING) /\ A[i] \in Seq(D) /\ T[i] \in Seq(STRING)
        /\ F[k] \in Seq(STRING) /\ A[k] \in Seq(D)
    BY <2>6, <1>12, <1>14
  <2>10. fs[j] \in Seq(STRING) /\ ts[j] \in Seq(STRING) /\ as[j] \in Seq(D)
    BY <2>6, <1>6, <1>7
  <2>11. Begins(F[k], F[i] \o fs[j]) /\ Begins(A[k], A[i] \o as[j])
    BY <2>4, <2>8, <1>13
  <2> HIDE DEF i
  <2> DEFINE L == Len(F[i])
             M == Len(A[i])
             fk == F[k]
             ak == A[k]
             o == T[i]
  <2>12. /\ L \in Nat /\ Len(F[i] \o fs[j]) = L + Len(fs[j]) /\ L + Len(fs[j]) <= N
         /\ \A n \in 1..Len(fs[j]) : fk[L + n] = fs[j][n]
    <3> DEFINE s == F[i]
               t == fs[j]
               all == F[k]
    <3>1. s \in Seq(STRING) /\ t \in Seq(STRING) /\ all \in Seq(STRING) /\ Begins(all, s \o t)
      BY <2>9, <2>10, <2>11
    <3> HIDE DEF s, t, all
    <3>2. /\ Len(s) \in Nat /\ Len(t) \in Nat /\ Len(all) \in Nat
          /\ Len(s \o t) = Len(s) + Len(t) /\ Len(s) + Len(t) <= Len(all)
          /\ \A n \in 1..Len(t) : all[Len(s) + n] = t[n]
      BY <3>1, BehindFacts
    <3> QED BY <3>2, Zenon DEF s, t, all, N
  <2>13. /\ M \in Nat /\ Len(A[i] \o as[j]) = M + Len(as[j])
         /\ \A n \in 1..Len(as[j]) : ak[M + n] = as[j][n]
    <3> DEFINE s == A[i]
               t == as[j]
               all == A[k]
    <3>1. s \in Seq(D) /\ t \in Seq(D) /\ all \in Seq(D) /\ Begins(all, s \o t)
      BY <2>9, <2>10, <2>11
    <3> HIDE DEF s, t, all
    <3>2. /\ Len(s) \in Nat /\ Len(t) \in Nat /\ Len(all) \in Nat
          /\ Len(s \o t) = Len(s) + Len(t) /\ Len(s) + Len(t) <= Len(all)
          /\ \A n \in 1..Len(t) : all[Len(s) + n] = t[n]
      BY <3>1, BehindFacts
    <3> QED BY <3>2, Zenon DEF s, t, all
  <2>14. /\ Len(F[j]) = L + Len(fs[j]) /\ Len(A[j]) = M + Len(as[j]) /\ T[j] = o \o ts[j]
         /\ g[L] = Outside(o, M) /\ IsFormat(g, N, fk, ak) /\ o \in Seq(STRING)
    BY <2>7, <2>8, <2>9, <2>12, <2>13, <1>15
  <2> HIDE DEF L, M, fk, ak, o
  <2>15. CASE \E c \in STRING : c # "%" /\ fs[j] = <<c>> /\ as[j] = <<>> /\ ts[j] = <<c>>
    <3>1. PICK c \in STRING : c # "%" /\ fs[j] = <<c>> /\ as[j] = <<>> /\ ts[j] = <<c>>
      BY <2>15
    <3>2. Len(fs[j]) = 1 /\ fs[j][1] = c /\ Len(as[j]) = 0
      BY <3>1
    <3>3. L + 1 <= N /\ fk[L + 1] = c /\ Len(F[j]) = L + 1 /\ Len(A[j]) = M
      <4>1. 1 \in 1..Len(fs[j]) /\ N \in Nat
        BY <3>2, <1>14
      <4>2. fk[L + 1] = c
        BY <4>1, <3>2, <2>12
      <4>3. L + 1 <= N /\ Len(F[j]) = L + 1
        BY <3>2, <2>12, <2>14
      <4>4. Len(A[j]) = M
        BY <3>2, <2>13, <2>14
      <4> QED BY <4>2, <4>3, <4>4
    <3>4. T[j] = Append(o, c)
      BY <3>1, <2>14
    <3>5. g[L + 1] = Outside(Append(o, fk[L + 1]), M)
      <4>1. fk[L + 1] # "%" /\ L \in Nat /\ L + 1 <= N /\ N \in Nat
        BY <3>1, <3>3, <2>12, <1>14
      <4>2. g[L] = Outside(o, M) /\ IsFormat(g, N, fk, ak)
        BY <2>14
      <4> QED BY <4>1, <4>2, CharacterPiece
    <3>6. g[Len(F[j])] = Outside(T[j], Len(A[j]))
      BY <3>3, <3>4, <3>5
    <3> QED BY <3>6, <2>4
  <2>16. CASE \E ch \in {"s", "c", "d", "x"} :
                 /\ fs[j] = <<"%", ch>> /\ as[j] = <<as[j][1]>>
                 /\ ts[j] = Expansion(ch, as[j][1])
    <3>1. PICK ch \in {"s", "c", "d", "x"} :
                 /\ fs[j] = <<"%", ch>> /\ as[j] = <<as[j][1]>>
                 /\ ts[j] = Expansion(ch, as[j][1])
      BY <2>16
    <3> DEFINE x == as[j][1]
    <3>2. Len(fs[j]) = 2 /\ fs[j][1] = "%" /\ fs[j][2] = ch /\ Len(as[j]) = 1
      <4>1. fs[j] = <<"%", ch>> /\ as[j] = <<x>>
        BY <3>1
      <4> HIDE DEF x
      <4>2. Len(fs[j]) = 2 /\ fs[j][1] = "%" /\ fs[j][2] = ch
        BY <4>1
      <4>3. Len(as[j]) = 1
        BY <4>1
      <4> QED BY <4>2, <4>3
    <3>3. /\ L + 2 <= N /\ fk[L + 1] = "%" /\ fk[L + 2] = ch /\ ak[M + 1] = as[j][1]
          /\ Len(F[j]) = L + 2 /\ Len(A[j]) = M + 1
      <4>1. 1 \in 1..Len(fs[j]) /\ 2 \in 1..Len(fs[j]) /\ 1 \in 1..Len(as[j])
        BY <3>2
      <4>2. fk[L + 1] = "%" /\ fk[L + 2] = ch
        BY <4>1, <3>2, <2>12
      <4>3. ak[M + 1] = as[j][1]
        BY <4>1, <2>13
      <4>4. L + 2 <= N /\ Len(F[j]) = L + 2
        BY <3>2, <2>12, <2>14
      <4>5. Len(A[j]) = M + 1
        BY <3>2, <2>13, <2>14
      <4> QED BY <4>2, <4>3, <4>4, <4>5
    <3>4. T[j] = o \o Expansion(fk[L + 2], ak[M + 1])
      BY <3>1, <3>3, <2>14
    <3>5. g[L + 2] = Outside(o \o Expansion(fk[L + 2], ak[M + 1]), M + 1)
      <4>1. /\ fk[L + 1] = "%" /\ fk[L + 2] \in {"s", "c", "d", "x"}
            /\ L \in Nat /\ L + 2 <= N /\ N \in Nat
        BY <3>1, <3>3, <2>12, <1>14
      <4>2. g[L] = Outside(o, M) /\ IsFormat(g, N, fk, ak)
        BY <2>14
      <4> QED BY <4>1, <4>2, DirectivePiece
    <3>6. g[Len(F[j])] = Outside(T[j], Len(A[j]))
      BY <3>3, <3>4, <3>5
    <3> QED BY <3>6, <2>4
  <2> QED BY <2>6, <2>15, <2>16, <1>6
<1>17. g[N] = Outside(T[k], Len(A[k]))
  BY <1>14, <1>16 DEF N
<1>18. g[N].out = T[k]
  BY <1>17 DEF Outside, Inside
<1> QED BY <1>8, <1>9, <1>10, <1>15, <1>18

\* A message that fits into log_printf's buffer is written as its pieces one after the
\* other, for messages of any number of pieces (klib.c:122, log.c:33).
THEOREM FormatExpandsAlways == KlibSpec => []FormatExpands
<1>1. KlibInit => FormatExpands
  BY DEF KlibInit, NoCall, FormatExpands
<1>2. FormatExpands /\ [KlibNext]_klib => FormatExpands'
  <2> SUFFICES ASSUME FormatExpands, [KlibNext]_klib PROVE FormatExpands'
    OBVIOUS
  <2>1. CASE log_call
    <3>1. PICK pieces \in Formats :
            klib' = [fn |-> "log_printf", pieces |-> pieces,
                     str |-> written(FmtOf(pieces), ArgsOf(pieces))]
      BY <2>1 DEF log_call
    <3>2. klib'.pieces = pieces /\ klib'.str = written(FmtOf(pieces), ArgsOf(pieces))
      BY <3>1
    <3>3. kernel_vsprintf(FmtOf(pieces), ArgsOf(pieces)) = TextOf(pieces)
      BY PiecesFormatted
    <3>4. Len(TextOf(pieces)) < StrBufSize => klib'.str = TextOf(pieces)
      BY <3>2, <3>3 DEF written
    <3> QED BY <3>2, <3>4 DEF FormatExpands
  <2>2. CASE strncpy_call \/ itoa_call \/ int_to_str_call \/ Returned
    <3>1. klib'.fn # "log_printf"
      BY <2>2 DEF strncpy_call, itoa_call, int_to_str_call, Returned, NoCall
    <3> QED BY <3>1 DEF FormatExpands
  <2>3. CASE UNCHANGED klib
    BY <2>3 DEF FormatExpands
  <2> QED BY <2>1, <2>2, <2>3 DEF KlibNext
<1> QED BY <1>1, <1>2, PTL DEF KlibSpec
=============================================================================
