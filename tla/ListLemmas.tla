----------------------------- MODULE ListLemmas -----------------------------
(***************************************************************************)
(* What the list operations do to the nodes linked in a list.              *)
(***************************************************************************)
EXTENDS ListOps, TLAPS

\* An empty list links nothing.
LEMMA EmptyList == Nodes(<<>>) = {} /\ NoRepeat(<<>>)
BY DEF Nodes, NoRepeat

\* The nodes of a list are its members, and a list without nodes is empty.
LEMMA NodesType ==
    ASSUME NEW T, NEW s \in Seq(T)
    PROVE  Nodes(s) \subseteq T /\ (s = <<>> <=> Nodes(s) = {})
BY DEF Nodes

\* list_insert_last links one more node, and a new one does not repeat.
LEMMA InsertLast ==
    ASSUME NEW T, NEW s \in Seq(T), NEW x \in T
    PROVE  /\ list_insert_last(s, x) \in Seq(T)
           /\ list_insert_last(s, x) # <<>>
           /\ Nodes(list_insert_last(s, x)) = Nodes(s) \cup {x}
           /\ NoRepeat(s) /\ x \notin Nodes(s) => NoRepeat(list_insert_last(s, x))
           /\ s # <<>> => Head(list_insert_last(s, x)) = Head(s)
           /\ s = <<>> => Head(list_insert_last(s, x)) = x
<1> DEFINE a == Append(s, x)
<1>1. /\ a \in Seq(T)
      /\ Len(a) = Len(s) + 1
      /\ \A i \in 1..Len(s) : a[i] = s[i]
      /\ a[Len(s) + 1] = x
  OBVIOUS
<1> HIDE DEF a
<1>2. Nodes(a) = Nodes(s) \cup {x}
  <2>1. Len(s) \in Nat
    OBVIOUS
  <2>2. \A y : y \in Nodes(a) => y \in Nodes(s) \cup {x}
    BY <1>1, <2>1 DEF Nodes
  <2>3. \A y : y \in Nodes(s) => y \in Nodes(a)
    BY <1>1, <2>1 DEF Nodes
  <2>4. x \in Nodes(a)
    BY <1>1, <2>1 DEF Nodes
  <2> QED BY <2>2, <2>3, <2>4
<1>3. NoRepeat(s) /\ x \notin Nodes(s) => NoRepeat(a)
  BY <1>1 DEF NoRepeat, Nodes
<1>4. a # <<>> /\ (s # <<>> => Head(a) = Head(s)) /\ (s = <<>> => Head(a) = x)
  BY <1>1
<1> QED BY <1>1, <1>2, <1>3, <1>4 DEF list_insert_last, a

\* The first node is linked, and the others are what list_remove_first leaves.
LEMMA RemoveFirst ==
    ASSUME NEW T, NEW s \in Seq(T), s # <<>>
    PROVE  /\ Head(s) \in Nodes(s)
           /\ list_remove_first(s) \in Seq(T)
           /\ Nodes(list_remove_first(s)) \subseteq Nodes(s)
           /\ Nodes(s) = Nodes(list_remove_first(s)) \cup {Head(s)}
           /\ NoRepeat(s) => /\ NoRepeat(list_remove_first(s))
                             /\ Head(s) \notin Nodes(list_remove_first(s))
<1> DEFINE r == Tail(s)
<1>1. /\ r \in Seq(T)
      /\ Len(s) \in Nat /\ Len(s) > 0
      /\ Len(r) = Len(s) - 1
      /\ \A i \in 1..Len(r) : r[i] = s[i + 1]
      /\ Head(s) = s[1]
  OBVIOUS
<1> HIDE DEF r
<1>2. Head(s) \in Nodes(s)
  BY <1>1 DEF Nodes
<1>3. Nodes(r) \subseteq Nodes(s)
  BY <1>1 DEF Nodes
<1>4. Nodes(s) \subseteq Nodes(r) \cup {Head(s)}
  <2>1. SUFFICES ASSUME NEW i \in 1..Len(s), i # 1
                 PROVE  s[i] \in Nodes(r)
    BY <1>1 DEF Nodes
  <2>2. i - 1 \in 1..Len(r) /\ r[i - 1] = s[i]
    BY <1>1, <2>1
  <2> QED BY <2>2 DEF Nodes
<1>5. NoRepeat(s) => NoRepeat(r) /\ Head(s) \notin Nodes(r)
  BY <1>1 DEF NoRepeat, Nodes
<1> QED BY <1>1, <1>2, <1>3, <1>4, <1>5 DEF list_remove_first, r

\* list_remove of a linked node unlinks that node and no other.
LEMMA Remove ==
    ASSUME NEW T, NEW s \in Seq(T), NEW x
    PROVE  /\ list_remove(s, x) \in Seq(T)
           /\ NoRepeat(s) /\ x \in Nodes(s) =>
                 /\ Nodes(list_remove(s, x)) = Nodes(s) \ {x}
                 /\ NoRepeat(list_remove(s, x))
<1> DEFINE p == Position(s, x)
           n == Len(s)
           r == [i \in 1..(n - 1) |-> IF i < p THEN s[i] ELSE s[i + 1]]
<1>1. list_remove(s, x) = r
  BY DEF list_remove
<1>2. n \in Nat /\ \A i \in 1..n : s[i] \in T
  OBVIOUS
<1> HIDE DEF n, p
<1>3. r \in Seq(T)
  <2>1. CASE n = 0
    <3>1. 1..(n - 1) = {}
      BY <2>1
    <3>2. r = <<>>
      BY <3>1
    <3>3. <<>> \in Seq(T)
      OBVIOUS
    <3> HIDE DEF r
    <3> QED BY <3>2, <3>3
  <2>2. CASE n # 0
    <3>1. n - 1 \in Nat /\ \A i \in 1..(n - 1) : r[i] \in T
      BY <1>2, <2>2
    <3> QED BY <3>1
  <2> QED BY <2>1, <2>2
<1>4. ASSUME NoRepeat(s), x \in Nodes(s)
      PROVE  Nodes(r) = Nodes(s) \ {x} /\ NoRepeat(r)
  <2>1. p \in 1..n /\ s[p] = x
    BY <1>4 DEF Nodes, Position, p, n
  <2>2. \A i \in 1..n : s[i] = x => i = p
    BY <1>4, <2>1 DEF NoRepeat, n
  <2>3. n - 1 \in Nat /\ Len(r) = n - 1
    <3>1. n - 1 \in Nat
      BY <1>2, <2>1
    <3>2. DOMAIN r = 1..(n - 1)
      OBVIOUS
    <3> QED BY <3>1, <3>2, <1>3
  <2> HIDE DEF r
  <2>4. \A i \in 1..(n - 1) : r[i] = IF i < p THEN s[i] ELSE s[i + 1]
    BY DEF r
  <2>5. ASSUME NEW i \in 1..(n - 1)
        PROVE  r[i] \in Nodes(s) \ {x}
    <3>1. CASE i < p
      BY <1>2, <2>1, <2>2, <2>4, <3>1 DEF Nodes, n
    <3>2. CASE ~(i < p)
      <4>1. i + 1 \in 1..n /\ i + 1 # p
        BY <1>2, <2>1, <3>2
      <4> QED BY <2>2, <2>4, <3>2, <4>1 DEF Nodes, n
    <3> QED BY <3>1, <3>2
  <2>6. ASSUME NEW j \in 1..n, s[j] # x
        PROVE  s[j] \in Nodes(r)
    <3>1. CASE j < p
      <4>1. j \in 1..(n - 1) /\ r[j] = s[j]
        BY <1>2, <2>1, <2>4, <3>1
      <4> QED BY <2>3, <4>1 DEF Nodes
    <3>2. CASE ~(j < p)
      <4>1. j > p
        BY <2>1, <2>6, <3>2
      <4>2. j - 1 \in 1..(n - 1) /\ ~(j - 1 < p)
        BY <1>2, <2>1, <4>1
      <4>3. r[j - 1] = s[(j - 1) + 1] /\ (j - 1) + 1 = j
        BY <2>4, <4>2
      <4> QED BY <2>3, <4>2, <4>3 DEF Nodes
    <3> QED BY <3>1, <3>2
  <2>7. Nodes(r) = Nodes(s) \ {x}
    BY <2>3, <2>5, <2>6 DEF Nodes, n
  <2>8. ASSUME NEW i \in 1..(n - 1), NEW j \in 1..(n - 1), r[i] = r[j]
        PROVE  i = j
    <3>1. \A k, l \in 1..n : s[k] = s[l] => k = l
      BY <1>4 DEF NoRepeat, n
    <3> QED BY <1>2, <2>1, <2>4, <2>8, <3>1
  <2> QED BY <2>3, <2>7, <2>8 DEF NoRepeat
<1> QED BY <1>1, <1>3, <1>4

\* The node after a linked node is linked, and another one.
LEMMA NextNode ==
    ASSUME NEW T, NEW s \in Seq(T), NEW null, NEW x \in Nodes(s)
    PROVE  LET y == list_node_next(s, x, null)
           IN  /\ y \in Nodes(s) \cup {null}
               /\ NoRepeat(s) /\ y \in Nodes(s) /\ x # null => y # x \/ y = null
<1> DEFINE p == Position(s, x)
<1>1. p \in 1..Len(s) /\ s[p] = x
  BY DEF Nodes, Position
<1> HIDE DEF p
<1>2. list_node_next(s, x, null) = IF p = Len(s) THEN null ELSE s[p + 1]
  BY DEF list_node_next, p
<1>3. CASE p = Len(s)
  BY <1>2, <1>3
<1>4. CASE p # Len(s)
  <2>1. p + 1 \in 1..Len(s)
    BY <1>1, <1>4
  <2> QED BY <1>1, <1>2, <1>4, <2>1 DEF Nodes, NoRepeat
<1> QED BY <1>3, <1>4
=============================================================================
