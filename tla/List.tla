-------------------------------- MODULE List --------------------------------
(***************************************************************************)
(* tools/list.c down to its pointers.  The other modules treat a list_t as *)
(* the sequence of its nodes (ListOps); here is the code that has to keep  *)
(* it one: first, last and count in each list, pre and next in each node,  *)
(* where a node (run_node) moves between several lists.                    *)
(*                                                                         *)
(* view is what the callers take the lists to be.  It decides which calls  *)
(* are legal - a node is inserted only when it is linked nowhere, removed  *)
(* only from the list it is linked in - and is changed by ListOps alone,   *)
(* never read by the pointer code.                                         *)
(***************************************************************************)
EXTENDS ListOps

CONSTANTS
    ListId,       \* the lists that share the nodes (ready_list and sleep_list)
    Node,
    Null

ASSUME ListAssumption == Null \notin Node

VARIABLES
    first, last, count,   \* the fields of each list_t
    pre, next,            \* the fields of each list_node_t
    view

ptrVars == <<first, last, count, pre, next>>
listVars == <<ptrVars, view>>

\* n is linked in no list.
Unlinked(n) == \A l \in ListId : n \notin Nodes(view[l])

list_is_empty(l) == count[l] = 0

\* list_init and list_node_init.
ListInit ==
    /\ first = [l \in ListId |-> Null]
    /\ last = [l \in ListId |-> Null]
    /\ count = [l \in ListId |-> 0]
    /\ pre = [n \in Node |-> Null]
    /\ next = [n \in Node |-> Null]
    /\ view = [l \in ListId |-> <<>>]

\* p->field = q, for a pointer p that may be null.  A write through the null pointer
\* is undefined; it is left out here, and Represents shows that none happens.
Put(field, p, q) == [x \in Node |-> IF x = p THEN q ELSE field[x]]

-----------------------------------------------------------------------------
(* The pointer code.                                                       *)

\* Mutant: the count is not incremented.
Mutant_ptr_insert_first(l, n) ==
    /\ next' = Put(next, n, first[l])
    /\ pre' = IF list_is_empty(l)
              THEN Put(pre, n, Null)
              ELSE Put(Put(pre, n, Null), first[l], n)
    /\ last' = IF list_is_empty(l) THEN [last EXCEPT ![l] = n] ELSE last
    /\ first' = [first EXCEPT ![l] = n]
    /\ UNCHANGED count

ptr_insert_first(l, n) ==
    /\ next' = Put(next, n, first[l])
    /\ pre' = IF list_is_empty(l)
              THEN Put(pre, n, Null)
              ELSE Put(Put(pre, n, Null), first[l], n)
    /\ last' = IF list_is_empty(l) THEN [last EXCEPT ![l] = n] ELSE last
    /\ first' = [first EXCEPT ![l] = n]
    /\ count' = [count EXCEPT ![l] = @ + 1]

ptr_insert_last(l, n) ==
    /\ pre' = Put(pre, n, last[l])
    /\ next' = IF list_is_empty(l)
               THEN Put(next, n, Null)
               ELSE Put(Put(next, n, Null), last[l], n)
    /\ first' = IF list_is_empty(l) THEN [first EXCEPT ![l] = n] ELSE first
    /\ last' = [last EXCEPT ![l] = n]
    /\ count' = [count EXCEPT ![l] = @ + 1]

\* Mutant: the pointers of the node taken out stay.
Mutant_ptr_remove_first(l) ==
    LET n == first[l]
    IN  /\ ~list_is_empty(l)
        /\ first' = [first EXCEPT ![l] = next[n]]
        /\ last' = IF next[n] = Null THEN [last EXCEPT ![l] = Null] ELSE last
        /\ pre' = Put(pre, next[n], Null)
        /\ count' = [count EXCEPT ![l] = @ - 1]
        /\ UNCHANGED next

\* An empty list is left alone (the code returns the null pointer).
ptr_remove_first(l) ==
    LET n == first[l]
    IN  /\ ~list_is_empty(l)
        /\ first' = [first EXCEPT ![l] = next[n]]
        /\ last' = IF next[n] = Null THEN [last EXCEPT ![l] = Null] ELSE last
        /\ pre' = Put(Put(pre, next[n], Null), n, Null)
        /\ next' = Put(next, n, Null)
        /\ count' = [count EXCEPT ![l] = @ - 1]

\* Mutant: last is not moved back when the last node goes.
Mutant_ptr_remove(l, n) ==
    /\ first' = IF n = first[l] THEN [first EXCEPT ![l] = next[n]] ELSE first
    /\ next' = Put(Put(next, pre[n], next[n]), n, Null)
    /\ pre' = Put(Put(pre, next[n], pre[n]), n, Null)
    /\ count' = [count EXCEPT ![l] = @ - 1]
    /\ UNCHANGED last

ptr_remove(l, n) ==
    /\ first' = IF n = first[l] THEN [first EXCEPT ![l] = next[n]] ELSE first
    /\ last' = IF n = last[l] THEN [last EXCEPT ![l] = pre[n]] ELSE last
    /\ next' = Put(Put(next, pre[n], next[n]), n, Null)
    /\ pre' = Put(Put(pre, next[n], pre[n]), n, Null)
    /\ count' = [count EXCEPT ![l] = @ - 1]

-----------------------------------------------------------------------------
(* The legal calls.                                                        *)

InsertFirstCall(l, n) ==
    /\ Unlinked(n)
    /\ ptr_insert_first(l, n)
    /\ view' = [view EXCEPT ![l] = list_insert_first(@, n)]

InsertLastCall(l, n) ==
    /\ Unlinked(n)
    /\ ptr_insert_last(l, n)
    /\ view' = [view EXCEPT ![l] = list_insert_last(@, n)]

RemoveFirstCall(l) ==
    /\ view[l] # <<>>
    /\ ptr_remove_first(l)
    /\ view' = [view EXCEPT ![l] = list_remove_first(@)]

RemoveCall(l, n) ==
    /\ n \in Nodes(view[l])
    /\ ptr_remove(l, n)
    /\ view' = [view EXCEPT ![l] = list_remove(@, n)]

ListNext ==
    \E l \in ListId :
        \/ RemoveFirstCall(l)
        \/ \E n \in Node : InsertFirstCall(l, n) \/ InsertLastCall(l, n) \/ RemoveCall(l, n)

ListSpec == ListInit /\ [][ListNext]_listVars

-----------------------------------------------------------------------------
(* What the pointers have to be.                                           *)

\* The pointer fields hold nodes or the null pointer, and the counts are naturals.
ListTypeOK ==
    /\ first \in [ListId -> Node \cup {Null}]
    /\ last \in [ListId -> Node \cup {Null}]
    /\ count \in [ListId -> Nat]
    /\ pre \in [Node -> Node \cup {Null}]
    /\ next \in [Node -> Node \cup {Null}]
    /\ view \in [ListId -> Seq(Node)]

\* The pointers of list l are those of its view.
Rep(l) ==
    /\ count[l] = list_count(view[l])
    /\ first[l] = list_first(view[l], Null)
    /\ last[l] = IF view[l] = <<>> THEN Null ELSE view[l][Len(view[l])]
    /\ \A i \in 1..Len(view[l]) :
          /\ next[view[l][i]] = (IF i = Len(view[l]) THEN Null ELSE view[l][i + 1])
          /\ pre[view[l][i]] = (IF i = 1 THEN Null ELSE view[l][i - 1])

\* Represents: whatever was inserted and removed, in whichever of the lists that share
\* the nodes, the pointers of a list are those of the sequence its callers take it for:
\* count is its length, first and last are its ends, and pre and next lead from each
\* node to its neighbours.  list_count, list_first and list_node_next then answer what
\* ListOps says, and the insertions write through no null pointer.
Represents == \A l \in ListId : Rep(l)

\* LinkedOnce: a node is linked once, in one list: what the guards of the legal calls
\* are for, and what the pointer code relies on.
LinkedOnce ==
    /\ \A l \in ListId : NoRepeat(view[l])
    /\ \A l, k \in ListId : l # k => Nodes(view[l]) \cap Nodes(view[k]) = {}

\* UnlinkedClear: a node that is linked nowhere has null pointers, so nothing left in
\* it leads into a list it has been taken out of.
UnlinkedClear == \A n \in Node : Unlinked(n) => pre[n] = Null /\ next[n] = Null

\* The inductive invariant.
ListInv == ListTypeOK /\ Represents /\ LinkedOnce /\ UnlinkedClear
=============================================================================
