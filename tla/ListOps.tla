------------------------------ MODULE ListOps ------------------------------
(***************************************************************************)
(* What the lists of tools/list.c promise their callers: a list_t is the   *)
(* sequence of the nodes linked in it, first to last.  Module List shows   *)
(* that the pointer code keeps that promise; Task, Mutex and Sem call the  *)
(* lists through these operators.                                          *)
(***************************************************************************)
EXTENDS Naturals, Sequences

\* The nodes linked in the list.
Nodes(s) == {s[i] : i \in 1..Len(s)}

\* No node is linked twice.
NoRepeat(s) == \A i, j \in 1..Len(s) : s[i] = s[j] => i = j

\* Where node n is linked (n must be in the list).
Position(s, n) == CHOOSE i \in 1..Len(s) : s[i] = n

list_count(s) == Len(s)

\* list_first: the first node, or the null pointer.
list_first(s, null) == IF s = <<>> THEN null ELSE Head(s)

\* list_node_next: the node after n, or the null pointer.
list_node_next(s, n, null) ==
    IF Position(s, n) = Len(s) THEN null ELSE s[Position(s, n) + 1]

list_insert_first(s, n) == <<n>> \o s

list_insert_last(s, n) == Append(s, n)

\* list_remove unlinks n.  Its contract is that n is linked in this very list.
list_remove(s, n) ==
    LET p == Position(s, n)
    IN  [i \in 1..(Len(s) - 1) |-> IF i < p THEN s[i] ELSE s[i + 1]]

\* list_remove_first: what is left of a nonempty list without its first node.
list_remove_first(s) == Tail(s)
=============================================================================
