------------------------------ MODULE MCTools -------------------------------
(* The lists, the page allocator and the library functions for TLC.  They  *)
(* share nothing: each is used while the others are as they were at first. *)
EXTENDS List, Klib, PageAlloc, TLC

CharSeqs(n) == UNION {[1..k -> {"a", "b"}] : k \in 0..n}

MCStrings == CharSeqs(4)

Piece(f, a, t) == [fmt |-> f, args |-> a, text |-> t]

MCPieces == {
    Piece(<<"d">>, <<>>, <<"d">>),
    Piece(<<"%", "s">>, << <<>> >>, <<>>),
    Piece(<<"%", "s">>, << <<"a", "%">> >>, <<"a", "%">>),
    Piece(<<"%", "c">>, <<"c">>, <<"c">>),
    Piece(<<"%", "d">>, <<-12>>, <<"-", "1", "2">>),
    Piece(<<"%", "d">>, <<0>>, <<"0">>),
    Piece(<<"%", "x">>, <<31>>, <<"1", "F">>) }

MCFormats == UNION {[1..k -> MCPieces] : k \in 0..3}

ToolsInit == ListInit /\ KlibInit /\ AllocInit

ListsEmpty == \A l \in ListId : view[l] = <<>>

ToolsNext ==
    \/ klib = NoCall /\ AllocInit /\ ListNext /\ UNCHANGED <<klib, vars>>
    \/ ListsEmpty /\ AllocInit /\ KlibNext /\ UNCHANGED <<listVars, vars>>
    \/ klib = NoCall /\ ListsEmpty /\ AllocNext /\ UNCHANGED <<listVars, klib>>

ToolsSpec == ToolsInit /\ [][ToolsNext]_<<listVars, klib, vars>>
=============================================================================
