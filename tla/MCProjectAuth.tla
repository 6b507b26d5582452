---------------------------- MODULE MCProjectAuth ----------------------------
(***************************************************************************)
(* Small instances of ProjectAuth.                                         *)
(***************************************************************************)
EXTENDS ProjectAuth, TLC

CONSTANTS c1, c2, c3, r1, r2

\* Two of one text.
MCPairs == {<<<<c1>>, <<c2, c3>>>>, <<<<c1, c2>>, <<c3>>>>}

Symmetry == Permutations(Requests)
=============================================================================
