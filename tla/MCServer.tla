------------------------------ MODULE MCServer ------------------------------
(***************************************************************************)
(* Small instances of Server.                                              *)
(***************************************************************************)
EXTENDS Server, TLC

CONSTANTS p1, a1, m1, t3, q1, w1

MCTopicOf == [k \in Keys |-> t3]
=============================================================================
