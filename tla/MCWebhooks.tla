----------------------------- MODULE MCWebhooks -----------------------------
(***************************************************************************)
(* Small instances of Webhooks.                                            *)
(***************************************************************************)
EXTENDS Webhooks, TLC

CONSTANTS i1, i2, p1, p2, u1, u2

Symmetry == Permutations(Ids) \cup Permutations(Projects)
=============================================================================
