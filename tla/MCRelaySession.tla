--------------------------- MODULE MCRelaySession ---------------------------
(***************************************************************************)
(* Small instances of RelaySession.                                        *)
(***************************************************************************)
EXTENDS RelaySession

CONSTANTS l1, l2, q1, p1, r1
=============================================================================
