------------------------------ MODULE MCNotify ------------------------------
(***************************************************************************)
(* Small instances of Notify.                                              *)
(***************************************************************************)
EXTENDS Notify

CONSTANTS a1, a2, k1, k2, bad
=============================================================================
