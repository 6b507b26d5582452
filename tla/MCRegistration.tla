--------------------------- MODULE MCRegistration ---------------------------
(***************************************************************************)
(* Small instances of Registration.                                        *)
(***************************************************************************)
EXTENDS Registration, TLC

CONSTANTS p1, a1, a2, k1, m1, t1, t3, w1

MCTopicOf == [k \in Keys |-> IF k = m1 THEN t3 ELSE t1]
=============================================================================
