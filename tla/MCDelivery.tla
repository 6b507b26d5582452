----------------------------- MODULE MCDelivery -----------------------------
(***************************************************************************)
(* Small instances of Delivery.                                            *)
(***************************************************************************)
EXTENDS Delivery, TLC

CONSTANTS p1, a1, k1, m1, t1, t3, w1

MCTopicOf == [k \in Keys |-> IF k = m1 THEN t3 ELSE t1]

\* Registration's torn, which is history, is not looked at here.
MCView == <<clients, lookup_table, pc, job, minted, told, cut, scoped, requestVars, seenVars,
            historyVars>>
=============================================================================
