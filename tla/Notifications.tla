---------------------------- MODULE Notifications ----------------------------
(***************************************************************************)
(* What POST /:project_id/notify promises a project and its subscribers,   *)
(* without cursors, jobs, futures and timeouts: Notify implements it.      *)
(*                                                                         *)
(* A request names accounts.  While it is open, and for as long as the     *)
(* relay may hold what was sent, each account gets at most one             *)
(* notification, and only under a key its client had, with the type of the *)
(* notification in its scope, at some moment since the request came in.    *)
(* The answer is given at once, sorts every account into one of three      *)
(* sets, and stands.  A request that is refused has reached nobody.        *)
(***************************************************************************)
CONSTANTS Accounts, Keys

VARIABLES
  inScope,    \* <<account, key>> of the clients that want the notification
  unknown,    \* accounts without a client
  status,     \* of the request
  requested,  \* accounts it names
  answer,     \* what its caller is told
  delivered,  \* <<account, key>> the relay accepted
  agreed,     \* inScope, at any moment of the request
  absent      \* unknown, at any moment of the request

clientVars == <<inScope, unknown>>
requestVars == <<status, requested, answer>>
seenVars == <<agreed, absent>>
vars == <<clientVars, requestVars, delivered, seenVars>>

Answers == [sent : SUBSET Accounts, failed : SUBSET Accounts, not_found : SUBSET Accounts]
NoAnswer == [sent |-> {}, failed |-> {}, not_found |-> {}]

Reached(a) == \E k \in Keys : <<a, k>> \in delivered

Init ==
  /\ inScope = {}
  /\ unknown = Accounts
  /\ status = "over"
  /\ requested = {}
  /\ answer = NoAnswer
  /\ delivered = {}
  /\ agreed = {}
  /\ absent = {}

Change ==
  /\ inScope' \in SUBSET (Accounts \X Keys)
  /\ unknown' \in SUBSET Accounts
  /\ agreed' = agreed \cup inScope'
  /\ absent' = absent \cup unknown'
  /\ UNCHANGED <<requestVars, delivered>>

Request(S) ==
  /\ status # "open"
  /\ status' = "open"
  /\ requested' = S
  /\ answer' = NoAnswer
  /\ delivered' = {}
  /\ agreed' = inScope
  /\ absent' = unknown
  /\ UNCHANGED clientVars

Deliver(a, k) ==
  /\ status # "refused"
  /\ a \in requested \ answer.not_found
  /\ ~Reached(a)
  /\ <<a, k>> \in agreed
  /\ delivered' = delivered \cup {<<a, k>>}
  /\ UNCHANGED <<clientVars, requestVars, seenVars>>

Sorts(r) ==
  /\ r.sent \cup r.failed \cup r.not_found = requested
  /\ r.sent \cap r.failed = {}
  /\ r.not_found \cap (r.sent \cup r.failed) = {}
  /\ r.not_found \subseteq {a \in absent : ~Reached(a)}
  /\ \A a \in r.sent : \E k \in Keys : <<a, k>> \in agreed

Answer(r) ==
  /\ status = "open"
  /\ Sorts(r)
  /\ status' = "answered"
  /\ answer' = r
  /\ UNCHANGED <<clientVars, requested, delivered, seenVars>>

Refuse ==
  /\ status = "open"
  /\ delivered = {}
  /\ status' = "refused"
  /\ UNCHANGED <<clientVars, requested, answer, delivered, seenVars>>

\* The caller leaves; what was sent may still be delivered.
Leave ==
  /\ status = "open"
  /\ status' = "over"
  /\ UNCHANGED <<clientVars, requested, answer, delivered, seenVars>>

Next ==
  \/ Change
  \/ \E S \in SUBSET Accounts : Request(S)
  \/ \E a \in Accounts, k \in Keys : Deliver(a, k)
  \/ \E r \in Answers : Answer(r)
  \/ Refuse
  \/ Leave

Spec == Init /\ [][Next]_vars
=============================================================================
