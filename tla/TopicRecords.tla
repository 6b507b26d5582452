---------------------------- MODULE TopicRecords ----------------------------
(***************************************************************************)
(* What the records of cast-server and its relay session owe each other,   *)
(* told of topics alone.  Registration follows the documents of a client   *)
(* and RelaySession follows connections; both implement this module, so    *)
(* what RelaySession keeps of a message or a request is what Registration  *)
(* does with it.                                                           *)
(*                                                                         *)
(* Records come first: a topic is subscribed by the very step of work that *)
(* put it on record, and unsubscribed by the one that took it off.  Only   *)
(* the service takes topics off.  Work in progress is lost with a failure  *)
(* or a restart, records are not.                                          *)
(***************************************************************************)
CONSTANTS Topics, Requests

VARIABLES
  entries,  \* topics on record
  request,  \* {topic} each HTTP request is to subscribe, or {}
  service   \* what the websocket service is to do, and with which topic

vars == <<entries, request, service>>

Nothing == [to |-> "nothing", topic |-> {}]
Do(what, t) == [to |-> what, topic |-> {t}]

Init ==
  /\ entries = {}
  /\ request = [r \in Requests |-> {}]
  /\ service = Nothing

Record(t) == t \notin entries /\ entries' = entries \cup {t}

RequestRecords(r, t) ==
  /\ request[r] = {}
  /\ Record(t)
  /\ request' = [request EXCEPT ![r] = {t}]
  /\ service' = service

ServiceRecords(t) ==
  /\ service = Nothing
  /\ Record(t)
  /\ service' = Do("subscribe", t)
  /\ request' = request

\* A message the service cannot read takes the topic off record and no further.
ServiceErases(t) ==
  /\ service = Nothing
  /\ t \in entries
  /\ entries' = entries \ {t}
  /\ service' \in {Do("unsubscribe", t), Nothing}
  /\ request' = request

\* Work ends, done or failed.
RequestEnds(r) ==
  /\ request[r] # {}
  /\ request' = [request EXCEPT ![r] = {}]
  /\ UNCHANGED <<entries, service>>

ServiceEnds ==
  /\ service # Nothing
  /\ service' = Nothing
  /\ UNCHANGED <<entries, request>>

Restart ==
  /\ request' = [r \in Requests |-> {}]
  /\ service' = Nothing
  /\ entries' = entries

Next ==
  \/ \E t \in Topics : ServiceRecords(t) \/ ServiceErases(t)
  \/ \E r \in Requests : RequestEnds(r) \/ \E t \in Topics : RequestRecords(r, t)
  \/ ServiceEnds
  \/ Restart

Spec == Init /\ [][Next]_vars
=============================================================================
