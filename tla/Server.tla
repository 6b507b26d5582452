------------------------------- MODULE Server -------------------------------
(***************************************************************************)
(* Registration and the relay session at once: the documents, and the      *)
(* connection whose subscriptions make them reachable.                     *)
(*                                                                         *)
(* The two meet in TopicRecords, which both implement.  A step of          *)
(* Registration that moves what TopicRecords sees is the same step of      *)
(* RelaySession (the push_delete that takes an event and an entry, the     *)
(* request that stores one and then subscribes it); the others interleave, *)
(* and a crash ends both.  RelaySession's lookup_table is the set of       *)
(* topics on record here.                                                  *)
(***************************************************************************)
EXTENDS Registration, Naturals, Sequences

CONSTANTS
  ProjectTopics,
  BatchSize,
  MaxEvents,      \* bounds, as in RelaySession
  MaxFaults

ASSUME ServerAssumption ==
  /\ Topics \cap ProjectTopics = {}
  /\ None \notin Topics \cup ProjectTopics
  /\ BatchSize \in Nat \ {0}
  /\ MaxEvents \in Nat
  /\ MaxFaults \in Nat

VARIABLES project_data, connected, subs, events, loop, started, cursor, at, request, faults,
          refused, raced

\* RelaySession, with its theorems.
Session == INSTANCE RelaySessionProofs WITH
  LookupTopics <- Topics,
  Requests <- Workers,
  lookup_table <- OnRecord

sessionVars == <<project_data, connected, subs, events, loop, started, cursor, at, request,
                 faults, refused, raced>>
tasks == <<OnRecord, RequestTask, ServiceTask>>
serverVars == <<vars, sessionVars>>

\* Both know the same of what is still to be taken to the relay.
InStep ==
  /\ Session!RequestTask = RequestTask
  /\ Session!ServiceTask = ServiceTask

(* Each half has its types, and the halves never differ in what is on its  *)
(* way to the relay.                                                       *)
ServerTypeOK == TypeOK /\ Session!TypeOK /\ InStep

ServerInit == Init /\ Session!Init

Starts(p) == Idle(p) /\ ~Idle(p)'
TakesEvent == events # <<>> /\ events' = Tail(events)

\* The service starts on a message it has in its channel, and takes no other
\* event until it is done with it; a request to subscribe a project's topic is
\* no registration.
Apart ==
  /\ Running
  /\ Starts(WS) => loop = "recv" /\ events # <<>> /\ Head(events).kind = "message"
  /\ \A w \in Workers : Starts(w) => request[w] = None
  /\ UNCHANGED tasks
  /\ UNCHANGED sessionVars

Relaying ==
  /\ UNCHANGED vars
  /\ Session!Running
  /\ TakesEvent => Idle(WS)
  /\ \A w \in Workers : request'[w] # request[w] => Idle(w)
  /\ InStep'

\* A subscription that is followed up succeeded, and a delete that could not
\* be read unsubscribes nothing.
SameOutcome ==
  /\ \A p \in Procs : pc[p] = "subscribe" /\ pc'[p] = "webhook" => job[p].topic \in subs'
  /\ pc[WS] = "delete_client" /\ pc'[WS] = "idle" => subs' = subs

Together ==
  /\ Running
  /\ tasks' # tasks
  /\ Session!Running
  /\ InStep'
  /\ SameOutcome

Stopping == Crash /\ (Session!Crash \/ Session!StartAgain)

ServerNext == Apart \/ Relaying \/ Together \/ Stopping

ServerSpec == ServerInit /\ [][ServerNext]_serverVars

-----------------------------------------------------------------------------
(* A client on record is one whose wallet is heard: while there is a       *)
(* connection, the topic of its key leads to it and is subscribed, or will *)
(* be by the process that stored it or by resubscribe.  The exceptions are *)
(* those of the two parts, and no others come from their working together: *)
(* an operation between its two documents or stopped there, a topic that   *)
(* another client holds, a subscription that failed, and a topic           *)
(* unsubscribed for a delete after it was registered again (state.rs,      *)
(* push_delete.rs, mod.rs).                                                *)
ClientServed ==
  connected =>
    \A c \in Clients :
      clients[c] # None =>
        LET t == TopicOf[clients[c]] IN
        \/ /\ lookup_table[t] = c
           /\ \/ t \in subs \cup refused \cup raced
              \/ Session!Subscribing(t)
              \/ Session!StillToCome(t)
        \/ InFlight(c, t)
        \/ <<c, t>> \in torn
=============================================================================
