---------------------------- MODULE RelaySession ----------------------------
(***************************************************************************)
(* How cast-server stays subscribed to the topics it has on record.        *)
(*                                                                         *)
(* The relay forgets a connection's subscriptions when the connection is   *)
(* gone.  The websocket service (websocket_service/mod.rs) therefore        *)
(* connects, reads the topics back from the database and subscribes them   *)
(* again in batches; it then takes events one at a time from an unbounded  *)
(* channel the relay client fills (wsclient.rs).  Meanwhile HTTP requests, *)
(* and the service's own message handlers, write a topic to the database   *)
(* and subscribe it in a second step, over whatever connection there is.   *)
(*                                                                         *)
(* Of a message only what it does to topics is kept: push_subscribe writes *)
(* and subscribes one, push_delete removes and unsubscribes one, an        *)
(* unknown tag does neither, as an unreadable push_subscribe does, and     *)
(* push_update does one or the other: the entry of its key mostly exists.  *)
(* A chunk is read from the cursor as the table was when find returned.    *)
(***************************************************************************)
EXTENDS Naturals, Sequences, FiniteSets

CONSTANTS
  LookupTopics,   \* topics of client keys
  ProjectTopics,  \* topics of project keys
  Projects,
  Requests,       \* concurrent HTTP requests
  None,
  BatchSize,      \* MAX_SUBSCRIPTION_BATCH_SIZE
  MaxEvents,      \* bound: messages are delivered only to a shorter channel
  MaxFaults       \* bound: lost connections, relay and database errors, crashes

ASSUME RelaySessionAssumption ==
  /\ LookupTopics \cap ProjectTopics = {}
  /\ None \notin LookupTopics \cup ProjectTopics
  /\ BatchSize \in Nat \ {0}
  /\ MaxEvents \in Nat
  /\ MaxFaults \in Nat

RelayTopics == LookupTopics \cup ProjectTopics
OptTopic == RelayTopics \cup {None}

Event == [kind : {"Connected", "Disconnected", "Error", "message"}]
         \cup [kind : {"delete"}, topic : LookupTopics]

Reconnecting == {"connect", "sleep", "stopped"}
Resubscribing == {"find_lookup", "lookup", "find_projects", "projects"}
Handling == {"subscribe", "unsubscribe", "webhook"}
LoopStages == Reconnecting \cup Resubscribing \cup Handling \cup {"recv"}

VARIABLES
  lookup_table,  \* topics with a lookup entry
  project_data,  \* topic of each project
  connected,     \* the relay client has an open connection
  subs,          \* topics the relay has subscribed on that connection
  events,        \* the channel from the relay client to the service
  loop,          \* stage of WebsocketService::run
  started,       \* the first connect() of this process succeeded
  cursor,        \* topics resubscribe has still to read
  at,            \* topic the message handler works on
  request,       \* topic each HTTP request has stored and not yet subscribed
  faults,        \* faults so far
  \* History of the open connection, read by no guard:
  refused,       \* topics whose subscription failed or was never tried
  raced          \* topics unsubscribed for a delete after they were stored again

dbVars == <<lookup_table, project_data>>
relayVars == <<connected, subs, refused, raced>>
loopVars == <<loop, started, cursor, at>>
vars == <<dbVars, relayVars, loopVars, events, request, faults>>

Stored == lookup_table \cup ({project_data[p] : p \in Projects} \ {None})

TypeOK ==
  /\ lookup_table \subseteq LookupTopics
  /\ project_data \in [Projects -> ProjectTopics \cup {None}]
  /\ connected \in BOOLEAN
  /\ subs \subseteq RelayTopics
  /\ events \in Seq(Event)
  /\ loop \in LoopStages
  /\ started \in BOOLEAN
  /\ cursor \subseteq RelayTopics
  /\ cursor # {} => loop \in {"lookup", "projects"}
  /\ at \in OptTopic
  /\ IF loop \in {"subscribe", "unsubscribe"} THEN at \in LookupTopics ELSE at = None
  /\ request \in [Requests -> OptTopic]
  /\ faults \in 0..MaxFaults
  /\ refused \subseteq RelayTopics
  /\ raced \subseteq RelayTopics
  /\ ~connected => subs = {} /\ refused = {} /\ raced = {}

\* A process starts with what the database holds and nothing else.
Init ==
  /\ lookup_table = {}
  /\ project_data = [p \in Projects |-> None]
  /\ connected = FALSE
  /\ subs = {}
  /\ events = <<>>
  /\ loop = "connect"
  /\ started = FALSE
  /\ cursor = {}
  /\ at = None
  /\ request = [r \in Requests |-> None]
  /\ faults = 0
  /\ refused = {}
  /\ raced = {}

\* A connection opens without subscriptions and takes them with it.
Connection(open) ==
  /\ connected' = open
  /\ subs' = {}
  /\ refused' = {}
  /\ raced' = {}

Fault == faults < MaxFaults /\ faults' = faults + 1

Emit(kind) == events' = Append(events, [kind |-> kind])

-----------------------------------------------------------------------------
(* WebsocketService::connect and the loops around it.                      *)

ConnectOk ==
  /\ loop = "connect"
  /\ Connection(TRUE)
  /\ Emit("Connected")
  /\ loop' = "find_lookup"
  /\ UNCHANGED <<dbVars, started, cursor, at, request, faults>>

\* connect() returns an error: run() retries it after a second, but the very
\* first error ends run(), and with it the select! of bootstap.
GiveUpOnce == loop' = IF started THEN "recv" ELSE "stopped"  \* broken variant: no retry
GiveUp == loop' = IF started THEN "sleep" ELSE "stopped"

\* A failed attempt may or may not cost the connection there was.
ConnectFails ==
  /\ loop = "connect"
  /\ GiveUp
  /\ UNCHANGED relayVars \/ Connection(FALSE)
  /\ UNCHANGED <<dbVars, started, cursor, at, events, request, faults>>

Wake ==
  /\ loop = "sleep"
  /\ loop' = "connect"
  /\ UNCHANGED <<dbVars, relayVars, started, cursor, at, events, request, faults>>

FindLookup ==
  /\ loop = "find_lookup"
  /\ cursor' = lookup_table
  /\ loop' = "lookup"
  /\ UNCHANGED <<dbVars, relayVars, started, at, events, request, faults>>

\* Broken variant: only client topics are read back.
FindNoProjects ==
  /\ loop = "find_projects"
  /\ cursor' = {}
  /\ loop' = "projects"
  /\ UNCHANGED <<dbVars, relayVars, started, at, events, request, faults>>

FindProjects ==
  /\ loop = "find_projects"
  /\ cursor' = {project_data[p] : p \in Projects} \ {None}
  /\ loop' = "projects"
  /\ UNCHANGED <<dbVars, relayVars, started, at, events, request, faults>>

FindFails ==
  /\ loop \in {"find_lookup", "find_projects"}
  /\ Fault
  /\ GiveUp
  /\ UNCHANGED <<dbVars, relayVars, started, cursor, at, events, request>>

\* What a call for the topics S may come to; without a connection it fails.
Subscribed(S) == connected /\ subs' = subs \cup S /\ refused' = refused
NotSubscribed(S) ==
  /\ subs' = subs
  /\ refused' = IF connected THEN refused \cup S ELSE refused

Chunk(S) ==
  /\ Cardinality(S) <= BatchSize
  /\ Cardinality(S) = BatchSize \/ S = cursor

\* An error of batch_subscribe is only logged.
BatchSubscribe ==
  /\ loop \in {"lookup", "projects"}
  /\ cursor # {}
  /\ \E S \in SUBSET cursor :
       /\ Chunk(S)
       /\ cursor' = cursor \ S
       /\ Subscribed(S) \/ NotSubscribed(S)
  /\ UNCHANGED <<dbVars, connected, raced, loop, started, at, events, request, faults>>

\* A cursor that breaks is a cursor that ends: its errors are filtered out.
CursorBreaks ==
  /\ cursor # {}
  /\ cursor' = {}
  /\ NotSubscribed(cursor)
  /\ UNCHANGED <<dbVars, connected, raced, loop, started, at, events, request, faults>>

ExhaustedOrNot == TRUE  \* broken variant: the loop goes on with its cursor open
Exhausted == cursor = {}

CursorEnds ==
  /\ loop \in {"lookup", "projects"}
  /\ Exhausted
  /\ \/ loop = "lookup" /\ loop' = "find_projects" /\ started' = started
     \/ loop = "projects" /\ loop' = "recv" /\ started' = TRUE
  /\ UNCHANGED <<dbVars, relayVars, cursor, at, events, request, faults>>

-----------------------------------------------------------------------------
(* WebsocketService::run takes an event; handle_msg and the handlers.      *)

Take(kinds) ==
  /\ loop = "recv"
  /\ events # <<>>
  /\ Head(events).kind \in kinds
  /\ events' = Tail(events)

\* The events that reconnect; in the broken variant a disconnection is only logged.
ReconnectsOnError(kind) == kind = "Error"
ReconnectsOn(kind) == kind \in {"Disconnected", "Error"}

TakeConnection ==
  /\ Take({"Connected", "Disconnected", "Error"})
  /\ loop' = IF ReconnectsOn(Head(events).kind) THEN "connect" ELSE "recv"
  /\ UNCHANGED <<dbVars, relayVars, started, cursor, at, request, faults>>

\* push_subscribe: an unreadable message is dropped, otherwise a fresh key's
\* topic is stored.
TakeSubscribe ==
  /\ Take({"message"})
  /\ \/ UNCHANGED <<lookup_table, loop, at>>
     \/ \E t \in LookupTopics \ lookup_table :
          /\ lookup_table' = lookup_table \cup {t}
          /\ at' = t
          /\ loop' = "subscribe"
  /\ UNCHANGED <<project_data, relayVars, started, cursor, request, faults>>

\* Broken variant: the entry is looked up and stays.
TakeDeleteKeeps ==
  LET t == Head(events).topic IN
  /\ Take({"delete"})
  /\ \/ t \in lookup_table /\ loop' = "unsubscribe" /\ at' = t
     \/ UNCHANGED <<loop, at>>
  /\ UNCHANGED <<dbVars, relayVars, started, cursor, request, faults>>

\* Broken variant: deletes are handled by a task that resubscribe does not wait for.
TakeDeleteSpawned ==
  LET t == Head(events).topic IN
  /\ loop \in {"recv", "lookup"}
  /\ events # <<>>
  /\ Head(events).kind = "delete"
  /\ events' = Tail(events)
  /\ lookup_table' = lookup_table \ {t}
  /\ subs' = subs \ {t}
  /\ UNCHANGED <<project_data, connected, refused, raced, loopVars, request, faults>>

\* push_delete removes the entry before it knows whether it can read the
\* message or has the client; if not, the topic stays subscribed.
TakeDelete ==
  LET t == Head(events).topic IN
  /\ Take({"delete"})
  /\ lookup_table' = lookup_table \ {t}
  /\ \/ t \in lookup_table /\ loop' = "unsubscribe" /\ at' = t
     \/ UNCHANGED <<loop, at>>
  /\ UNCHANGED <<project_data, relayVars, started, cursor, request, faults>>

\* An invalid account ends register_client before the webhooks.
HandlerSubscribe ==
  /\ loop = "subscribe"
  /\ at' = None
  /\ \/ Subscribed({at}) /\ loop' \in {"webhook", "recv"}
     \/ NotSubscribed({at}) /\ loop' = "recv"
  /\ UNCHANGED <<dbVars, connected, raced, started, cursor, events, request, faults>>

\* An error of unsubscribe is only logged.
HandlerUnsubscribe ==
  /\ loop = "unsubscribe"
  /\ at' = None
  /\ \/ UNCHANGED <<subs, raced>>
     \/ /\ connected
        /\ subs' = subs \ {at}
        /\ raced' = raced \cup ({at} \cap Stored)
  /\ loop' = "webhook"
  /\ UNCHANGED <<dbVars, connected, refused, started, cursor, events, request, faults>>

\* notify_webhook: POSTs without a timeout.
HandlerWebhook ==
  /\ loop = "webhook"
  /\ loop' = "recv"
  /\ UNCHANGED <<dbVars, relayVars, started, cursor, at, events, request, faults>>

-----------------------------------------------------------------------------
(* HTTP requests: register_client and /subscribe-topic, write then         *)
(* subscribe.  A lookup entry that exists is a duplicate and ends the      *)
(* request; project_data is replaced, so a rotated secret drops a topic.   *)

Register(r, t) ==
  /\ request[r] = None
  /\ t \notin lookup_table
  /\ lookup_table' = lookup_table \cup {t}
  /\ request' = [request EXCEPT ![r] = t]
  /\ UNCHANGED <<project_data, relayVars, loopVars, events, faults>>

SubscribeTopic(r, p, t) ==
  /\ request[r] = None
  /\ project_data' = [project_data EXCEPT ![p] = t]
  /\ request' = [request EXCEPT ![r] = t]
  /\ UNCHANGED <<lookup_table, relayVars, loopVars, events, faults>>

\* The subscription succeeds, fails, or is dropped with the request.
RequestSubscribe(r) ==
  /\ request[r] # None
  /\ Subscribed({request[r]}) \/ NotSubscribed({request[r]})
  /\ request' = [request EXCEPT ![r] = None]
  /\ UNCHANGED <<dbVars, connected, loopVars, raced, events, faults>>

-----------------------------------------------------------------------------
(* The relay, through the callbacks of RelayConnectionHandler, and the     *)
(* process itself.                                                         *)

DeliverDelete(t) ==
  /\ connected
  /\ t \in subs
  /\ Len(events) < MaxEvents
  /\ events' = Append(events, [kind |-> "delete", topic |-> t])
  /\ UNCHANGED <<dbVars, relayVars, loopVars, request, faults>>

DeliverMessage ==
  /\ connected
  /\ subs # {}
  /\ Len(events) < MaxEvents
  /\ Emit("message")
  /\ UNCHANGED <<dbVars, relayVars, loopVars, request, faults>>

RelayError ==
  /\ Fault
  /\ Emit("Error")
  /\ UNCHANGED <<dbVars, relayVars, loopVars, request>>

ConnectionLost ==
  /\ Fault
  /\ connected
  /\ Connection(FALSE)
  /\ Emit("Disconnected")
  /\ UNCHANGED <<dbVars, loopVars, request>>

\* The next process: the service is run with a desired count of one.
Restart ==
  /\ Connection(FALSE)
  /\ events' = <<>>
  /\ loop' = "connect"
  /\ started' = FALSE
  /\ cursor' = {}
  /\ at' = None
  /\ request' = [r \in Requests |-> None]
  /\ UNCHANGED dbVars

Crash == Fault /\ Restart
StartAgain == loop = "stopped" /\ Restart /\ faults' = faults

-----------------------------------------------------------------------------
Loop ==
  \/ ConnectOk \/ ConnectFails \/ Wake
  \/ FindLookup \/ FindProjects \/ FindFails \/ BatchSubscribe \/ CursorBreaks \/ CursorEnds
  \/ TakeConnection \/ TakeSubscribe \/ TakeDelete
  \/ HandlerSubscribe \/ HandlerUnsubscribe

Http(r) ==
  \/ \E t \in LookupTopics : Register(r, t)
  \/ \E p \in Projects, t \in ProjectTopics : SubscribeTopic(r, p, t)
  \/ RequestSubscribe(r)

Environment ==
  \/ \E t \in LookupTopics : DeliverDelete(t)
  \/ DeliverMessage
  \/ RelayError \/ ConnectionLost

Running ==
  \/ Loop
  \/ HandlerWebhook
  \/ \E r \in Requests : Http(r)
  \/ Environment

Next == Running \/ Crash \/ StartAgain

(***************************************************************************)
(* tokio polls the service whenever it can go on, and every request until  *)
(* it ends; a stopped server is started again.  The relay and the database *)
(* do not refuse forever.  Nothing makes a webhook answer.                 *)
(***************************************************************************)
Fairness ==
  /\ WF_vars(Loop)
  /\ SF_vars(ConnectOk)
  /\ SF_vars(FindLookup)
  /\ SF_vars(FindProjects)
  /\ WF_vars(StartAgain)
  /\ \A r \in Requests : WF_vars(RequestSubscribe(r))

Spec == Init /\ [][Next]_vars
FairSpec == Spec /\ Fairness

-----------------------------------------------------------------------------
Subscribing(t) ==
  \/ loop = "subscribe" /\ at = t
  \/ \E r \in Requests : request[r] = t

\* resubscribe has yet to read t.
StillToCome(t) ==
  \/ loop \in Reconnecting \cup {"find_lookup"}
  \/ loop \in {"lookup", "find_projects"} /\ t \in ProjectTopics
  \/ t \in cursor

(* While there is a connection, every topic on record is subscribed on it, *)
(* is about to be by the request or handler that stored it, or has yet to  *)
(* be read by resubscribe; the exceptions are the subscriptions that       *)
(* failed, whose errors resubscribe swallows, and a topic unsubscribed     *)
(* for a delete after a new registration of it (mod.rs, state.rs,          *)
(* push_delete.rs, subscribe_topic.rs).                                    *)
Coverage ==
  connected =>
    \A t \in Stored : t \in subs \cup refused \cup raced \/ Subscribing(t) \/ StillToCome(t)

\* The client topics requests and the service have still to take to the relay.
RequestTask == [r \in Requests |-> {request[r]} \cap LookupTopics]

ServiceTask ==
  IF loop \in {"subscribe", "unsubscribe"} THEN [to |-> loop, topic |-> {at}]
                                           ELSE [to |-> "nothing", topic |-> {}]

Records == INSTANCE TopicRecords WITH
  Topics <- LookupTopics,
  entries <- lookup_table,
  request <- RequestTask,
  service <- ServiceTask

(* The session treats the records as Registration does: it subscribes and  *)
(* unsubscribes the topics its own steps put on record and took off, one   *)
(* at a time, and a restart finds every record (mod.rs, state.rs).         *)
RecordsFirst == Records!Spec

(* A client topic that is off record comes to be subscribed again only by  *)
(* the request that had stored it, whose second step is late: resubscribe  *)
(* never brings it back from its cursor, however old that is, and no       *)
(* handler does (mod.rs resubscribe, push_delete.rs, state.rs).            *)
StraysAreLate ==
  [][\A t \in (LookupTopics \ lookup_table) \cap (subs' \ subs) :
       \E r \in Requests : request[r] = t /\ request'[r] = None]_vars

(* The service never waits for messages over a connection that is gone     *)
(* without a Disconnected in its channel to wake it (mod.rs run,           *)
(* wsclient.rs).                                                           *)
DisconnectNoticed ==
  ~connected =>
    \/ loop \in Reconnecting
    \/ \E i \in 1..Len(events) : events[i].kind = "Disconnected"

\* Every webhook POST of a message handler ends.
WebhooksAnswer == []<>(loop # "webhook")

(* A lost connection is replaced, as long as webhook endpoints answer the  *)
(* handler that occupies the loop (mod.rs run).                            *)
Reconnects == WebhooksAnswer => (~connected ~> connected)

(* A topic on record is in the end subscribed, or goes, or is one of the   *)
(* exceptions of Coverage (mod.rs connect, resubscribe).                   *)
EventuallyServed ==
  WebhooksAnswer =>
    \A t \in RelayTopics : t \in Stored ~> (t \notin Stored \/ t \in subs \cup refused \cup raced)
=============================================================================
