------------------------- MODULE RelaySessionProofs -------------------------
(***************************************************************************)
(* Safety of RelaySession, for any topics, projects, requests and bounds.  *)
(***************************************************************************)
EXTENDS RelaySession, TLAPS

USE RelaySessionAssumption DEF RelayTopics, OptTopic

-----------------------------------------------------------------------------
LEMMA TypeOKNext == TypeOK /\ [Next]_vars => TypeOK'
<1> SUFFICES ASSUME TypeOK, [Next]_vars PROVE TypeOK'
  OBVIOUS
<1> USE DEF TypeOK, dbVars, relayVars, loopVars, LoopStages, Reconnecting, Resubscribing, Handling
<1>1. CASE ConnectOk
  BY <1>1 DEF ConnectOk, Connection, Emit, Event
<1>2. CASE ConnectFails
  BY <1>2 DEF ConnectFails, GiveUp, Connection
<1>3. CASE Wake
  BY <1>3 DEF Wake
<1>4. CASE FindLookup
  BY <1>4 DEF FindLookup
<1>5. CASE FindProjects
  BY <1>5 DEF FindProjects
<1>6. CASE FindFails
  BY <1>6 DEF FindFails, GiveUp, Fault
<1>7. CASE BatchSubscribe
  BY <1>7 DEF BatchSubscribe, Subscribed, NotSubscribed, Chunk
<1>8. CASE CursorBreaks
  BY <1>8 DEF CursorBreaks, NotSubscribed
<1>9. CASE CursorEnds
  BY <1>9 DEF CursorEnds, Exhausted
<1>10. CASE TakeConnection
  BY <1>10 DEF TakeConnection, Take, ReconnectsOn, Event
<1>11. CASE TakeSubscribe
  BY <1>11 DEF TakeSubscribe, Take, Event
<1>12. CASE TakeDelete
  BY <1>12 DEF TakeDelete, Take, Event
<1>13. CASE HandlerSubscribe
  BY <1>13 DEF HandlerSubscribe, Subscribed, NotSubscribed
<1>14. CASE HandlerUnsubscribe
  BY <1>14 DEF HandlerUnsubscribe
<1>15. CASE HandlerWebhook
  BY <1>15 DEF HandlerWebhook
<1>16. ASSUME NEW r \in Requests, NEW t \in LookupTopics, Register(r, t)
      PROVE  TypeOK'
  BY <1>16 DEF Register
<1>17. ASSUME NEW r \in Requests, NEW p \in Projects, NEW t \in ProjectTopics,
           SubscribeTopic(r, p, t)
      PROVE  TypeOK'
  BY <1>17 DEF SubscribeTopic
<1>18. ASSUME NEW r \in Requests, RequestSubscribe(r)
      PROVE  TypeOK'
  BY <1>18 DEF RequestSubscribe, Subscribed, NotSubscribed
<1>19. ASSUME NEW t \in LookupTopics, DeliverDelete(t)
      PROVE  TypeOK'
  BY <1>19 DEF DeliverDelete, Event
<1>20. CASE DeliverMessage
  BY <1>20 DEF DeliverMessage, Emit, Event
<1>21. CASE RelayError
  BY <1>21 DEF RelayError, Emit, Fault, Event
<1>22. CASE ConnectionLost
  <2>1. events' \in Seq(Event)
    BY <1>22 DEF ConnectionLost, Emit, Event
  <2>2. faults' \in 0..MaxFaults
    BY <1>22 DEF ConnectionLost, Fault
  <2> QED
    BY <2>1, <2>2, <1>22 DEF ConnectionLost, Connection
<1>23. CASE Crash
  <2>1. events' = <<>> /\ events' \in Seq(Event)
    BY <1>23 DEF Crash, Restart
  <2>2. request' \in [Requests -> OptTopic]
    BY <1>23 DEF Crash, Restart
  <2>3. faults' \in 0..MaxFaults
    BY <1>23 DEF Crash, Restart, Fault
  <2> QED
    BY <2>1, <2>2, <2>3, <1>23 DEF Crash, Restart, Connection, Fault
<1>24. CASE StartAgain
  <2>1. events' = <<>> /\ events' \in Seq(Event)
    BY <1>24 DEF StartAgain, Restart
  <2>2. request' \in [Requests -> OptTopic]
    BY <1>24 DEF StartAgain, Restart
  <2>3. faults' \in 0..MaxFaults
    BY <1>24 DEF StartAgain, Restart, Fault
  <2> QED
    BY <2>1, <2>2, <2>3, <1>24 DEF StartAgain, Restart, Connection
<1>25. CASE UNCHANGED vars
  BY <1>25 DEF vars
<1> QED
  BY <1>1, <1>2, <1>3, <1>4, <1>5, <1>6, <1>7, <1>8, <1>9,
     <1>10, <1>11, <1>12, <1>13, <1>14, <1>15, <1>16, <1>17, <1>18,
     <1>19, <1>20, <1>21, <1>22, <1>23, <1>24, <1>25
     DEF Next, Running, Loop, Http, Environment

(* Every variable keeps its type, the cursor is open only while it is read *)
(* and nothing survives a lost connection (websocket_service/mod.rs).      *)
THEOREM TypeCorrect == Spec => []TypeOK
<1>1. Init => TypeOK
  <2> SUFFICES ASSUME Init PROVE TypeOK
    OBVIOUS
  <2>1. events \in Seq(Event) /\ faults \in 0..MaxFaults
    BY DEF Init
  <2>2. /\ request \in [Requests -> OptTopic]
        /\ project_data \in [Projects -> ProjectTopics \cup {None}]
    BY DEF Init
  <2> QED
    BY <2>1, <2>2 DEF Init, TypeOK, LoopStages, Reconnecting
<1>2. QED
  BY <1>1, TypeOKNext, PTL DEF Spec

-----------------------------------------------------------------------------
LEMMA CoverageNext == TypeOK /\ Coverage /\ [Next]_vars => Coverage'
<1> SUFFICES ASSUME TypeOK, Coverage, [Next]_vars PROVE Coverage'
  OBVIOUS
<1> USE DEF TypeOK, Coverage, Stored, Subscribing, StillToCome, dbVars, relayVars, loopVars,
            Reconnecting
<1>1. CASE ConnectOk
  BY <1>1 DEF ConnectOk, Connection, Emit
<1>2. CASE ConnectFails
  BY <1>2 DEF ConnectFails, GiveUp, Connection
<1>3. CASE Wake
  BY <1>3 DEF Wake
<1>4. CASE FindLookup
  BY <1>4 DEF FindLookup
<1>5. CASE FindProjects
  BY <1>5 DEF FindProjects
<1>6. CASE FindFails
  BY <1>6 DEF FindFails, GiveUp, Fault
<1>7. CASE BatchSubscribe
  BY <1>7 DEF BatchSubscribe, Subscribed, NotSubscribed, Chunk
<1>8. CASE CursorBreaks
  BY <1>8 DEF CursorBreaks, NotSubscribed
<1>9. CASE CursorEnds
  BY <1>9 DEF CursorEnds, Exhausted
<1>10. CASE TakeConnection
  BY <1>10 DEF TakeConnection, Take, ReconnectsOn
<1>11. CASE TakeSubscribe
  BY <1>11 DEF TakeSubscribe, Take
<1>12. CASE TakeDelete
  BY <1>12 DEF TakeDelete, Take
<1>13. CASE HandlerSubscribe
  BY <1>13 DEF HandlerSubscribe, Subscribed, NotSubscribed
<1>14. CASE HandlerUnsubscribe
  BY <1>14 DEF HandlerUnsubscribe
<1>15. CASE HandlerWebhook
  BY <1>15 DEF HandlerWebhook
<1>16. ASSUME NEW r \in Requests, NEW t \in LookupTopics, Register(r, t)
      PROVE  Coverage'
  BY <1>16 DEF Register
<1>17. ASSUME NEW r \in Requests, NEW p \in Projects, NEW t \in ProjectTopics,
           SubscribeTopic(r, p, t)
      PROVE  Coverage'
  BY <1>17 DEF SubscribeTopic
<1>18. ASSUME NEW r \in Requests, RequestSubscribe(r)
      PROVE  Coverage'
  BY <1>18 DEF RequestSubscribe, Subscribed, NotSubscribed
<1>19. ASSUME NEW t \in LookupTopics, DeliverDelete(t)
      PROVE  Coverage'
  BY <1>19 DEF DeliverDelete
<1>20. CASE DeliverMessage
  BY <1>20 DEF DeliverMessage, Emit
<1>21. CASE RelayError
  BY <1>21 DEF RelayError, Emit, Fault
<1>22. CASE ConnectionLost
  BY <1>22 DEF ConnectionLost, Connection, Emit, Fault
<1>23. CASE Crash
  BY <1>23 DEF Crash, Restart, Connection, Fault
<1>24. CASE StartAgain
  BY <1>24 DEF StartAgain, Restart, Connection
<1>25. CASE UNCHANGED vars
  BY <1>25 DEF vars
<1> QED
  BY <1>1, <1>2, <1>3, <1>4, <1>5, <1>6, <1>7, <1>8, <1>9,
     <1>10, <1>11, <1>12, <1>13, <1>14, <1>15, <1>16, <1>17, <1>18,
     <1>19, <1>20, <1>21, <1>22, <1>23, <1>24, <1>25
     DEF Next, Running, Loop, Http, Environment

(* With a connection, every topic on record is subscribed, about to be, or *)
(* one whose subscription failed: no interleaving of requests, messages,   *)
(* reconnections and crashes leaves one out (mod.rs connect, resubscribe). *)
THEOREM TopicsStayCovered == Spec => []Coverage
<1>1. Init => Coverage
  BY DEF Init, Coverage
<1>2. QED
  BY <1>1, CoverageNext, TypeCorrect, PTL DEF Spec

-----------------------------------------------------------------------------
\* Taking an event that is no Disconnected leaves every Disconnected in the channel.
LEMMA TakeKeepsDisconnected ==
  ASSUME TypeOK, events # <<>>, events' = Tail(events), Head(events).kind # "Disconnected",
         NEW i \in 1..Len(events), events[i].kind = "Disconnected"
  PROVE  \E j \in 1..Len(events') : events'[j].kind = "Disconnected"
<1>1. i # 1 /\ Len(events) \in Nat /\ events \in Seq(Event)
  BY DEF TypeOK
<1>2. i - 1 \in 1..Len(Tail(events)) /\ Tail(events)[i - 1] = events[i]
  BY <1>1
<1> QED
  BY <1>2

LEMMA NoticedNext == TypeOK /\ DisconnectNoticed /\ [Next]_vars => DisconnectNoticed'
<1> SUFFICES ASSUME TypeOK, DisconnectNoticed, [Next]_vars PROVE DisconnectNoticed'
  OBVIOUS
<1> USE DEF TypeOK, DisconnectNoticed, dbVars, relayVars, loopVars, Reconnecting
<1>1. CASE ConnectOk
  BY <1>1 DEF ConnectOk, Connection, Emit
<1>2. CASE ConnectFails
  BY <1>2 DEF ConnectFails, GiveUp, Connection
<1>3. CASE Wake
  BY <1>3 DEF Wake
<1>4. CASE FindLookup
  BY <1>4 DEF FindLookup
<1>5. CASE FindProjects
  BY <1>5 DEF FindProjects
<1>6. CASE FindFails
  BY <1>6 DEF FindFails, GiveUp, Fault
<1>7. CASE BatchSubscribe
  BY <1>7 DEF BatchSubscribe, Subscribed, NotSubscribed, Chunk
<1>8. CASE CursorBreaks
  BY <1>8 DEF CursorBreaks, NotSubscribed
<1>9. CASE CursorEnds
  BY <1>9 DEF CursorEnds, Exhausted
<1>10. CASE TakeConnection
  BY <1>10, TakeKeepsDisconnected DEF TakeConnection, Take, ReconnectsOn
<1>11. CASE TakeSubscribe
  BY <1>11, TakeKeepsDisconnected DEF TakeSubscribe, Take
<1>12. CASE TakeDelete
  BY <1>12, TakeKeepsDisconnected DEF TakeDelete, Take
<1>13. CASE HandlerSubscribe
  BY <1>13 DEF HandlerSubscribe, Subscribed, NotSubscribed
<1>14. CASE HandlerUnsubscribe
  BY <1>14 DEF HandlerUnsubscribe
<1>15. CASE HandlerWebhook
  BY <1>15 DEF HandlerWebhook
<1>16. ASSUME NEW r \in Requests, NEW t \in LookupTopics, Register(r, t)
      PROVE  DisconnectNoticed'
  BY <1>16 DEF Register
<1>17. ASSUME NEW r \in Requests, NEW p \in Projects, NEW t \in ProjectTopics,
           SubscribeTopic(r, p, t)
      PROVE  DisconnectNoticed'
  BY <1>17 DEF SubscribeTopic
<1>18. ASSUME NEW r \in Requests, RequestSubscribe(r)
      PROVE  DisconnectNoticed'
  BY <1>18 DEF RequestSubscribe, Subscribed, NotSubscribed
<1>19. ASSUME NEW t \in LookupTopics, DeliverDelete(t)
      PROVE  DisconnectNoticed'
  BY <1>19 DEF DeliverDelete
<1>20. CASE DeliverMessage
  BY <1>20 DEF DeliverMessage, Emit
<1>21. CASE RelayError
  BY <1>21 DEF RelayError, Emit, Fault
<1>22. CASE ConnectionLost
  BY <1>22 DEF ConnectionLost, Connection, Emit, Fault
<1>23. CASE Crash
  BY <1>23 DEF Crash, Restart, Connection, Fault
<1>24. CASE StartAgain
  BY <1>24 DEF StartAgain, Restart, Connection
<1>25. CASE UNCHANGED vars
  BY <1>25 DEF vars
<1> QED
  BY <1>1, <1>2, <1>3, <1>4, <1>5, <1>6, <1>7, <1>8, <1>9,
     <1>10, <1>11, <1>12, <1>13, <1>14, <1>15, <1>16, <1>17, <1>18,
     <1>19, <1>20, <1>21, <1>22, <1>23, <1>24, <1>25
     DEF Next, Running, Loop, Http, Environment

(* The service is never left waiting on a connection that is gone: a       *)
(* Disconnected is in its channel or it is reconnecting (mod.rs run).      *)
THEOREM LossIsNoticed == Spec => []DisconnectNoticed
<1>1. Init => DisconnectNoticed
  BY DEF Init, DisconnectNoticed, Reconnecting
<1>2. QED
  BY <1>1, NoticedNext, TypeCorrect, PTL DEF Spec

-----------------------------------------------------------------------------
\* What the service is about to subscribe is on record: only the service takes
\* topics off, and not while it has a cursor open or a topic in hand.
AheadOnRecord ==
  /\ loop = "lookup" => cursor \subseteq lookup_table
  /\ loop = "projects" => cursor \subseteq ProjectTopics
  /\ loop = "subscribe" => at \in lookup_table

LEMMA AheadKeeps ==
  ASSUME AheadOnRecord, lookup_table \subseteq lookup_table', cursor' \subseteq cursor,
         UNCHANGED <<loop, at>>
  PROVE  AheadOnRecord'
BY DEF AheadOnRecord

LEMMA AheadLeaves ==
  ASSUME loop' \notin {"lookup", "projects", "subscribe"}
  PROVE  AheadOnRecord'
BY DEF AheadOnRecord

LEMMA AheadNext == TypeOK /\ AheadOnRecord /\ [Next]_vars => AheadOnRecord'
<1> SUFFICES ASSUME TypeOK, AheadOnRecord, [Next]_vars PROVE AheadOnRecord'
  OBVIOUS
<1>1. CASE \/ ConnectOk \/ ConnectFails \/ Wake \/ FindFails
           \/ HandlerSubscribe \/ HandlerUnsubscribe \/ HandlerWebhook \/ Crash \/ StartAgain
  BY <1>1, AheadLeaves DEF ConnectOk, ConnectFails, Wake, FindFails, GiveUp,
     HandlerSubscribe, HandlerUnsubscribe, HandlerWebhook, Crash, StartAgain, Restart
<1>2. CASE FindLookup
  BY <1>2 DEF FindLookup, dbVars, AheadOnRecord
<1>3. CASE FindProjects
  BY <1>3 DEF FindProjects, AheadOnRecord, TypeOK
<1>4. CASE BatchSubscribe \/ CursorBreaks
  <2>1. UNCHANGED <<lookup_table, loop, at>> /\ cursor' \subseteq cursor
    BY <1>4 DEF BatchSubscribe, CursorBreaks, dbVars
  <2> QED
    BY <2>1, AheadKeeps
<1>5. CASE CursorEnds
  BY <1>5, AheadLeaves DEF CursorEnds
<1>6. CASE TakeConnection
  BY <1>6, AheadLeaves DEF TakeConnection
<1>7. CASE TakeSubscribe
  BY <1>7 DEF TakeSubscribe, Take, AheadOnRecord
<1>8. CASE TakeDelete
  BY <1>8, AheadLeaves DEF TakeDelete, Take
<1>9. ASSUME NEW r \in Requests, NEW t \in LookupTopics, Register(r, t)
      PROVE  AheadOnRecord'
  BY <1>9, AheadKeeps DEF Register, loopVars
<1>10. ASSUME NEW r \in Requests, NEW p \in Projects, NEW t \in ProjectTopics,
             SubscribeTopic(r, p, t)
       PROVE  AheadOnRecord'
  BY <1>10, AheadKeeps DEF SubscribeTopic, loopVars
<1>11. ASSUME NEW r \in Requests, RequestSubscribe(r)
       PROVE  AheadOnRecord'
  BY <1>11, AheadKeeps DEF RequestSubscribe, loopVars, dbVars
<1>12. CASE \/ (\E t \in LookupTopics : DeliverDelete(t)) \/ DeliverMessage \/ RelayError
            \/ ConnectionLost \/ UNCHANGED vars
  BY <1>12, AheadKeeps
     DEF DeliverDelete, DeliverMessage, RelayError, ConnectionLost, loopVars, dbVars, vars
<1> QED
  BY <1>1, <1>2, <1>3, <1>4, <1>5, <1>6, <1>7, <1>8, <1>9, <1>10, <1>11, <1>12
     DEF Next, Running, Loop, Http, Environment

LEMMA AheadStays == Spec => []AheadOnRecord
<1>1. Init => AheadOnRecord
  BY DEF Init, AheadOnRecord
<1>2. QED
  BY <1>1, AheadNext, TypeCorrect, PTL DEF Spec

Strays == LookupTopics \ lookup_table

\* A step that subscribes nothing, or only what S has.
LEMMA SubscribesOnly ==
  ASSUME NEW S, Subscribed(S) \/ NotSubscribed(S), S \cap Strays = {}
  PROVE  Strays \cap (subs' \ subs) = {}
BY DEF Subscribed, NotSubscribed

LEMMA StraysAreLateStep ==
  ASSUME TypeOK, AheadOnRecord, Next, NEW t \in Strays \cap (subs' \ subs)
  PROVE  \E r \in Requests : request[r] = t /\ request'[r] = None
<1>1. CASE BatchSubscribe
  <2>1. PICK S \in SUBSET cursor : Subscribed(S) \/ NotSubscribed(S)
    BY <1>1 DEF BatchSubscribe
  <2>2. S \cap Strays = {}
    BY <1>1 DEF BatchSubscribe, AheadOnRecord, Strays
  <2> QED
    BY <2>1, <2>2, SubscribesOnly
<1>2. CASE HandlerSubscribe
  <2>1. {at} \cap Strays = {}
    BY <1>2 DEF HandlerSubscribe, AheadOnRecord, Strays
  <2> QED
    BY <1>2, <2>1, SubscribesOnly DEF HandlerSubscribe
<1>3. ASSUME NEW r \in Requests, RequestSubscribe(r)
      PROVE  request[r] = t /\ request'[r] = None
  <2>1. t = request[r]
    BY <1>3 DEF RequestSubscribe, Subscribed, NotSubscribed
  <2> QED
    BY <1>3, <2>1 DEF RequestSubscribe, TypeOK
<1>4. subs' \subseteq subs \/ BatchSubscribe \/ HandlerSubscribe
      \/ \E r \in Requests : RequestSubscribe(r)
  BY DEF Next, Running, Loop, Http, Environment, ConnectOk, ConnectFails, Connection, Wake,
     FindLookup, FindProjects, FindFails, CursorBreaks, NotSubscribed, CursorEnds, TakeConnection,
     TakeSubscribe, TakeDelete, HandlerUnsubscribe, HandlerWebhook, Register, SubscribeTopic,
     DeliverDelete, DeliverMessage, RelayError, ConnectionLost, Crash, StartAgain, Restart,
     relayVars
<1> QED
  BY <1>1, <1>2, <1>3, <1>4

(* Once a client's topic is off record, no resubscription and no handler   *)
(* brings its subscription back, whatever the order of reconnections,      *)
(* registrations and deletes: only the second step of the request that had *)
(* stored it can come too late (resubscribe, push_delete, state.rs).       *)
THEOREM NoLateComers == Spec => StraysAreLate
<1>1. TypeOK /\ AheadOnRecord /\ [Next]_vars
        => [\A t \in (LookupTopics \ lookup_table) \cap (subs' \ subs) :
              \E r \in Requests : request[r] = t /\ request'[r] = None]_vars
  BY StraysAreLateStep DEF Strays
<1>2. QED
  BY <1>1, AheadStays, TypeCorrect, PTL DEF Spec, StraysAreLate

-----------------------------------------------------------------------------
(***************************************************************************)
(* RelaySession implements TopicRecords.  Most of its steps move neither   *)
(* the records nor what is still to be done for them.                      *)
(***************************************************************************)
LEMMA QuietStep ==
  ASSUME UNCHANGED <<lookup_table, request>>, ServiceTask' = ServiceTask
  PROVE  UNCHANGED Records!vars
BY DEF RequestTask, Records!vars

LEMMA LoopIsQuiet ==
  ASSUME UNCHANGED <<lookup_table, request>>,
         \/ UNCHANGED <<loop, at>>
         \/ /\ loop \notin {"subscribe", "unsubscribe"}
            /\ loop' \notin {"subscribe", "unsubscribe"}
  PROVE  UNCHANGED Records!vars
BY QuietStep DEF ServiceTask

LEMMA RequestTaskMoves ==
  ASSUME TypeOK, NEW r \in Requests, NEW t, request' = [request EXCEPT ![r] = t]
  PROVE  RequestTask' = [RequestTask EXCEPT ![r] = {t} \cap LookupTopics]
<1>1. \A q \in Requests : request'[q] = IF q = r THEN t ELSE request[q]
  BY DEF TypeOK
<1>2. RequestTask' = [q \in Requests |-> IF q = r THEN {t} \cap LookupTopics
                                                 ELSE {request[q]} \cap LookupTopics]
  BY <1>1 DEF RequestTask
<1> QED
  BY <1>2 DEF RequestTask

LEMMA RestartMaps == ASSUME Restart PROVE Records!Restart
<1>1. RequestTask' = [r \in Requests |-> {}]
  BY DEF Restart, RequestTask
<1>2. ServiceTask' = [to |-> "nothing", topic |-> {}]
  BY DEF Restart, ServiceTask
<1> QED
  BY <1>1, <1>2 DEF Restart, dbVars, Records!Restart, Records!Nothing

LEMMA TakeSubscribeMaps ==
  ASSUME TypeOK, TakeSubscribe
  PROVE  Records!Next \/ UNCHANGED Records!vars
<1>1. loop = "recv" /\ request' = request
  BY DEF TakeSubscribe, Take
<1>2. CASE UNCHANGED <<lookup_table, loop, at>>
  BY <1>1, <1>2, LoopIsQuiet
<1>3. ASSUME NEW t \in LookupTopics \ lookup_table,
             lookup_table' = lookup_table \cup {t}, at' = t, loop' = "subscribe"
      PROVE  Records!ServiceRecords(t)
  BY <1>1, <1>3
     DEF ServiceTask, RequestTask, Records!ServiceRecords, Records!Record, Records!Nothing,
         Records!Do
<1> QED
  BY <1>2, <1>3 DEF TakeSubscribe, Records!Next

LEMMA TakeDeleteMaps ==
  ASSUME TypeOK, TakeDelete
  PROVE  Records!Next \/ UNCHANGED Records!vars
<1> DEFINE t == Head(events).topic
<1>1. loop = "recv" /\ request' = request /\ lookup_table' = lookup_table \ {t}
  BY DEF TakeDelete, Take
<1>2. CASE t \notin lookup_table
  <2>1. UNCHANGED <<lookup_table, loop, at>>
    BY <1>1, <1>2 DEF TakeDelete
  <2> QED
    BY <1>1, <2>1, LoopIsQuiet
<1>3. CASE t \in lookup_table
  <2>1. t \in LookupTopics
    BY <1>3 DEF TypeOK
  <2>2. ServiceTask = Records!Nothing
    BY <1>1 DEF ServiceTask, Records!Nothing
  <2>3. ServiceTask' \in {Records!Do("unsubscribe", t), Records!Nothing}
    BY <1>1 DEF TakeDelete, ServiceTask, Records!Nothing, Records!Do
  <2>4. RequestTask' = RequestTask
    BY <1>1 DEF RequestTask
  <2>5. Records!ServiceErases(t)
    BY <1>1, <1>3, <2>2, <2>3, <2>4 DEF Records!ServiceErases
  <2> QED
    BY <2>1, <2>5 DEF Records!Next
<1> QED
  BY <1>2, <1>3

LEMMA HandlerMaps ==
  ASSUME HandlerSubscribe \/ HandlerUnsubscribe
  PROVE  Records!ServiceEnds
BY DEF HandlerSubscribe, HandlerUnsubscribe, Subscribed, NotSubscribed, dbVars, ServiceTask,
       RequestTask, Records!ServiceEnds, Records!Nothing

LEMMA RegisterMaps ==
  ASSUME TypeOK, NEW r \in Requests, NEW t \in LookupTopics, Register(r, t)
  PROVE  Records!RequestRecords(r, t)
<1>1. RequestTask[r] = {}
  BY DEF Register, RequestTask
<1>2. RequestTask' = [RequestTask EXCEPT ![r] = {t}]
  BY RequestTaskMoves, {t} \cap LookupTopics = {t} DEF Register
<1>3. ServiceTask' = ServiceTask
  BY DEF Register, loopVars, ServiceTask
<1> QED
  BY <1>1, <1>2, <1>3 DEF Register, Records!RequestRecords, Records!Record

\* A project topic is no client's.
LEMMA SubscribeTopicQuiet ==
  ASSUME TypeOK, NEW r \in Requests, NEW p \in Projects, NEW t \in ProjectTopics,
         SubscribeTopic(r, p, t)
  PROVE  UNCHANGED Records!vars
<1>1. RequestTask' = RequestTask
  BY DEF SubscribeTopic, RequestTask, TypeOK
<1>2. ServiceTask' = ServiceTask
  BY DEF SubscribeTopic, loopVars, ServiceTask
<1> QED
  BY <1>1, <1>2 DEF SubscribeTopic, Records!vars

LEMMA RequestSubscribeMaps ==
  ASSUME TypeOK, NEW r \in Requests, RequestSubscribe(r)
  PROVE  Records!Next \/ UNCHANGED Records!vars
<1>1. lookup_table' = lookup_table /\ ServiceTask' = ServiceTask
  BY DEF RequestSubscribe, dbVars, loopVars, ServiceTask
<1>2. RequestTask' = [RequestTask EXCEPT ![r] = {}]
  BY RequestTaskMoves, {None} \cap LookupTopics = {} DEF RequestSubscribe
<1>3. CASE RequestTask[r] = {}
  <2>1. RequestTask' = RequestTask
    BY <1>2, <1>3 DEF RequestTask
  <2> QED
    BY <1>1, <2>1 DEF Records!vars
<1>4. CASE RequestTask[r] # {}
  BY <1>1, <1>2, <1>4 DEF Records!RequestEnds, Records!Next
<1> QED
  BY <1>3, <1>4

(* The session subscribes and unsubscribes only the topics its own steps   *)
(* have just put on record or taken off: with RecordsRefined of            *)
(* RegistrationProofs, what it assumes of the handlers is what they do.    *)
THEOREM RecordsRefined == Spec => RecordsFirst
<1>1. Init => Records!Init
  BY DEF Init, RequestTask, ServiceTask, Records!Init, Records!Nothing
<1>2. TypeOK /\ [Next]_vars => [Records!Next]_(Records!vars)
  <2> SUFFICES ASSUME TypeOK, [Next]_vars
               PROVE  Records!Next \/ UNCHANGED Records!vars
    OBVIOUS
  <2>1. CASE \/ ConnectOk \/ ConnectFails \/ Wake \/ FindLookup \/ FindProjects \/ FindFails
             \/ BatchSubscribe \/ CursorBreaks \/ CursorEnds \/ TakeConnection \/ HandlerWebhook
    <3>1. UNCHANGED <<lookup_table, request>>
      BY <2>1 DEF ConnectOk, ConnectFails, Wake, FindLookup, FindProjects, FindFails,
         BatchSubscribe, CursorBreaks, CursorEnds, TakeConnection, HandlerWebhook, dbVars
    <3>2. \/ UNCHANGED <<loop, at>>
          \/ /\ loop \notin {"subscribe", "unsubscribe"}
             /\ loop' \notin {"subscribe", "unsubscribe"}
      BY <2>1 DEF ConnectOk, ConnectFails, Wake, FindLookup, FindProjects, FindFails, GiveUp,
         BatchSubscribe, CursorBreaks, CursorEnds, TakeConnection, Take, HandlerWebhook, loopVars
    <3> QED
      BY <3>1, <3>2, LoopIsQuiet
  <2>2. CASE TakeSubscribe
    BY <2>2, TakeSubscribeMaps
  <2>3. CASE TakeDelete
    BY <2>3, TakeDeleteMaps
  <2>4. CASE HandlerSubscribe \/ HandlerUnsubscribe
    BY <2>4, HandlerMaps DEF Records!Next
  <2>5. ASSUME NEW r \in Requests, NEW t \in LookupTopics, Register(r, t)
        PROVE  Records!Next
    BY <2>5, RegisterMaps DEF Records!Next
  <2>6. ASSUME NEW r \in Requests, NEW p \in Projects, NEW t \in ProjectTopics,
               SubscribeTopic(r, p, t)
        PROVE  UNCHANGED Records!vars
    BY <2>6, SubscribeTopicQuiet
  <2>7. ASSUME NEW r \in Requests, RequestSubscribe(r)
        PROVE  Records!Next \/ UNCHANGED Records!vars
    BY <2>7, RequestSubscribeMaps
  <2>8. CASE \/ (\E t \in LookupTopics : DeliverDelete(t)) \/ DeliverMessage \/ RelayError
             \/ ConnectionLost \/ UNCHANGED vars
    <3>1. UNCHANGED <<lookup_table, request, loop, at>>
      BY <2>8 DEF DeliverDelete, DeliverMessage, RelayError, ConnectionLost, dbVars, loopVars, vars
    <3> QED
      BY <3>1, LoopIsQuiet
  <2>9. CASE Crash \/ StartAgain
    BY <2>9, RestartMaps DEF Crash, StartAgain, Records!Next
  <2> QED
    BY <2>1, <2>2, <2>3, <2>4, <2>5, <2>6, <2>7, <2>8, <2>9
       DEF Next, Running, Loop, Http, Environment
<1>3. QED
  BY <1>1, <1>2, TypeCorrect, PTL DEF Spec, RecordsFirst, Records!Spec
=============================================================================
