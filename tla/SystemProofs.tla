---------------------------- MODULE SystemProofs ----------------------------
(***************************************************************************)
(* Components together, for any projects, accounts, keys and requests:     *)
(* Server (Registration and RelaySession) and Delivery (Registration and   *)
(* Notifications).  In either the parts keep what they have on their own,  *)
(* so what is proved of a part holds there; what only the two have         *)
(* together is proved from that.                                           *)
(***************************************************************************)
EXTENDS Server, Delivery, RegistrationProofs

USE RegistrationAssumption DEF Procs

-----------------------------------------------------------------------------
(***************************************************************************)
(* Server.                                                                 *)
(***************************************************************************)
LEMMA SessionAssumed == Session!RelaySessionAssumption
BY ServerAssumption DEF Session!RelaySessionAssumption

LEMMA DocumentsAsAlone == ServerSpec => Spec
<1>1. ServerInit => Init
  BY DEF ServerInit
<1>2. [ServerNext]_serverVars => [Next]_vars
  BY DEF ServerNext, Apart, Relaying, Together, Stopping, serverVars, Next
<1> QED
  BY <1>1, <1>2, PTL DEF ServerSpec, Spec

LEMMA SessionAsAlone == ServerSpec => Session!Spec
<1>1. ServerInit => Session!Init
  BY DEF ServerInit
<1>2. UNCHANGED OnRecord /\ UNCHANGED sessionVars => UNCHANGED Session!vars
  BY DEF sessionVars, Session!vars, Session!dbVars, Session!relayVars, Session!loopVars
<1>3. UNCHANGED serverVars => UNCHANGED OnRecord /\ UNCHANGED sessionVars
  BY DEF serverVars, vars, OnRecord
<1>4. ServerNext => Session!Next \/ UNCHANGED Session!vars
  BY <1>2 DEF ServerNext, Apart, Relaying, Together, Stopping, tasks, Session!Next
<1> QED
  BY <1>1, <1>2, <1>3, <1>4, PTL DEF ServerSpec, Session!Spec

LEMMA PartsTyped == ServerSpec => [](TypeOK /\ JobOK) /\ []Session!TypeOK
BY DocumentsAsAlone, Typed, SessionAsAlone, SessionAssumed, Session!TypeCorrect, PTL

LEMMA NothingAsked ==
  /\ request = [w \in Workers |-> None] => Session!RequestTask = [w \in Workers |-> {}]
  /\ request' = [w \in Workers |-> None] => Session!RequestTask' = [w \in Workers |-> {}]
<1>1. {None} \cap Topics = {}
  BY ServerAssumption
<1> QED
  BY <1>1 DEF Session!RequestTask

LEMMA StoppedInStep ==
  ASSUME Crash, Session!Crash \/ Session!StartAgain
  PROVE  InStep'
<1>1. RequestTask' = [w \in Workers |-> {}]
  BY DEF Crash, RequestTask
<1>2. Session!RequestTask' = [w \in Workers |-> {}]
  BY NothingAsked DEF Session!Crash, Session!StartAgain, Session!Restart
<1>3. ServiceTask' = [to |-> "nothing", topic |-> {}]
  BY DEF Crash, ServiceTask
<1>4. Session!ServiceTask' = [to |-> "nothing", topic |-> {}]
  BY DEF Session!Crash, Session!StartAgain, Session!Restart, Session!ServiceTask
<1> QED
  BY <1>1, <1>2, <1>3, <1>4 DEF InStep

LEMMA InStepNext == InStep /\ [ServerNext]_serverVars => InStep'
<1> SUFFICES ASSUME InStep, [ServerNext]_serverVars PROVE InStep'
  OBVIOUS
<1>1. ASSUME UNCHANGED tasks, UNCHANGED sessionVars PROVE InStep'
  BY <1>1 DEF InStep, tasks, sessionVars, Session!RequestTask, Session!ServiceTask
<1>2. CASE Apart
  BY <1>1, <1>2 DEF Apart
<1>3. CASE Relaying \/ Together
  BY <1>3 DEF Relaying, Together
<1>4. CASE Stopping
  BY <1>4, StoppedInStep DEF Stopping
<1>5. CASE UNCHANGED serverVars
  <2>1. UNCHANGED tasks /\ UNCHANGED sessionVars
    BY <1>5 DEF serverVars, vars, tasks, OnRecord, RequestTask, ServiceTask
  <2> QED
    BY <1>1, <2>1
<1> QED
  BY <1>2, <1>3, <1>4, <1>5 DEF ServerNext

(* Documents and session, run together with every failure and crash, keep  *)
(* their types and never differ in what is on its way to the relay.        *)
THEOREM ServerTypeCorrect == ServerSpec => []ServerTypeOK
<1>1. ServerInit => InStep
  <2> SUFFICES ASSUME ServerInit PROVE InStep
    OBVIOUS
  <2>1. Session!RequestTask = RequestTask
    BY NothingAsked DEF ServerInit, Init, Session!Init, RequestTask
  <2>2. Session!ServiceTask = ServiceTask
    BY DEF ServerInit, Init, Session!Init, ServiceTask, Session!ServiceTask
  <2> QED
    BY <2>1, <2>2 DEF InStep
<1> QED
  BY <1>1, InStepNext, PartsTyped, PTL DEF ServerSpec, ServerTypeOK

(* A client on record is heard while there is a connection, or is one of   *)
(* the exceptions of the two parts: what RelaySession keeps covered are    *)
(* the topics that Registration makes lead to clients.                     *)
THEOREM ClientsServed == ServerSpec => []ClientServed
<1>1. TypeOK /\ ClientReachable /\ Session!Coverage => ClientServed
  <2> SUFFICES ASSUME TypeOK, ClientReachable, Session!Coverage, connected,
                      NEW c \in Clients, clients[c] # None,
                      NEW t, t = TopicOf[clients[c]], lookup_table[t] = c
               PROVE  \/ t \in subs \cup refused \cup raced
                      \/ Session!Subscribing(t)
                      \/ Session!StillToCome(t)
    BY DEF ClientServed, ClientReachable, Reachable
  <2>1. t \in Topics /\ c # None
    BY NoneIsFresh DEF TypeOK
  <2>2. t \in Session!Stored
    BY <2>1 DEF OnRecord, Session!Stored
  <2> QED
    BY <2>2 DEF Session!Coverage
<1> QED
  BY <1>1, DocumentsAsAlone, ClientStaysReachable, PartsTyped, SessionAsAlone, SessionAssumed,
     Session!TopicsStayCovered, PTL

-----------------------------------------------------------------------------
(***************************************************************************)
(* Delivery.                                                               *)
(***************************************************************************)
USE DeliveryAssumption

LEMMA RecordsAsAlone == DeliverySpec => Spec
<1>1. DeliveryInit => Init
  BY DEF DeliveryInit
<1>2. [DeliveryNext]_deliveryVars => [Next]_vars
  BY DEF DeliveryNext, Recording, Asking, Serving, deliveryVars
<1> QED
  BY <1>1, <1>2, PTL DEF DeliverySpec, Spec

\* What Registration has proved of its records.
RecordsInv == TypeOK /\ JobOK /\ KeyInv /\ WalletKnowsKey

LEMMA RecordsKept == DeliverySpec => []RecordsInv
BY RecordsAsAlone, Typed, KeysKept, PTL DEF RecordsInv

LEMMA OfClients == \A a \in Accounts : Of(a) \in Clients
BY DEF Of, Clients

\* Documents of clients are written in two places.
LEMMA ClientsChange ==
  ASSUME TypeOK, JobOK, Next, NEW c \in Clients, clients'[c] # clients[c]
  PROVE  \/ \E p \in Procs : StoreClient(p) /\ job[p].client = c
         \/ DeleteClient /\ job[WS].client = c
<1>1. ASSUME NEW p \in Procs, StoreClient(p)
      PROVE  job[p].client = c
  BY <1>1 DEF StoreClient, TypeOK
<1>2. CASE DeleteClient
  BY <1>2 DEF DeleteClient, TypeOK
<1>3. ASSUME ~DeleteClient, \A p \in Procs : ~StoreClient(p)
      PROVE  clients' = clients
  BY <1>3 DEF Next, Running, HttpNext, Receive, Handle, RegisterClient, Register, HangUp,
     PushSubscribe, PushUpdate, PushDelete, FindClient, Ack, Settle, Respond, Unsubscribe,
     StoreLookup, Subscribe, Webhook, Fail, Crash
<1> QED
  BY <1>1, <1>2, <1>3

-----------------------------------------------------------------------------
LEMMA InScopeTyped ==
  ASSUME TypeOK, scoped \subseteq Accounts \ Unknown
  PROVE  InScope \subseteq Accounts \X Keys
<1> SUFFICES ASSUME NEW a \in scoped PROVE <<a, clients[Of(a)]>> \in Accounts \X Keys
  BY DEF InScope
<1> QED
  BY OfClients DEF Unknown, TypeOK

LEMMA DeliveryTypeNext ==
  ASSUME DeliveryTypeOK, TypeOK', [DeliveryNext]_deliveryVars
  PROVE  DeliveryTypeOK'
<1> USE DEF DeliveryTypeOK
<1>1. CASE Recording
  <2>1. scoped' \subseteq (Accounts \ Unknown)'
    BY <1>1 DEF Recording
  <2>2. (InScope \subseteq Accounts \X Keys)'
    <3>1. \A a \in Accounts : clients'[Of(a)] \in Keys \cup {None}
      BY OfClients DEF TypeOK
    <3>2. \A a \in scoped' : a \in Accounts /\ clients'[Of(a)] # None
      BY <2>1 DEF Unknown, Of
    <3> SUFFICES ASSUME NEW d \in InScope' PROVE d \in Accounts \X Keys
      OBVIOUS
    <3>3. PICK a \in scoped' : d = <<a, clients'[Of(a)]>>
      BY DEF InScope, Of
    <3> QED
      BY <3>1, <3>2, <3>3
  <2>3. agreed' \subseteq Accounts \X Keys
    BY <1>1, <2>2 DEF Recording
  <2>4. absent' \subseteq Accounts
    BY <1>1 DEF Recording, Unknown
  <2>5. left' \subseteq Accounts /\ gone' \subseteq left'
    BY <1>1 DEF Recording
  <2>6. joined' \subseteq Accounts /\ kept' \subseteq joined'
    BY <1>1 DEF Recording
  <2> QED
    BY <1>1, <2>1, <2>3, <2>4, <2>5, <2>6 DEF Recording, requestVars
<1>2. CASE Asking
  <2>1. (Accounts \ Unknown)' = Accounts \ Unknown
    BY <1>2 DEF Asking, vars, Unknown
  <2>2. PICK S \in SUBSET Accounts : Contract!Request(S)
    BY <1>2 DEF Asking
  <2>3. /\ status' = "open" /\ requested' = S /\ answer' = Contract!NoAnswer
        /\ delivered' = {} /\ agreed' = InScope /\ absent' = Unknown
    BY <2>2 DEF Contract!Request
  <2>4. answer' \in Contract!Answers
    BY <2>3 DEF Contract!NoAnswer, Contract!Answers
  <2>5. agreed' \subseteq Accounts \X Keys
    BY <2>3, InScopeTyped
  <2>6. absent' \subseteq Accounts
    BY <2>3 DEF Unknown
  <2> QED
    BY <1>2, <2>1, <2>3, <2>4, <2>5, <2>6 DEF Asking
<1>3. CASE Serving
  <2>1. (Accounts \ Unknown)' = Accounts \ Unknown
    BY <1>3 DEF Serving, vars, Unknown
  <2>2. UNCHANGED <<scoped, left, gone, joined, kept>>
    BY <1>3 DEF Serving, historyVars
  <2>3. ASSUME NEW a \in Accounts, NEW k \in Keys, Contract!Deliver(a, k)
        PROVE  DeliveryTypeOK'
    BY <2>1, <2>2, <2>3 DEF Contract!Deliver, Contract!requestVars, Contract!seenVars
  <2>4. ASSUME NEW r \in Contract!Answers, Contract!Answer(r)
        PROVE  DeliveryTypeOK'
    BY <2>1, <2>2, <2>4 DEF Contract!Answer, Contract!seenVars
  <2>5. CASE Contract!Refuse \/ Contract!Leave
    BY <2>1, <2>2, <2>5 DEF Contract!Refuse, Contract!Leave, Contract!seenVars
  <2> QED
    BY <1>3, <2>3, <2>4, <2>5 DEF Serving
<1>4. CASE UNCHANGED deliveryVars
  BY <1>4 DEF deliveryVars, vars, requestVars, seenVars, historyVars, Unknown
<1> QED
  BY <1>1, <1>2, <1>3, <1>4 DEF DeliveryNext

(* Requests, answers and notifications keep their types beside the records,*)
(* and only accounts with a client are in scope (state.rs, notify.rs).     *)
THEOREM DeliveryTypeCorrect == DeliverySpec => []DeliveryTypeOK
<1>1. DeliveryInit => DeliveryTypeOK
  <2> SUFFICES ASSUME DeliveryInit PROVE DeliveryTypeOK
    OBVIOUS
  <2>1. TypeOK
    BY DEF DeliveryInit, Init, TypeOK, Stages, Storing, Answers
  <2> QED
    BY <2>1 DEF DeliveryInit, DeliveryTypeOK, Contract!Init, Contract!NoAnswer, Contract!Answers
<1>2. RecordsInv' => TypeOK'
  BY DEF RecordsInv
<1>3. QED
  BY <1>1, <1>2, DeliveryTypeNext, RecordsKept, PTL DEF DeliverySpec

-----------------------------------------------------------------------------
(***************************************************************************)
(* The contract of /notify is kept although its clients are documents: a   *)
(* step of Registration changes, in view of the contract, which accounts   *)
(* are in scope and which are unknown.                                     *)
(***************************************************************************)
LEMMA ContractStep ==
  ASSUME DeliveryTypeOK, DeliveryTypeOK', [DeliveryNext]_deliveryVars
  PROVE  [Contract!Next]_(Contract!vars)
<1>1. CASE Recording
  <2>1. InScope' \subseteq Accounts \X Keys
    <3>1. \A a \in Accounts : clients'[Of(a)] \in Keys \cup {None}
      BY OfClients DEF DeliveryTypeOK, TypeOK
    <3>2. \A a \in scoped' : a \in Accounts /\ clients'[Of(a)] # None
      BY DEF DeliveryTypeOK, Unknown, Of
    <3> SUFFICES ASSUME NEW d \in InScope' PROVE d \in Accounts \X Keys
      OBVIOUS
    <3>3. PICK a \in scoped' : d = <<a, clients'[Of(a)]>>
      BY DEF InScope, Of
    <3> QED
      BY <3>1, <3>2, <3>3
  <2>2. Unknown' \subseteq Accounts
    BY DEF Unknown
  <2>3. Contract!Change
    BY <1>1, <2>1, <2>2 DEF Recording, requestVars, Contract!Change, Contract!requestVars
  <2> QED
    BY <2>3 DEF Contract!Next
<1>2. CASE Asking
  BY <1>2 DEF Asking, Contract!Next
<1>3. CASE Serving
  BY <1>3 DEF Serving, Contract!Next
<1>4. CASE UNCHANGED deliveryVars
  BY <1>4 DEF deliveryVars, vars, requestVars, seenVars, InScope, Unknown, Of,
     Contract!vars, Contract!clientVars, Contract!requestVars, Contract!seenVars
<1> QED
  BY <1>1, <1>2, <1>3, <1>4 DEF DeliveryNext

(* Requests keep their contract while registrations, updates, deletes,     *)
(* failures and restarts change the documents they read (notify.rs,        *)
(* state.rs).                                                              *)
THEOREM ContractAsAlone == DeliverySpec => Contract!Spec
<1>1. DeliveryInit => Contract!Init
  BY DEF DeliveryInit
<1>2. QED
  BY <1>1, ContractStep, DeliveryTypeCorrect, PTL DEF DeliverySpec, Contract!Spec

-----------------------------------------------------------------------------
(***************************************************************************)
(* A key on record is a known one, and a known key stays known: what       *)
(* push_subscribe is to tell is told, or the push_subscribe is cut.        *)
(***************************************************************************)
LEMMA KnownOnRecord ==
  ASSUME RecordsInv, NEW c \in Clients, clients[c] # None
  PROVE  clients[c] \in Known
BY DEF RecordsInv, KeyInv, WalletKnowsKey, Known, Held

LEMMA KnownStays == ASSUME TypeOK, JobOK, [Next]_vars PROVE Known \subseteq Known'
<1> USE DEF TypeOK, Known, Held, LeftUntold, Storing, Goto, Proceed, Finish
<1>1. ASSUME NEW w \in Workers, NEW c \in Clients, NEW k \in Keys, Register(w, c, k)
      PROVE  Known \subseteq Known'
  BY <1>1 DEF Register
<1>2. ASSUME NEW w \in Workers, HangUp(w)
      PROVE  Known \subseteq Known'
  BY <1>2 DEF HangUp
<1>3. ASSUME NEW c \in Clients, NEW k \in Keys, PushSubscribe(c, k)
      PROVE  Known \subseteq Known'
  BY <1>3 DEF PushSubscribe, Idle, Answers
<1>4. ASSUME NEW t \in Topics, NEW k \in Keys, NEW a \in Accounts, PushUpdate(t, k, a)
      PROVE  Known \subseteq Known'
  BY <1>4 DEF PushUpdate, Idle, Answers
<1>5. ASSUME NEW t \in Topics, NEW k \in Keys, PushDelete(t, k)
      PROVE  Known \subseteq Known'
  BY <1>5 DEF PushDelete, Idle, Answers
<1>6. CASE FindClient
  BY <1>6 DEF FindClient
<1>7. CASE Ack
  BY <1>7 DEF Ack
<1>8. CASE Settle
  BY <1>8 DEF Settle
<1>9. CASE Respond
  BY <1>9 DEF Respond
<1>10. CASE DeleteClient
  BY <1>10 DEF DeleteClient
<1>11. CASE Unsubscribe
  BY <1>11 DEF Unsubscribe
<1>12. ASSUME NEW p \in Procs, StoreClient(p)
      PROVE  Known \subseteq Known'
  BY <1>12 DEF StoreClient
<1>13. ASSUME NEW p \in Procs, StoreLookup(p)
      PROVE  Known \subseteq Known'
  BY <1>13 DEF StoreLookup, Taken
<1>14. ASSUME NEW p \in Procs, Subscribe(p)
      PROVE  Known \subseteq Known'
  BY <1>14 DEF Subscribe
<1>15. ASSUME NEW p \in Procs, Webhook(p)
      PROVE  Known \subseteq Known'
  BY <1>15 DEF Webhook
<1>16. ASSUME NEW p \in Procs, Fail(p)
      PROVE  Known \subseteq Known'
  BY <1>16 DEF Fail
<1>17. CASE Crash
  BY <1>17 DEF Crash
<1>18. CASE UNCHANGED vars
  BY <1>18 DEF vars
<1> QED
  BY <1>1, <1>2, <1>3, <1>4, <1>5, <1>6, <1>7, <1>8, <1>9,
     <1>10, <1>11, <1>12, <1>13, <1>14, <1>15, <1>16, <1>17, <1>18
     DEF Next, Running, HttpNext, Receive, Handle, RegisterClient

KnownInv == \A d \in agreed \cup delivered : d[2] \in Known

LEMMA InScopeKnown ==
  ASSUME RecordsInv, scoped \subseteq Accounts \ Unknown, NEW d \in InScope
  PROVE  d[2] \in Known
<1>1. PICK a \in scoped : d = <<a, clients[Of(a)]>>
  BY DEF InScope
<1>2. a \in Accounts /\ clients[Of(a)] # None
  BY DEF Unknown
<1> QED
  BY <1>1, <1>2, OfClients, KnownOnRecord

LEMMA KnownInvNext ==
  ASSUME RecordsInv, RecordsInv', DeliveryTypeOK, DeliveryTypeOK', KnownInv,
         [DeliveryNext]_deliveryVars
  PROVE  KnownInv'
<1>1. Known \subseteq Known'
  BY KnownStays DEF RecordsInv, DeliveryNext, Recording, Asking, Serving, deliveryVars
<1>2. CASE Recording
  <2>1. \A d \in InScope' : d[2] \in Known'
    <3> SUFFICES ASSUME NEW d \in InScope' PROVE d[2] \in Known'
      OBVIOUS
    <3>1. PICK a \in scoped' : d = <<a, clients'[Of(a)]>>
      BY DEF InScope, Of
    <3>2. a \in Accounts /\ clients'[Of(a)] # None
      BY <3>1 DEF DeliveryTypeOK, Unknown, Of
    <3>3. clients'[Of(a)] \in Known'
      BY <3>2, OfClients DEF RecordsInv, KeyInv, WalletKnowsKey, Known, Held
    <3> QED
      BY <3>1, <3>3
  <2> QED
    BY <1>1, <1>2, <2>1 DEF KnownInv, Recording, requestVars
<1>3. CASE Asking
  <2>1. agreed' = InScope /\ delivered' = {}
    BY <1>3 DEF Asking, Contract!Request
  <2> QED
    BY <1>1, <2>1, InScopeKnown DEF KnownInv, DeliveryTypeOK
<1>4. CASE Serving
  <2>1. agreed' = agreed
    BY <1>4 DEF Serving, Contract!Deliver, Contract!Answer, Contract!Refuse, Contract!Leave,
       Contract!seenVars
  <2>2. delivered' \subseteq delivered \cup agreed
    BY <1>4 DEF Serving, Contract!Deliver, Contract!Answer, Contract!Refuse, Contract!Leave
  <2> QED
    BY <1>1, <2>1, <2>2 DEF KnownInv
<1>5. CASE UNCHANGED deliveryVars
  BY <1>1, <1>5 DEF KnownInv, deliveryVars, requestVars, seenVars
<1> QED
  BY <1>2, <1>3, <1>4, <1>5 DEF DeliveryNext

(* No notification goes out under a key that no wallet holds or is about   *)
(* to be told, except those of push_subscribes that were cut short         *)
(* (push_subscribe.rs, notify.rs).                                         *)
THEOREM KeysAreKnown == DeliverySpec => []UnderKnownKeys
<1>1. DeliveryInit => KnownInv
  BY DEF DeliveryInit, Contract!Init, KnownInv
<1>2. KnownInv => UnderKnownKeys
  BY DEF KnownInv, UnderKnownKeys
<1>3. QED
  BY <1>1, <1>2, KnownInvNext, RecordsKept, DeliveryTypeCorrect, PTL DEF DeliverySpec

-----------------------------------------------------------------------------
(***************************************************************************)
(* Who has left has no client, nobody is about to store one, and nothing   *)
(* of the open request was agreed for whoever left before it came.         *)
(***************************************************************************)
LeftInv ==
  /\ \A a \in left : clients[Of(a)] = None /\ ~Named(a)
  /\ \A d \in agreed \cup delivered : d[1] \notin gone

LEMMA StoredIsNamed ==
  ASSUME NEW a, Stores(a) PROVE Named(a)
BY DEF Stores, StoreClient, Named

LEMMA LeftStays ==
  ASSUME TypeOK, JobOK, LeftInv, Recording, NEW a \in left'
  PROVE  clients'[Of(a)] = None /\ ~Named(a)'
<1>1. a \in Accounts /\ ~Named(a)' /\ (a \in left \/ Deletes(a))
  BY DEF Recording
<1>2. Of(a) \in Clients
  BY <1>1, OfClients
<1>3. CASE Deletes(a)
  BY <1>1, <1>2, <1>3 DEF Deletes, DeleteClient, TypeOK
<1>4. CASE a \in left /\ ~Deletes(a)
  <2>1. clients[Of(a)] = None /\ ~Stores(a)
    BY <1>4, StoredIsNamed DEF LeftInv
  <2>2. clients'[Of(a)] = clients[Of(a)]
    BY <2>1, <1>2, <1>4, ClientsChange DEF Recording, Stores, Deletes
  <2> QED
    BY <1>1, <2>1, <2>2
<1> QED
  BY <1>1, <1>3, <1>4

LEMMA LeftInvNext ==
  ASSUME RecordsInv, DeliveryTypeOK, DeliveryTypeOK', LeftInv, [DeliveryNext]_deliveryVars
  PROVE  LeftInv'
<1>1. CASE Recording
  <2>1. \A a \in left' : clients'[Of(a)] = None /\ ~Named(a)'
    BY <1>1, LeftStays DEF RecordsInv
  <2>2. \A d \in InScope' : d[1] \notin left'
    <3> SUFFICES ASSUME NEW d \in InScope' PROVE d[1] \notin left'
      OBVIOUS
    <3>1. PICK a \in scoped' : d = <<a, clients'[Of(a)]>>
      BY DEF InScope, Of
    <3>2. clients'[Of(a)] # None
      BY <3>1 DEF DeliveryTypeOK, Unknown, Of
    <3> QED
      BY <2>1, <3>1, <3>2
  <2>3. \A d \in agreed' \cup delivered' : d[1] \notin gone'
    BY <1>1, <2>2 DEF Recording, requestVars, LeftInv
  <2> QED
    BY <2>1, <2>3 DEF LeftInv, Of
<1>2. CASE Asking
  <2>1. /\ agreed' = InScope /\ delivered' = {} /\ gone' = left /\ left' = left
        /\ UNCHANGED <<clients, pc, job>>
    BY <1>2 DEF Asking, Contract!Request, vars
  <2>2. \A d \in InScope : d[1] \notin left
    <3> SUFFICES ASSUME NEW d \in InScope PROVE d[1] \notin left
      OBVIOUS
    <3>1. PICK a \in scoped : d = <<a, clients[Of(a)]>>
      BY DEF InScope
    <3>2. clients[Of(a)] # None
      BY <3>1 DEF DeliveryTypeOK, Unknown
    <3> QED
      BY <3>1, <3>2 DEF LeftInv
  <2> QED
    BY <2>1, <2>2 DEF LeftInv, Named, Of
<1>3. CASE Serving
  <2>1. UNCHANGED <<clients, pc, job, left, gone>>
    BY <1>3 DEF Serving, vars, historyVars
  <2>2. agreed' = agreed
    BY <1>3 DEF Serving, Contract!Deliver, Contract!Answer, Contract!Refuse, Contract!Leave,
       Contract!seenVars
  <2>3. delivered' \subseteq delivered \cup agreed
    BY <1>3 DEF Serving, Contract!Deliver, Contract!Answer, Contract!Refuse, Contract!Leave
  <2> QED
    BY <2>1, <2>2, <2>3 DEF LeftInv, Named, Of
<1>4. CASE UNCHANGED deliveryVars
  BY <1>4 DEF deliveryVars, vars, requestVars, seenVars, historyVars, LeftInv, Named, Of
<1> QED
  BY <1>1, <1>2, <1>3, <1>4 DEF DeliveryNext

(* Whoever left before the request came is sent nothing by it, unless an   *)
(* operation named the account again (push_delete.rs, notify.rs).          *)
THEOREM LeftAlone == DeliverySpec => []GoneGetsNothing
<1>1. DeliveryInit => LeftInv
  BY DEF DeliveryInit, Contract!Init, LeftInv
<1>2. LeftInv => GoneGetsNothing
  BY DEF LeftInv, GoneGetsNothing
<1>3. QED
  BY <1>1, <1>2, LeftInvNext, RecordsKept, DeliveryTypeCorrect, PTL DEF DeliverySpec

-----------------------------------------------------------------------------
(***************************************************************************)
(* Who has joined has a client, and no delete that is about to take it.    *)
(***************************************************************************)
JoinedInv ==
  /\ \A a \in joined : clients[Of(a)] # None /\ ~Leaving(a)
  /\ kept \cap (absent \cup answer.not_found) = {}

LEMMA JoinedStays ==
  ASSUME TypeOK, JobOK, JoinedInv, Recording, NEW a \in joined'
  PROVE  clients'[Of(a)] # None /\ ~Leaving(a)'
<1>1. a \in Accounts /\ ~Leaving(a)' /\ (a \in joined \/ Stores(a))
  BY DEF Recording
<1>2. Of(a) \in Clients
  BY <1>1, OfClients
<1>3. CASE Stores(a)
  <2>1. PICK p \in Procs : StoreClient(p) /\ job[p].client = Of(a)
    BY <1>3 DEF Stores
  <2>2. clients'[Of(a)] = job[p].key
    BY <1>2, <2>1 DEF StoreClient, TypeOK
  <2>3. job[p].key \in Keys
    BY <2>1 DEF StoreClient, JobOK, JobFits, Job, Idle, Answers
  <2> QED
    BY <1>1, <2>2, <2>3
<1>4. CASE a \in joined /\ ~Stores(a)
  <2>1. clients[Of(a)] # None /\ ~Deletes(a)
    BY <1>4 DEF JoinedInv, Leaving, Deletes, DeleteClient
  <2>2. clients'[Of(a)] = clients[Of(a)]
    BY <2>1, <1>2, <1>4, ClientsChange DEF Recording, Stores, Deletes
  <2> QED
    BY <1>1, <2>1, <2>2
<1> QED
  BY <1>1, <1>3, <1>4

LEMMA JoinedInvNext ==
  ASSUME RecordsInv, DeliveryTypeOK, JoinedInv, [DeliveryNext]_deliveryVars
  PROVE  JoinedInv'
<1>1. CASE Recording
  <2>1. \A a \in joined' : clients'[Of(a)] # None /\ ~Leaving(a)'
    BY <1>1, JoinedStays DEF RecordsInv
  <2>2. Unknown' \cap kept' = {}
    BY <1>1, <2>1 DEF Recording, Unknown, Of
  <2> QED
    BY <1>1, <2>1, <2>2 DEF JoinedInv, Recording, requestVars, Of
<1>2. CASE Asking
  <2>1. /\ absent' = Unknown /\ answer'.not_found = {} /\ kept' = joined /\ joined' = joined
        /\ UNCHANGED <<clients, pc, job>>
    BY <1>2 DEF Asking, Contract!Request, Contract!NoAnswer, vars
  <2> QED
    BY <2>1 DEF JoinedInv, Leaving, Unknown, Of
<1>3. CASE Serving
  <2>1. UNCHANGED <<clients, pc, job, joined, kept>>
    BY <1>3 DEF Serving, vars, historyVars
  <2>2. absent' = absent
    BY <1>3 DEF Serving, Contract!Deliver, Contract!Answer, Contract!Refuse, Contract!Leave,
       Contract!seenVars
  <2>3. answer'.not_found \subseteq answer.not_found \cup absent
    BY <1>3 DEF Serving, Contract!Deliver, Contract!Answer, Contract!Sorts, Contract!Refuse,
       Contract!Leave, Contract!requestVars
  <2> QED
    BY <2>1, <2>2, <2>3 DEF JoinedInv, Leaving, Of
<1>4. CASE UNCHANGED deliveryVars
  BY <1>4 DEF deliveryVars, vars, requestVars, seenVars, historyVars, JoinedInv, Leaving, Of
<1> QED
  BY <1>1, <1>2, <1>3, <1>4 DEF DeliveryNext

(* An account that was registered before the request came and stayed is    *)
(* never reported as not found (state.rs, notify.rs).                      *)
THEOREM StayersAreFound == DeliverySpec => []KeptIsFound
<1>1. DeliveryInit => JoinedInv
  BY DEF DeliveryInit, Contract!Init, Contract!NoAnswer, JoinedInv
<1>2. JoinedInv => KeptIsFound
  BY DEF JoinedInv, KeptIsFound
<1>3. QED
  BY <1>1, <1>2, JoinedInvNext, RecordsKept, DeliveryTypeCorrect, PTL DEF DeliverySpec
=============================================================================
