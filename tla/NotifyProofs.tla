---------------------------- MODULE NotifyProofs ----------------------------
(***************************************************************************)
(* Safety of Notify, for any accounts, keys and clients.                   *)
(***************************************************************************)
EXTENDS Notify, TLAPS

USE NotifyAssumption

(***************************************************************************)
(* The accounts that got a job, and how they, failed and not_found divide  *)
(* the request among them from the first read to the answer.               *)
(***************************************************************************)
Queued == {a \in Accounts : \E k \in Keys : <<a, k>> \in jobs}

Divided ==
  /\ accounts = not_found \cup failed \cup Queued
  /\ not_found \cap failed = {}
  /\ not_found \cap Queued = {}
  /\ failed \cap Queued = {}
  /\ unread \subseteq not_found
  /\ sent = {}

SortInv ==
  /\ stage \in {"find", "read", "publish"} => Divided
  /\ stage \in {"find", "read"} => outcome = [a \in Accounts |-> "none"]
  /\ stage = "publish" => \A a \in Accounts : a \in Queued <=> outcome[a] # "none"

-----------------------------------------------------------------------------
LEMMA TypeOKNext == TypeOK /\ [Next]_vars => TypeOK'
<1> SUFFICES ASSUME TypeOK, [Next]_vars PROVE TypeOK'
  OBVIOUS
<1> USE DEF TypeOK, response, Stages, Outcomes
<1>1. ASSUME NEW a \in Accounts, NEW c \in Client \cup {None}, ChangeClient(a, c)
      PROVE  TypeOK'
  <2>1. clients' \in [Accounts -> Client \cup {None}]
    BY <1>1 DEF ChangeClient
  <2>2. InScope(clients') \subseteq Accounts \X Keys
    BY <2>1 DEF InScope, Client
  <2> QED
    BY <2>1, <2>2, <1>1 DEF ChangeClient, Missing
<1>2. ASSUME NEW S \in SUBSET Accounts, Request(S)
      PROVE  TypeOK'
  <2>1. InScope(clients) \subseteq Accounts \X Keys
    BY DEF InScope, Client
  <2> QED
    BY <2>1, <1>2 DEF Request, Matches, Missing
<1>3. CASE HangUp
  BY <1>3 DEF HangUp
<1>4. CASE Find
  BY <1>4 DEF Find
<1>5. ASSUME NEW a \in Accounts, ReadClient(a)
      PROVE  TypeOK'
  BY <1>5 DEF ReadClient, Found, Wants, Client
<1>6. ASSUME NEW a \in Accounts, TimeoutFires(a)
      PROVE  TypeOK'
  BY <1>6 DEF TimeoutFires, Resolve
<1>7. CASE Abandon
  BY <1>7 DEF Abandon, Fallible
<1>8. CASE StartPublishing
  BY <1>8 DEF StartPublishing
<1>9. CASE TimePasses
  BY <1>9 DEF TimePasses
<1>10. CASE Answer
  BY <1>10 DEF Answer, Succeeded
<1>11. ASSUME NEW job \in Accounts \X Keys, RelayAccepts(job)
      PROVE  TypeOK'
  BY <1>11 DEF RelayAccepts
<1>12. ASSUME NEW a \in Accounts, RelayAcks(a)
      PROVE  TypeOK'
  BY <1>12 DEF RelayAcks, Resolve
<1>13. ASSUME NEW a \in Accounts, PublishFails(a)
      PROVE  TypeOK'
  BY <1>13 DEF PublishFails, Resolve
<1>14. CASE UNCHANGED vars
  BY <1>14 DEF vars
<1> QED
  BY <1>1, <1>2, <1>3, <1>4, <1>5, <1>6, <1>7, <1>8, <1>9,
     <1>10, <1>11, <1>12, <1>13, <1>14
     DEF Next, Handler, Relay, Caller

(* The request, its response and its jobs keep their types, and the cursor *)
(* reads only what was asked for (notify.rs).                              *)
THEOREM TypeCorrect == Spec => []TypeOK
<1>1. Init => TypeOK
  BY DEF Init, TypeOK, Stages, Outcomes
<1>2. QED
  BY <1>1, TypeOKNext, PTL DEF Spec

-----------------------------------------------------------------------------
LEMMA SortNext ==
  TypeOK /\ SortInv /\ ResponsePartition /\ [Next]_vars => (SortInv /\ ResponsePartition)'
<1> SUFFICES ASSUME TypeOK, SortInv, ResponsePartition, [Next]_vars
             PROVE  (SortInv /\ ResponsePartition)'
  OBVIOUS
<1> USE DEF TypeOK, SortInv, Divided, Queued, ResponsePartition, response
<1>1. ASSUME NEW a \in Accounts, NEW c \in Client \cup {None}, ChangeClient(a, c)
      PROVE  (SortInv /\ ResponsePartition)'
  BY <1>1 DEF ChangeClient
<1>2. ASSUME NEW S \in SUBSET Accounts, Request(S)
      PROVE  (SortInv /\ ResponsePartition)'
  BY <1>2 DEF Request, Matches
<1>3. CASE HangUp
  BY <1>3 DEF HangUp
<1>4. CASE Find
  BY <1>4 DEF Find
<1>5. ASSUME NEW a \in Accounts, ReadClient(a)
      PROVE  (SortInv /\ ResponsePartition)'
  <2>1. /\ stage = "read" /\ stage' = "read" /\ accounts' = accounts /\ sent' = sent
        /\ outcome' = outcome /\ unread' = unread \ {a} /\ a \in not_found
    BY <1>5 DEF ReadClient
  <2>2. CASE UNCHANGED <<not_found, failed, jobs>>
    BY <2>1, <2>2
  <2>3. CASE not_found' = not_found \ {a} /\ failed' = failed \cup {a} /\ jobs' = jobs
    <3>1. Queued' = Queued
      BY <2>3
    <3>2. Divided
      BY <2>1
    <3> HIDE DEF TypeOK, SortInv, Queued, ResponsePartition, response
    <3>3. accounts' = not_found' \cup failed' \cup Queued'
      BY <2>1, <2>3, <3>1, <3>2
    <3>4. /\ not_found' \cap failed' = {} /\ not_found' \cap Queued' = {}
          /\ failed' \cap Queued' = {} /\ unread' \subseteq not_found' /\ sent' = {}
      BY <2>1, <2>3, <3>1, <3>2
    <3>5. Divided'
      BY <3>3, <3>4
    <3> QED
      BY <2>1, <3>5 DEF SortInv, ResponsePartition
  <2>4. ASSUME NEW k \in Keys, not_found' = not_found \ {a}, failed' = failed,
               jobs' = jobs \cup {<<a, k>>}
        PROVE  (SortInv /\ ResponsePartition)'
    <3>1. Queued' = Queued \cup {a}
      BY <2>4
    <3>2. Divided
      BY <2>1
    <3> HIDE DEF TypeOK, SortInv, Queued, ResponsePartition, response
    <3>3. accounts' = not_found' \cup failed' \cup Queued'
      BY <2>1, <2>4, <3>1, <3>2
    <3>4. /\ not_found' \cap failed' = {} /\ not_found' \cap Queued' = {}
          /\ failed' \cap Queued' = {} /\ unread' \subseteq not_found' /\ sent' = {}
      BY <2>1, <2>4, <3>1, <3>2
    <3>5. Divided'
      BY <3>3, <3>4
    <3> QED
      BY <2>1, <3>5 DEF SortInv, ResponsePartition
  <2>5. clients[a] # None => clients[a].key \in Keys
    BY DEF Client
  <2> QED
    BY <2>2, <2>3, <2>4, <2>5, <1>5 DEF ReadClient, Found, Wants
<1>6. ASSUME NEW a \in Accounts, TimeoutFires(a)
      PROVE  (SortInv /\ ResponsePartition)'
  BY <1>6 DEF TimeoutFires, Resolve
<1>7. CASE Abandon
  BY <1>7 DEF Abandon, Fallible
<1>8. CASE StartPublishing
  BY <1>8 DEF StartPublishing
<1>9. CASE TimePasses
  BY <1>9 DEF TimePasses
<1>10. CASE Answer
  BY <1>10 DEF Answer, Succeeded
<1>11. ASSUME NEW job \in Accounts \X Keys, RelayAccepts(job)
      PROVE  (SortInv /\ ResponsePartition)'
  BY <1>11 DEF RelayAccepts
<1>12. ASSUME NEW a \in Accounts, RelayAcks(a)
      PROVE  (SortInv /\ ResponsePartition)'
  BY <1>12 DEF RelayAcks, Resolve
<1>13. ASSUME NEW a \in Accounts, PublishFails(a)
      PROVE  (SortInv /\ ResponsePartition)'
  BY <1>13 DEF PublishFails, Resolve
<1>14. CASE UNCHANGED vars
  BY <1>14 DEF vars
<1> QED
  BY <1>1, <1>2, <1>3, <1>4, <1>5, <1>6, <1>7, <1>8, <1>9,
     <1>10, <1>11, <1>12, <1>13, <1>14
     DEF Next, Handler, Relay, Caller

(* Every answered request accounts for each account it named exactly once, *)
(* whatever the relay does and however clients change (notify.rs).         *)
THEOREM ResponseSorts == Spec => []ResponsePartition
<1>1. Init => SortInv /\ ResponsePartition
  BY DEF Init, SortInv, ResponsePartition
<1>2. QED
  BY <1>1, SortNext, TypeCorrect, PTL DEF Spec

-----------------------------------------------------------------------------
(***************************************************************************)
(* Nobody hears from a project without having agreed: jobs are made only   *)
(* of clients that are in scope when they are read, and nothing else is    *)
(* published.                                                              *)
(***************************************************************************)
AgreedInv ==
  /\ published \subseteq jobs
  /\ jobs \subseteq agreed
  /\ stage # "idle" => InScope(clients) \subseteq agreed
  /\ stage \in {"find", "read"} => published = {} /\ \A a \in Accounts : outcome[a] = "none"
  /\ stage = "failed" => published = {} /\ \A a \in Accounts : outcome[a] = "none"

LEMMA AgreedNext == TypeOK /\ AgreedInv /\ [Next]_vars => AgreedInv'
<1> SUFFICES ASSUME TypeOK, AgreedInv, [Next]_vars PROVE AgreedInv'
  OBVIOUS
<1> USE DEF TypeOK, AgreedInv, response
<1>1. ASSUME NEW a \in Accounts, NEW c \in Client \cup {None}, ChangeClient(a, c)
      PROVE  AgreedInv'
  BY <1>1 DEF ChangeClient
<1>2. ASSUME NEW S \in SUBSET Accounts, Request(S)
      PROVE  AgreedInv'
  BY <1>2 DEF Request, Matches
<1>3. CASE HangUp
  BY <1>3 DEF HangUp
<1>4. CASE Find
  BY <1>4 DEF Find
<1>5. ASSUME NEW a \in Accounts, ReadClient(a)
      PROVE  AgreedInv'
  BY <1>5 DEF ReadClient, Found, Wants, InScope
<1>6. ASSUME NEW a \in Accounts, TimeoutFires(a)
      PROVE  AgreedInv'
  BY <1>6 DEF TimeoutFires, Resolve
<1>7. CASE Abandon
  BY <1>7 DEF Abandon, Fallible
<1>8. CASE StartPublishing
  BY <1>8 DEF StartPublishing
<1>9. CASE TimePasses
  BY <1>9 DEF TimePasses
<1>10. CASE Answer
  BY <1>10 DEF Answer, Succeeded
<1>11. ASSUME NEW job \in Accounts \X Keys, RelayAccepts(job)
      PROVE  AgreedInv'
  BY <1>11 DEF RelayAccepts
<1>12. ASSUME NEW a \in Accounts, RelayAcks(a)
      PROVE  AgreedInv'
  BY <1>12 DEF RelayAcks, Resolve
<1>13. ASSUME NEW a \in Accounts, PublishFails(a)
      PROVE  AgreedInv'
  BY <1>13 DEF PublishFails, Resolve
<1>14. CASE UNCHANGED vars
  BY <1>14 DEF vars
<1> QED
  BY <1>1, <1>2, <1>3, <1>4, <1>5, <1>6, <1>7, <1>8, <1>9,
     <1>10, <1>11, <1>12, <1>13, <1>14
     DEF Next, Handler, Relay, Caller

LEMMA AgreedAlways == Spec => []AgreedInv
<1>1. Init => AgreedInv
  BY DEF Init, AgreedInv
<1>2. QED
  BY <1>1, AgreedNext, TypeCorrect, PTL DEF Spec

(* Only a client that had the notification's type in its scope at some     *)
(* moment of the request is published to, and under the key it then had.   *)
THEOREM SubscribersOnly == Spec => []OnlyToSubscribers
<1>1. AgreedInv => OnlyToSubscribers
  BY DEF AgreedInv, OnlyToSubscribers
<1>2. QED
  BY <1>1, AgreedAlways, PTL

(* A request that fails while reading has published nothing.               *)
THEOREM NothingPublishedOnFailure == Spec => []FailurePublishesNothing
<1>1. AgreedInv => FailurePublishesNothing
  BY DEF AgreedInv, FailurePublishesNothing
<1>2. QED
  BY <1>1, AgreedAlways, PTL

-----------------------------------------------------------------------------
(***************************************************************************)
(* Why not_found is true of its accounts: whoever is missing at any moment *)
(* of the request is in absent, and an account stays in not_found only if  *)
(* it is still to be read or was missing when it was.                      *)
(***************************************************************************)
AbsentInv ==
  /\ stage # "idle" => Missing(clients) \subseteq absent
  /\ stage \in {"find", "read"} => not_found \subseteq unread \cup absent
  /\ NotFoundWasAbsent

LEMMA AbsentNext == TypeOK /\ AbsentInv /\ [Next]_vars => AbsentInv'
<1> SUFFICES ASSUME TypeOK, AbsentInv, [Next]_vars PROVE AbsentInv'
  OBVIOUS
<1> USE DEF TypeOK, AbsentInv, NotFoundWasAbsent, response
<1>1. ASSUME NEW a \in Accounts, NEW c \in Client \cup {None}, ChangeClient(a, c)
      PROVE  AbsentInv'
  BY <1>1 DEF ChangeClient
<1>2. ASSUME NEW S \in SUBSET Accounts, Request(S)
      PROVE  AbsentInv'
  BY <1>2 DEF Request, Matches
<1>3. CASE HangUp
  BY <1>3 DEF HangUp
<1>4. CASE Find
  BY <1>4 DEF Find
<1>5. ASSUME NEW a \in Accounts, ReadClient(a)
      PROVE  AbsentInv'
  BY <1>5 DEF ReadClient, Found, Wants, Missing
<1>6. ASSUME NEW a \in Accounts, TimeoutFires(a)
      PROVE  AbsentInv'
  BY <1>6 DEF TimeoutFires, Resolve
<1>7. CASE Abandon
  BY <1>7 DEF Abandon, Fallible
<1>8. CASE StartPublishing
  BY <1>8 DEF StartPublishing
<1>9. CASE TimePasses
  BY <1>9 DEF TimePasses
<1>10. CASE Answer
  BY <1>10 DEF Answer, Succeeded
<1>11. ASSUME NEW job \in Accounts \X Keys, RelayAccepts(job)
      PROVE  AbsentInv'
  BY <1>11 DEF RelayAccepts
<1>12. ASSUME NEW a \in Accounts, RelayAcks(a)
      PROVE  AbsentInv'
  BY <1>12 DEF RelayAcks, Resolve
<1>13. ASSUME NEW a \in Accounts, PublishFails(a)
      PROVE  AbsentInv'
  BY <1>13 DEF PublishFails, Resolve
<1>14. CASE UNCHANGED vars
  BY <1>14 DEF vars
<1> QED
  BY <1>1, <1>2, <1>3, <1>4, <1>5, <1>6, <1>7, <1>8, <1>9,
     <1>10, <1>11, <1>12, <1>13, <1>14
     DEF Next, Handler, Relay, Caller

(* not_found names only accounts that had no client at some moment of the  *)
(* request, whatever else changed while the clients were read (notify.rs). *)
THEOREM NotFoundIsTrue == Spec => []NotFoundWasAbsent
<1>1. Init => AbsentInv
  BY DEF Init, AbsentInv, NotFoundWasAbsent
<1>2. AbsentInv => NotFoundWasAbsent
  BY DEF AbsentInv
<1>3. QED
  BY <1>1, <1>2, AbsentNext, TypeCorrect, PTL DEF Spec

-----------------------------------------------------------------------------
(***************************************************************************)
(* Why Notify implements Notifications: an account is read once, so it has *)
(* one job at most, and an account with a job was found.                   *)
(***************************************************************************)
JobInv ==
  /\ \A a \in Accounts, k, l \in Keys : <<a, k>> \in jobs /\ <<a, l>> \in jobs => k = l
  /\ Queued \subseteq accounts
  /\ stage = "answered" => Queued \cap not_found = {}

LEMMA JobNext == TypeOK /\ SortInv /\ JobInv /\ [Next]_vars => JobInv'
<1> SUFFICES ASSUME TypeOK, SortInv, JobInv, [Next]_vars PROVE JobInv'
  OBVIOUS
<1> USE DEF TypeOK, JobInv, Queued, response
<1>1. ASSUME NEW a \in Accounts, NEW c \in Client \cup {None}, ChangeClient(a, c)
      PROVE  JobInv'
  BY <1>1 DEF ChangeClient
<1>2. ASSUME NEW S \in SUBSET Accounts, Request(S)
      PROVE  JobInv'
  BY <1>2 DEF Request
<1>3. CASE HangUp
  BY <1>3 DEF HangUp
<1>4. CASE Find
  BY <1>4 DEF Find
<1>5. ASSUME NEW a \in Accounts, ReadClient(a)
      PROVE  JobInv'
  <2>1. a \in accounts /\ a \notin Queued
    BY <1>5 DEF ReadClient, SortInv, Divided
  <2>2. stage' = "read" /\ accounts' = accounts
    BY <1>5 DEF ReadClient
  <2>3. jobs' = jobs \/ jobs' = jobs \cup {<<a, clients[a].key>>}
    BY <1>5 DEF ReadClient
  <2> QED
    BY <2>1, <2>2, <2>3
<1>6. ASSUME NEW a \in Accounts, TimeoutFires(a)
      PROVE  JobInv'
  BY <1>6 DEF TimeoutFires, Resolve
<1>7. CASE Abandon
  BY <1>7 DEF Abandon
<1>8. CASE StartPublishing
  BY <1>8 DEF StartPublishing
<1>9. CASE TimePasses
  BY <1>9 DEF TimePasses
<1>10. CASE Answer
  BY <1>10 DEF Answer, SortInv, Divided
<1>11. ASSUME NEW job \in Accounts \X Keys, RelayAccepts(job)
      PROVE  JobInv'
  BY <1>11 DEF RelayAccepts
<1>12. ASSUME NEW a \in Accounts, RelayAcks(a)
      PROVE  JobInv'
  BY <1>12 DEF RelayAcks, Resolve
<1>13. ASSUME NEW a \in Accounts, PublishFails(a)
      PROVE  JobInv'
  BY <1>13 DEF PublishFails, Resolve
<1>14. CASE UNCHANGED vars
  BY <1>14 DEF vars
<1> QED
  BY <1>1, <1>2, <1>3, <1>4, <1>5, <1>6, <1>7, <1>8, <1>9,
     <1>10, <1>11, <1>12, <1>13, <1>14
     DEF Next, Handler, Relay, Caller

ContractInv ==
  TypeOK /\ SortInv /\ ResponsePartition /\ AgreedInv /\ AbsentInv /\ JobInv

LEMMA ContractInvAlways == Spec => []ContractInv
<1>1. Init => ContractInv
  BY DEF Init, ContractInv, TypeOK, SortInv, Divided, Queued, ResponsePartition, AgreedInv,
         AbsentInv, NotFoundWasAbsent, JobInv, Stages, Outcomes
<1>2. ContractInv /\ [Next]_vars => ContractInv'
  BY TypeOKNext, SortNext, AgreedNext, AbsentNext, JobNext DEF ContractInv
<1>3. QED
  BY <1>1, <1>2, PTL DEF Spec

-----------------------------------------------------------------------------
(***************************************************************************)
(* The steps of the handler that its caller and the subscribers notice,    *)
(* each mapped to a step of the contract.                                  *)
(***************************************************************************)
LEMMA RequestMaps ==
  ASSUME TypeOK, NEW S \in SUBSET Accounts, Request(S)
  PROVE  Contract!Request(S)
BY DEF Request, TypeOK, Stages, response, Status, Told, Contract!Request, Contract!NoAnswer,
       Contract!clientVars

LEMMA ChangeMaps ==
  ASSUME TypeOK, NEW a \in Accounts, NEW c \in Client \cup {None}, ChangeClient(a, c)
  PROVE  Contract!Change
<1>1. clients' \in [Accounts -> Client \cup {None}]
  BY DEF ChangeClient, TypeOK
<1>2. InScope(clients') \subseteq Accounts \X Keys
  BY <1>1 DEF InScope, Client
<1>3. Missing(clients') \subseteq Accounts
  BY DEF Missing
<1>4. Status' = Status /\ Told' = Told
  BY DEF ChangeClient, response, Status, Told
<1> QED
  BY <1>2, <1>3, <1>4
     DEF ChangeClient, Contract!Change, Contract!requestVars

LEMMA DeliverMaps ==
  ASSUME ContractInv, NEW job \in Accounts \X Keys, RelayAccepts(job)
  PROVE  Contract!Deliver(job[1], job[2])
<1>1. job = <<job[1], job[2]>> /\ job[1] \in Accounts /\ job[2] \in Keys
  OBVIOUS
<1>2. job[1] \in Queued /\ job \in jobs /\ job \notin published
  BY <1>1 DEF RelayAccepts, Queued
<1>3. Status # "refused"
  BY DEF ContractInv, AgreedInv, TypeOK, Stages, Status, RelayAccepts
<1>4. job[1] \in accounts \ Told.not_found
  BY <1>2 DEF ContractInv, JobInv, Told
<1>5. ~ \E k \in Keys : <<job[1], k>> \in published
  BY <1>1, <1>2 DEF ContractInv, AgreedInv, JobInv
<1>6. job \in agreed
  BY <1>2 DEF ContractInv, AgreedInv
<1>7. Status' = Status /\ Told' = Told
  BY DEF RelayAccepts, response, Status, Told
<1> QED
  BY <1>1, <1>3, <1>4, <1>5, <1>6, <1>7
     DEF RelayAccepts, Contract!Deliver, Contract!Reached, Contract!clientVars,
         Contract!requestVars, Contract!seenVars

LEMMA AnswerMaps ==
  ASSUME ContractInv, ContractInv', Answer
  PROVE  Contract!Answer(Told') /\ Told' \in Contract!Answers
<1>1. /\ stage = "publish" /\ stage' = "answered" /\ not_found' = not_found
      /\ accounts' = accounts /\ published' = published /\ clients' = clients
      /\ agreed' = agreed /\ absent' = absent /\ jobs' = jobs
  BY DEF Answer
<1>2. Told' = [sent |-> sent', failed |-> failed', not_found |-> not_found']
  BY <1>1 DEF Told
<1>3. /\ sent' \cup failed' \cup not_found' = accounts
      /\ sent' \cap failed' = {}
      /\ not_found' \cap (sent' \cup failed') = {}
  BY <1>1 DEF ContractInv, ResponsePartition
<1>4. not_found' \subseteq absent
  BY <1>1 DEF ContractInv, AbsentInv, NotFoundWasAbsent
<1>5. \A a \in not_found' : ~ \E k \in Keys : <<a, k>> \in published
  <2>1. not_found \cap Queued = {} /\ not_found \subseteq Accounts /\ published \subseteq jobs
    BY <1>1 DEF ContractInv, TypeOK, AgreedInv, SortInv, Divided
  <2> QED
    BY <1>1, <2>1 DEF Queued
<1>6. \A a \in sent' : \E k \in Keys : <<a, k>> \in agreed
  <2>1. sent' \subseteq Queued
    BY <1>1 DEF Answer, Succeeded, ContractInv, SortInv, Divided
  <2> QED
    BY <2>1 DEF ContractInv, AgreedInv, Queued
<1>7. Told' \in Contract!Answers
  <2>1. sent' \subseteq Accounts /\ failed' \subseteq Accounts /\ not_found' \subseteq Accounts
    BY DEF ContractInv, TypeOK
  <2> QED
    BY <1>2, <2>1 DEF Contract!Answers
<1>8. Contract!Sorts(Told')
  BY <1>2, <1>3, <1>4, <1>5, <1>6 DEF Contract!Sorts, Contract!Reached
<1>9. Status = "open" /\ Status' = "answered"
  BY <1>1 DEF Status
<1> QED
  BY <1>1, <1>7, <1>8, <1>9
     DEF Contract!Answer, Contract!clientVars, Contract!seenVars

LEMMA AbandonMaps == ASSUME ContractInv, Abandon PROVE Contract!Refuse
<1>1. published = {}
  BY DEF ContractInv, AgreedInv, Abandon, Fallible
<1> QED
  BY <1>1 DEF Abandon, Fallible, response, Status, Told, Contract!Refuse,
              Contract!clientVars, Contract!seenVars

LEMMA HangUpMaps == ASSUME HangUp PROVE Contract!Leave
BY DEF HangUp, response, Status, Told, Contract!Leave, Contract!clientVars, Contract!seenVars

(* Everything else the handler does is invisible.                          *)
LEMMA InnerStepsStutter ==
  ASSUME TypeOK,
         \/ Find \/ StartPublishing \/ TimePasses \/ UNCHANGED vars
         \/ \E a \in Accounts : ReadClient(a) \/ TimeoutFires(a) \/ RelayAcks(a) \/ PublishFails(a)
  PROVE  UNCHANGED Contract!vars
<1>1. UNCHANGED <<clients, accounts, published, agreed, absent>>
  BY DEF Find, StartPublishing, TimePasses, vars, ReadClient, TimeoutFires, RelayAcks,
         PublishFails, Resolve
<1>2. \/ stage = stage' /\ UNCHANGED response
      \/ stage \in {"find", "read", "publish"} /\ stage' \in {"find", "read", "publish"}
  BY DEF Find, StartPublishing, TimePasses, vars, ReadClient, TimeoutFires, RelayAcks,
         PublishFails, Resolve
<1>3. Status' = Status /\ Told' = Told
  BY <1>2 DEF Status, Told, response
<1> QED
  BY <1>1, <1>3 DEF Contract!vars, Contract!clientVars, Contract!requestVars, Contract!seenVars

(* POST /notify implements its contract: for any accounts, keys and        *)
(* changes of clients, what the caller and the subscribers of a request    *)
(* see is a behaviour of Notifications (notify.rs).                        *)
THEOREM NotifyFulfilsContract == Spec => ContractKept
<1>1. Init => Contract!Init
  BY DEF Init, InScope, Missing, Status, Told, Contract!Init, Contract!NoAnswer
<1>2. ContractInv /\ ContractInv' /\ [Next]_vars => [Contract!Next]_(Contract!vars)
  <2> SUFFICES ASSUME ContractInv, ContractInv', [Next]_vars
               PROVE  Contract!Next \/ UNCHANGED Contract!vars
    OBVIOUS
  <2> TypeOK
    BY DEF ContractInv
  <2>1. ASSUME NEW S \in SUBSET Accounts, Request(S)
        PROVE  Contract!Next
    BY <2>1, RequestMaps DEF Contract!Next
  <2>2. ASSUME NEW a \in Accounts, NEW c \in Client \cup {None}, ChangeClient(a, c)
        PROVE  Contract!Next
    BY <2>2, ChangeMaps DEF Contract!Next
  <2>3. ASSUME NEW job \in Accounts \X Keys, RelayAccepts(job)
        PROVE  Contract!Next
    BY <2>3, DeliverMaps DEF Contract!Next
  <2>4. CASE Answer
    BY <2>4, AnswerMaps DEF Contract!Next
  <2>5. CASE Abandon
    BY <2>5, AbandonMaps DEF Contract!Next
  <2>6. CASE HangUp
    BY <2>6, HangUpMaps DEF Contract!Next
  <2>7. CASE \/ Find \/ StartPublishing \/ TimePasses \/ UNCHANGED vars
             \/ \E a \in Accounts : ReadClient(a) \/ TimeoutFires(a) \/ RelayAcks(a) \/ PublishFails(a)
    BY <2>7, InnerStepsStutter
  <2> QED
    BY <2>1, <2>2, <2>3, <2>4, <2>5, <2>6, <2>7 DEF Next, Handler, Relay, Caller
<1>3. QED
  BY <1>1, <1>2, ContractInvAlways, PTL DEF Spec, ContractKept, Contract!Spec
=============================================================================
