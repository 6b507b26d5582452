------------------------- MODULE RegistrationProofs -------------------------
(***************************************************************************)
(* Safety of Registration, for any projects, accounts, keys and requests.  *)
(***************************************************************************)
EXTENDS Registration, TLAPS

USE RegistrationAssumption DEF Procs

LEMMA NoneIsFresh == None \notin Job /\ None \notin Clients
BY DEF Job, Clients, Ops

-----------------------------------------------------------------------------
(***************************************************************************)
(* What the locals of a busy process look like: the operation that can be  *)
(* at its stage, and, until the lookup entry is written, the topic of the  *)
(* key that is being stored.                                               *)
(***************************************************************************)
JobFits(p) ==
  /\ ~Idle(p) => job[p] \in Job
  /\ p # WS /\ ~Idle(p) => pc[p] \in Storing /\ job[p].op = "register"
  /\ pc[p] \in {"find_client", "ack"} => job[p].op = "push_update"
  /\ pc[p] \in {"settle", "response"} => job[p].op = "push_subscribe"
  /\ pc[p] \in {"delete_client", "unsubscribe"} => job[p].op = "push_delete"
  /\ pc[p] \in {"client", "lookup", "subscribe"} => job[p].op # "push_delete"
  /\ pc[p] \in {"ack", "client", "lookup"} => job[p].topic = TopicOf[job[p].key]

JobOK == \A p \in Procs : JobFits(p)

\* The two outcomes of push_update's read of the client.
LEMMA FindClientOutcome ==
  ASSUME TypeOK, JobOK, FindClient
  PROVE  \/ /\ clients[job[WS].from] \in Keys
            /\ job' = [job EXCEPT ![WS] = [op |-> "push_update", from |-> job[WS].from,
                                           client |-> job[WS].client,
                                           topic |-> TopicOf[clients[job[WS].from]],
                                           key |-> clients[job[WS].from]]]
            /\ job'[WS] \in Job
            /\ job'[WS].op = "push_update"
            /\ job'[WS].key = clients[job[WS].from]
            /\ job'[WS].topic = TopicOf[job'[WS].key]
            /\ pc' = [pc EXCEPT ![WS] = "ack"]
         \/ /\ pc' = [pc EXCEPT ![WS] = "idle"]
            /\ job' = [job EXCEPT ![WS] = None]
<1> DEFINE stored == clients[job[WS].from]
<1>1. pc[WS] = "find_client" /\ WS \in Procs
  BY DEF FindClient
<1>2. job[WS] \in Job /\ job[WS].op = "push_update"
  BY <1>1 DEF JobOK, JobFits, Idle, Answers
<1>3. CASE stored # None /\ Opens(job[WS].key, stored)
  <2>1. stored \in Keys
    BY <1>2, <1>3 DEF TypeOK, Job
  <2>2. TopicOf[stored] \in Topics
    BY <2>1
  <2>3. job' = [job EXCEPT ![WS] = [op |-> "push_update", from |-> job[WS].from,
                                    client |-> job[WS].client,
                                    topic |-> TopicOf[stored], key |-> stored]]
    BY <1>2, <1>3 DEF FindClient
  <2>4. /\ job'[WS] \in Job
        /\ job'[WS].op = "push_update"
        /\ job'[WS].key = stored
        /\ job'[WS].topic = TopicOf[stored]
    BY <2>3, <2>1, <2>2, <1>1, <1>2 DEF TypeOK, Job
  <2> QED
    BY <2>1, <2>3, <2>4, <1>3 DEF FindClient, Goto
<1>4. CASE ~(stored # None /\ Opens(job[WS].key, stored))
  BY <1>4 DEF FindClient, Finish, Goto
<1> QED
  BY <1>3, <1>4

LEMMA TypeOKNext == TypeOK /\ JobOK /\ [Next]_vars => TypeOK'
<1> SUFFICES ASSUME TypeOK, JobOK, [Next]_vars PROVE TypeOK'
  OBVIOUS
<1> USE DEF TypeOK, Goto, Proceed, Finish, Stages, Storing, Answers
<1>1. ASSUME NEW w \in Workers, NEW c \in Clients, NEW k \in Keys, Register(w, c, k)
      PROVE  TypeOK'
  BY <1>1 DEF Register, Job, Ops
<1>2. ASSUME NEW w \in Workers, HangUp(w)
      PROVE  TypeOK'
  BY <1>2 DEF HangUp, LeftTorn, LeftUntold, JobOK, JobFits, Idle, Job
<1>3. ASSUME NEW c \in Clients, NEW k \in Keys, PushSubscribe(c, k)
      PROVE  TypeOK'
  BY <1>3 DEF PushSubscribe, Job, Ops
<1>4. ASSUME NEW t \in Topics, NEW k \in Keys, NEW a \in Accounts, PushUpdate(t, k, a)
      PROVE  TypeOK'
  BY <1>4 DEF PushUpdate, Job, Ops, Clients
<1>5. ASSUME NEW t \in Topics, NEW k \in Keys, PushDelete(t, k)
      PROVE  TypeOK'
  BY <1>5 DEF PushDelete, Job, Ops
<1>6. CASE FindClient
  BY <1>6, FindClientOutcome DEF FindClient
<1>7. CASE Ack
  BY <1>7 DEF Ack
<1>8. CASE Settle
  BY <1>8 DEF Settle
<1>9. CASE Respond
  BY <1>9 DEF Respond, LeftUntold, JobOK, JobFits, Idle, Job
<1>10. CASE DeleteClient
  BY <1>10 DEF DeleteClient, LeftUntold, JobOK, JobFits, Idle, Job
<1>11. CASE Unsubscribe
  BY <1>11 DEF Unsubscribe
<1>12. ASSUME NEW p \in Procs, StoreClient(p)
      PROVE  TypeOK'
  BY <1>12 DEF StoreClient, LeftUntold, JobOK, JobFits, Idle, Job
<1>13. ASSUME NEW p \in Procs, StoreLookup(p)
      PROVE  TypeOK'
  BY <1>13 DEF StoreLookup, Taken, LeftUntold, JobOK, JobFits, Idle, Job
<1>14. ASSUME NEW p \in Procs, Subscribe(p)
      PROVE  TypeOK'
  BY <1>14 DEF Subscribe
<1>15. ASSUME NEW p \in Procs, Webhook(p)
      PROVE  TypeOK'
  BY <1>15 DEF Webhook, LeftUntold, JobOK, JobFits, Idle, Job
<1>16. ASSUME NEW p \in Procs, Fail(p)
      PROVE  TypeOK'
  BY <1>16 DEF Fail, LeftTorn, LeftUntold, JobOK, JobFits, Idle, Job
<1>17. CASE Crash
  BY <1>17 DEF Crash, LeftTorn, LeftUntold, JobOK, JobFits, Idle, Job
<1>18. CASE UNCHANGED vars
  BY <1>18 DEF vars
<1> QED
  BY <1>1, <1>2, <1>3, <1>4, <1>5, <1>6, <1>7, <1>8, <1>9,
     <1>10, <1>11, <1>12, <1>13, <1>14, <1>15, <1>16, <1>17, <1>18
     DEF Next, Running, HttpNext, Receive, Handle, RegisterClient

LEMMA JobOKNext == TypeOK /\ JobOK /\ [Next]_vars => JobOK'
<1> SUFFICES ASSUME TypeOK, JobOK, [Next]_vars PROVE JobOK'
  OBVIOUS
<1> USE DEF TypeOK, JobOK, JobFits, Idle, Goto, Proceed, Finish, Stages, Storing, Answers
<1>1. ASSUME NEW w \in Workers, NEW c \in Clients, NEW k \in Keys, Register(w, c, k)
      PROVE  JobOK'
  BY <1>1 DEF Register, Job, Ops
<1>2. ASSUME NEW w \in Workers, HangUp(w)
      PROVE  JobOK'
  BY <1>2 DEF HangUp
<1>3. ASSUME NEW c \in Clients, NEW k \in Keys, PushSubscribe(c, k)
      PROVE  JobOK'
  BY <1>3 DEF PushSubscribe, Job, Ops
<1>4. ASSUME NEW t \in Topics, NEW k \in Keys, NEW a \in Accounts, PushUpdate(t, k, a)
      PROVE  JobOK'
  BY <1>4 DEF PushUpdate, Job, Ops, Clients
<1>5. ASSUME NEW t \in Topics, NEW k \in Keys, PushDelete(t, k)
      PROVE  JobOK'
  BY <1>5 DEF PushDelete, Job, Ops
<1>6. CASE FindClient
  <2>1. \A p \in Workers : job'[p] = job[p] /\ pc'[p] = pc[p]
    BY <1>6, FindClientOutcome
  <2>2. JobFits(WS)'
    BY <1>6, FindClientOutcome
  <2> QED
    BY <2>1, <2>2
<1>7. CASE Ack
  BY <1>7 DEF Ack
<1>8. CASE Settle
  BY <1>8 DEF Settle
<1>9. CASE Respond
  BY <1>9 DEF Respond
<1>10. CASE DeleteClient
  BY <1>10 DEF DeleteClient
<1>11. CASE Unsubscribe
  BY <1>11 DEF Unsubscribe
<1>12. ASSUME NEW p \in Procs, StoreClient(p)
      PROVE  JobOK'
  BY <1>12 DEF StoreClient
<1>13. ASSUME NEW p \in Procs, StoreLookup(p)
      PROVE  JobOK'
  BY <1>13 DEF StoreLookup, Taken
<1>14. ASSUME NEW p \in Procs, Subscribe(p)
      PROVE  JobOK'
  BY <1>14 DEF Subscribe
<1>15. ASSUME NEW p \in Procs, Webhook(p)
      PROVE  JobOK'
  BY <1>15 DEF Webhook
<1>16. ASSUME NEW p \in Procs, Fail(p)
      PROVE  JobOK'
  BY <1>16 DEF Fail
<1>17. CASE Crash
  BY <1>17 DEF Crash
<1>18. CASE UNCHANGED vars
  BY <1>18 DEF vars
<1> QED
  BY <1>1, <1>2, <1>3, <1>4, <1>5, <1>6, <1>7, <1>8, <1>9,
     <1>10, <1>11, <1>12, <1>13, <1>14, <1>15, <1>16, <1>17, <1>18
     DEF Next, Running, HttpNext, Receive, Handle, RegisterClient

LEMMA Typed == Spec => [](TypeOK /\ JobOK)
<1>1. Init => TypeOK /\ JobOK
  BY DEF Init, TypeOK, JobOK, JobFits, Idle, Stages, Storing, Answers
<1>2. TypeOK /\ JobOK /\ [Next]_vars => (TypeOK /\ JobOK)'
  BY TypeOKNext, JobOKNext
<1>3. QED
  BY <1>1, <1>2, PTL DEF Spec

(* Documents, stages and locals stay in their types through every step of  *)
(* every handler, for any set of requests (state.rs and the handlers).     *)
THEOREM TypeCorrect == Spec => []TypeOK
BY Typed, PTL

-----------------------------------------------------------------------------
LEMMA ReachableNext == TypeOK /\ JobOK /\ ClientReachable /\ [Next]_vars => ClientReachable'
<1> SUFFICES ASSUME TypeOK, JobOK, ClientReachable, [Next]_vars,
                    NEW x \in Clients, clients'[x] # None
             PROVE  Reachable(x, TopicOf[clients[x]])'
  BY DEF ClientReachable
<1> USE DEF TypeOK, ClientReachable, Reachable, InFlight, Goto, Proceed, Finish
<1>1. ASSUME NEW w \in Workers, NEW c \in Clients, NEW k \in Keys, Register(w, c, k)
      PROVE  Reachable(x, TopicOf[clients[x]])'
  BY <1>1 DEF Register, Idle, Answers
<1>2. ASSUME NEW w \in Workers, HangUp(w)
      PROVE  Reachable(x, TopicOf[clients[x]])'
  BY <1>2 DEF HangUp, LeftTorn
<1>3. ASSUME NEW c \in Clients, NEW k \in Keys, PushSubscribe(c, k)
      PROVE  Reachable(x, TopicOf[clients[x]])'
  BY <1>3 DEF PushSubscribe, Idle, Answers
<1>4. ASSUME NEW t \in Topics, NEW k \in Keys, NEW a \in Accounts, PushUpdate(t, k, a)
      PROVE  Reachable(x, TopicOf[clients[x]])'
  BY <1>4 DEF PushUpdate, Idle, Answers
<1>5. ASSUME NEW t \in Topics, NEW k \in Keys, PushDelete(t, k)
      PROVE  Reachable(x, TopicOf[clients[x]])'
  BY <1>5 DEF PushDelete, Idle, Answers
<1>6. CASE FindClient
  BY <1>6, FindClientOutcome DEF FindClient
<1>7. CASE Ack
  BY <1>7 DEF Ack, Idle, Answers
<1>8. CASE Settle
  BY <1>8 DEF Settle, Idle, Answers
<1>9. CASE Respond
  BY <1>9 DEF Respond, Idle, Answers
<1>10. CASE DeleteClient
  BY <1>10 DEF DeleteClient, Idle, Answers
<1>11. CASE Unsubscribe
  BY <1>11 DEF Unsubscribe, Idle, Answers
<1>12. ASSUME NEW p \in Procs, StoreClient(p)
      PROVE  Reachable(x, TopicOf[clients[x]])'
  BY <1>12 DEF StoreClient, JobOK, JobFits, Job, Idle, Answers
<1>13. ASSUME NEW p \in Procs, StoreLookup(p)
      PROVE  Reachable(x, TopicOf[clients[x]])'
  <2> DEFINE T == TopicOf[clients[x]]
  <2>1. /\ clients' = clients /\ T \in Topics /\ Reachable(x, T)
        /\ pc[p] = "lookup" /\ job[p] \in Job
    BY <1>13 DEF StoreLookup, Taken, JobOK, JobFits, Idle, Answers
  <2>2. CASE lookup_table[T] = x
    BY <2>1, <2>2, <1>13, NoneIsFresh DEF StoreLookup, Taken, Job
  <2>3. CASE <<x, T>> \in torn
    BY <2>1, <2>3, <1>13 DEF StoreLookup, Taken, Job
  <2>4. ASSUME NEW q \in Procs, pc[q] \in {"lookup", "delete_client"},
               job[q].client = x, job[q].topic = T
        PROVE  Reachable(x, T)'
    <3>1. CASE q # p
      <4>1. pc'[q] = pc[q] /\ job'[q] = job[q]
        BY <3>1, <1>13 DEF StoreLookup, Taken
      <4> QED
        BY <4>1, <2>4, <2>1
    <3>2. CASE q = p
      BY <3>2, <2>1, <2>4, <1>13 DEF StoreLookup, Taken, Job
    <3> QED
      BY <3>1, <3>2
  <2> QED
    BY <2>1, <2>2, <2>3, <2>4
<1>14. ASSUME NEW p \in Procs, Subscribe(p)
      PROVE  Reachable(x, TopicOf[clients[x]])'
  BY <1>14 DEF Subscribe, Idle, Answers
<1>15. ASSUME NEW p \in Procs, Webhook(p)
      PROVE  Reachable(x, TopicOf[clients[x]])'
  BY <1>15 DEF Webhook, Idle, Answers
<1>16. ASSUME NEW p \in Procs, Fail(p)
      PROVE  Reachable(x, TopicOf[clients[x]])'
  BY <1>16 DEF Fail, LeftTorn
<1>17. CASE Crash
  BY <1>17 DEF Crash, LeftTorn
<1>18. CASE UNCHANGED vars
  BY <1>18 DEF vars
<1> QED
  BY <1>1, <1>2, <1>3, <1>4, <1>5, <1>6, <1>7, <1>8, <1>9,
     <1>10, <1>11, <1>12, <1>13, <1>14, <1>15, <1>16, <1>17, <1>18
     DEF Next, Running, HttpNext, Receive, Handle, RegisterClient

(* A stored client is always reachable from the topic of its key, however  *)
(* requests, messages, failures and restarts interleave (state.rs).        *)
THEOREM ClientStaysReachable == Spec => []ClientReachable
<1>1. Init => ClientReachable
  BY DEF Init, ClientReachable
<1>2. QED
  BY <1>1, ReachableNext, Typed, PTL DEF Spec

-----------------------------------------------------------------------------
(***************************************************************************)
(* Why WalletKnowsKey is kept: every key on record or about to be stored   *)
(* is a wallet's or was minted; whoever is about to store a minted key     *)
(* either minted it or uses one that is accounted for already; and what    *)
(* push_subscribe is going to tell a wallet was minted.                    *)
(***************************************************************************)
Accounted(k) == k \in minted => k \in told \cup cut

KeySource(p) ==
  pc[p] \in {"ack", "client"} =>
    /\ job[p].key \in WalletKeys \cup minted
    /\ job[p].op # "push_subscribe" => Accounted(job[p].key)

KeyInv ==
  /\ minted \cap WalletKeys = {}
  /\ told \subseteq minted
  /\ LeftUntold(WS) \subseteq minted
  /\ \A c \in Clients : clients[c] # None => clients[c] \in WalletKeys \cup minted
  /\ \A p \in Procs : KeySource(p)

LEMMA KeyInvNext ==
  TypeOK /\ JobOK /\ KeyInv /\ WalletKnowsKey /\ [Next]_vars => (KeyInv /\ WalletKnowsKey)'
<1> SUFFICES ASSUME TypeOK, JobOK, KeyInv, WalletKnowsKey, [Next]_vars
             PROVE  (KeyInv /\ WalletKnowsKey)'
  OBVIOUS
<1> USE DEF TypeOK, KeyInv, WalletKnowsKey, KeySource, Accounted, LeftUntold, Held,
            Storing, Goto, Proceed, Finish
<1>1. ASSUME NEW w \in Workers, NEW c \in Clients, NEW k \in Keys, Register(w, c, k)
      PROVE  (KeyInv /\ WalletKnowsKey)'
  BY <1>1 DEF Register, Idle, Answers
<1>2. ASSUME NEW w \in Workers, HangUp(w)
      PROVE  (KeyInv /\ WalletKnowsKey)'
  BY <1>2 DEF HangUp, JobOK, JobFits, Job, Idle, Answers
<1>3. ASSUME NEW c \in Clients, NEW k \in Keys, PushSubscribe(c, k)
      PROVE  (KeyInv /\ WalletKnowsKey)'
  BY <1>3 DEF PushSubscribe, Idle, Answers
<1>4. ASSUME NEW t \in Topics, NEW k \in Keys, NEW a \in Accounts, PushUpdate(t, k, a)
      PROVE  (KeyInv /\ WalletKnowsKey)'
  BY <1>4 DEF PushUpdate, Idle, Answers
<1>5. ASSUME NEW t \in Topics, NEW k \in Keys, PushDelete(t, k)
      PROVE  (KeyInv /\ WalletKnowsKey)'
  BY <1>5 DEF PushDelete, Idle, Answers
<1>6. CASE FindClient
  <2>1. /\ pc[WS] = "find_client"
        /\ LeftUntold(WS) = {}
        /\ UNCHANGED <<clients, minted, told, cut>>
    BY <1>6 DEF FindClient
  <2>2. job[WS].from \in Clients
    BY <2>1 DEF JobOK, JobFits, Job, Idle, Answers
  <2>3. \A p \in Workers : job'[p] = job[p] /\ pc'[p] = pc[p]
    BY <1>6, FindClientOutcome
  <2>4. CASE /\ clients[job[WS].from] \in Keys
             /\ job'[WS].op = "push_update"
             /\ job'[WS].key = clients[job[WS].from]
             /\ pc'[WS] = "ack"
    <3>1. clients[job[WS].from] # None
      BY <2>4
    <3>2. clients[job[WS].from] \in WalletKeys \cup minted
      BY <3>1, <2>2
    <3>3. Accounted(clients[job[WS].from])
      BY <2>1, <2>2
    <3>4. KeySource(WS)' /\ (LeftUntold(WS) = {})'
      BY <2>1, <2>4, <3>2, <3>3
    <3> QED
      BY <2>1, <2>3, <3>4
  <2>5. CASE pc'[WS] = "idle"
    BY <2>1, <2>3, <2>5
  <2> QED
    BY <2>1, <2>4, <2>5, FindClientOutcome, <1>6
<1>7. CASE Ack
  BY <1>7 DEF Ack, JobOK, JobFits, Idle, Answers
<1>8. CASE Settle
  BY <1>8 DEF Settle, Idle, Answers
<1>9. CASE Respond
  <2>1. LeftUntold(WS) = {job[WS].key}
    BY <1>9 DEF Respond, JobOK, JobFits, Idle, Answers
  <2>2. /\ (LeftUntold(WS) = {})'
        /\ pc' = [pc EXCEPT ![WS] = "idle"]
        /\ job' = [job EXCEPT ![WS] = None]
        /\ told' = told \cup {job[WS].key}
        /\ UNCHANGED <<clients, minted, cut>>
    BY <1>9 DEF Respond
  <2>3. \A p \in Procs : KeySource(p)'
    BY <2>2
  <2> QED
    BY <2>1, <2>2, <2>3
<1>10. CASE DeleteClient
  BY <1>10 DEF DeleteClient, Idle, Answers
<1>11. CASE Unsubscribe
  BY <1>11 DEF Unsubscribe, JobOK, JobFits, Idle, Answers
<1>12. ASSUME NEW p \in Procs, StoreClient(p)
      PROVE  (KeyInv /\ WalletKnowsKey)'
  BY <1>12 DEF StoreClient, JobOK, JobFits, Job, Idle, Answers
<1>13. ASSUME NEW p \in Procs, StoreLookup(p)
      PROVE  (KeyInv /\ WalletKnowsKey)'
  BY <1>13 DEF StoreLookup, Taken, JobOK, JobFits, Job, Idle, Answers
<1>14. ASSUME NEW p \in Procs, Subscribe(p)
      PROVE  (KeyInv /\ WalletKnowsKey)'
  BY <1>14 DEF Subscribe, Idle, Answers
<1>15. ASSUME NEW p \in Procs, Webhook(p)
      PROVE  (KeyInv /\ WalletKnowsKey)'
  BY <1>15 DEF Webhook, JobOK, JobFits, Job, Idle, Answers
<1>16. ASSUME NEW p \in Procs, Fail(p)
      PROVE  (KeyInv /\ WalletKnowsKey)'
  BY <1>16 DEF Fail, JobOK, JobFits, Job, Idle, Answers
<1>17. CASE Crash
  BY <1>17 DEF Crash, JobOK, JobFits, Job, Idle, Answers
<1>18. CASE UNCHANGED vars
  BY <1>18 DEF vars
<1> QED
  BY <1>1, <1>2, <1>3, <1>4, <1>5, <1>6, <1>7, <1>8, <1>9,
     <1>10, <1>11, <1>12, <1>13, <1>14, <1>15, <1>16, <1>17, <1>18
     DEF Next, Running, HttpNext, Receive, Handle, RegisterClient

LEMMA KeysKept == Spec => [](KeyInv /\ WalletKnowsKey)
<1>1. Init => KeyInv /\ WalletKnowsKey
  BY DEF Init, KeyInv, KeySource, LeftUntold, Storing, WalletKnowsKey
<1>2. QED
  BY <1>1, KeyInvNext, Typed, PTL DEF Spec

(* No client stays on record under a key its wallet was never given the    *)
(* means to derive, except by a push_subscribe cut short                   *)
(* (push_subscribe.rs).                                                    *)
THEOREM WalletKeepsUp == Spec => []WalletKnowsKey
BY KeysKept, PTL

-----------------------------------------------------------------------------
(***************************************************************************)
(* Registration implements TopicRecords: between writing the lookup table  *)
(* and the relay a process is at one of these stages, and every step moves *)
(* one process, or all of them back to the start.                          *)
(***************************************************************************)
Owing == {"subscribe", "delete_client", "unsubscribe"}

Moves(p, stage) ==
  /\ pc' = [pc EXCEPT ![p] = stage]
  /\ \A q \in Procs \ {p} : job'[q] = job[q]

LEMMA ProceedMoves ==
  ASSUME TypeOK, NEW p \in Procs, NEW stage, Proceed(p, stage) PROVE Moves(p, stage)
BY DEF TypeOK, Proceed, Goto, Moves

LEMMA FinishMoves ==
  ASSUME TypeOK, NEW p \in Procs, NEW answer \in Answers \cup {"idle"}, Finish(p, answer)
  PROVE  \E stage \in Answers \cup {"idle"} : Moves(p, stage)
BY DEF TypeOK, Finish, Goto, Moves

LEMMA QuietMove ==
  ASSUME TypeOK, NEW p \in Procs, NEW stage, Moves(p, stage), lookup_table' = lookup_table,
         pc[p] \notin Owing, stage \notin Owing
  PROVE  UNCHANGED Records!vars
<1>1. \A q \in Procs : pc'[q] = IF q = p THEN stage ELSE pc[q]
  BY DEF Moves, TypeOK
<1>2. RequestTask' = RequestTask
  BY <1>1 DEF RequestTask, Owing, Moves
<1>3. ServiceTask' = ServiceTask
  BY <1>1 DEF ServiceTask, Owing, Moves
<1> QED
  BY <1>2, <1>3 DEF Records!vars, OnRecord

LEMMA EndingMove ==
  ASSUME TypeOK, JobOK, NEW p \in Procs, NEW stage, Moves(p, stage), lookup_table' = lookup_table,
         pc[p] \in Owing, stage \notin Owing
  PROVE  Records!Next
<1>1. \A q \in Procs : pc'[q] = IF q = p THEN stage ELSE pc[q]
  BY DEF Moves, TypeOK
<1>2. OnRecord' = OnRecord
  BY DEF OnRecord
<1>3. CASE p = WS
  <2>1. RequestTask' = RequestTask
    <3>1. \A w \in Workers : w \in Procs /\ w # p
      BY <1>3, RegistrationAssumption DEF Procs
    <3>2. \A w \in Workers : pc'[w] = pc[w] /\ job'[w] = job[w]
      BY <1>1, <3>1 DEF Moves
    <3> QED
      BY <3>2 DEF RequestTask
  <2>2. ServiceTask # Records!Nothing /\ ServiceTask' = Records!Nothing
    BY <1>1, <1>3 DEF ServiceTask, Owing, Records!Nothing
  <2> QED
    BY <1>2, <2>1, <2>2 DEF Records!Next, Records!ServiceEnds
<1>4. CASE p # WS
  <2>1. p \in Workers /\ pc[p] = "subscribe"
    BY <1>4 DEF JobOK, JobFits, Idle, Answers, Storing, Owing
  <2>2. RequestTask[p] # {} /\ RequestTask' = [RequestTask EXCEPT ![p] = {}]
    <3>1. \A w \in Workers \ {p} : pc'[w] = pc[w] /\ job'[w] = job[w]
      BY <1>1 DEF Moves
    <3>2. pc'[p] # "subscribe"
      BY <1>1 DEF Owing
    <3>3. RequestTask[p] = {job[p].topic}
      BY <2>1 DEF RequestTask
    <3>4. \A w \in Workers : RequestTask'[w] = IF w = p THEN {} ELSE RequestTask[w]
      BY <2>1, <3>1, <3>2 DEF RequestTask
    <3>5. RequestTask' = [w \in Workers |-> RequestTask'[w]] /\ DOMAIN RequestTask = Workers
      BY DEF RequestTask
    <3> QED
      BY <3>3, <3>4, <3>5
  <2>3. ServiceTask' = ServiceTask
    BY <1>1, <1>4 DEF ServiceTask, Moves
  <2> QED
    BY <1>2, <2>1, <2>2, <2>3 DEF Records!Next, Records!RequestEnds
<1> QED
  BY <1>3, <1>4

LEMMA StoppingMove ==
  ASSUME TypeOK, JobOK, NEW p \in Procs, NEW answer \in Answers \cup {"idle"},
         Finish(p, answer), lookup_table' = lookup_table
  PROVE  Records!Next \/ UNCHANGED Records!vars
BY FinishMoves, QuietMove, EndingMove DEF Answers, Owing

LEMMA StoreLookupMaps ==
  ASSUME TypeOK, JobOK, NEW p \in Procs, StoreLookup(p)
  PROVE  Records!Next \/ UNCHANGED Records!vars
<1> DEFINE t == job[p].topic
<1>1. pc[p] = "lookup" /\ job[p] \in Job /\ t \in Topics /\ job[p].client \in Clients
  BY DEF StoreLookup, JobOK, JobFits, Idle, Answers, Job
<1>2. CASE Taken(t)
  <2>1. Finish(p, "bad_request") /\ lookup_table' = lookup_table
    BY <1>2 DEF StoreLookup
  <2> QED
    BY <2>1, StoppingMove DEF Answers
<1>3. CASE ~Taken(t)
  <2>1. /\ lookup_table[t] = None
        /\ lookup_table' = [lookup_table EXCEPT ![t] = job[p].client]
        /\ pc' = [pc EXCEPT ![p] = "subscribe"] /\ job' = job
    BY <1>3 DEF StoreLookup, Taken, Proceed, Goto
  <2>2. Records!Record(t)
    BY <1>1, <2>1, NoneIsFresh DEF TypeOK, OnRecord, Records!Record
  <2>3. CASE p = WS
    <3>1. RequestTask' = RequestTask
      BY <2>1, <2>3 DEF TypeOK, RequestTask
    <3>2. ServiceTask = Records!Nothing /\ ServiceTask' = Records!Do("subscribe", t)
      BY <1>1, <2>1, <2>3 DEF TypeOK, ServiceTask, Records!Nothing, Records!Do
    <3> QED
      BY <1>1, <2>2, <3>1, <3>2 DEF Records!ServiceRecords, Records!Next
  <2>4. CASE p \in Workers
    <3>1. RequestTask[p] = {} /\ RequestTask' = [RequestTask EXCEPT ![p] = {t}]
      BY <1>1, <2>1, <2>4 DEF TypeOK, RequestTask
    <3>2. ServiceTask' = ServiceTask
      BY <2>1, <2>4 DEF TypeOK, ServiceTask
    <3> QED
      BY <1>1, <2>2, <2>4, <3>1, <3>2 DEF Records!RequestRecords, Records!Next
  <2> QED
    BY <2>3, <2>4
<1> QED
  BY <1>2, <1>3

LEMMA PushDeleteMaps ==
  ASSUME TypeOK, NEW t \in Topics, NEW k \in Keys, PushDelete(t, k)
  PROVE  Records!ServiceErases(t)
<1>1. /\ pc' = [pc EXCEPT ![WS] = "delete_client"] /\ Idle(WS)
      /\ lookup_table[t] # None /\ lookup_table' = [lookup_table EXCEPT ![t] = None]
  BY DEF PushDelete, Goto
<1>2. job'[WS].topic = t /\ \A q \in Workers : job'[q] = job[q]
  BY DEF PushDelete, TypeOK
<1>3. t \in OnRecord /\ OnRecord' = OnRecord \ {t}
  BY <1>1 DEF TypeOK, OnRecord
<1>4. RequestTask' = RequestTask
  BY <1>1, <1>2 DEF TypeOK, RequestTask
<1>5. ServiceTask = Records!Nothing
  BY <1>1 DEF Idle, Answers, ServiceTask, Records!Nothing
<1>6. ServiceTask' = Records!Do("unsubscribe", t)
  BY <1>1, <1>2 DEF TypeOK, ServiceTask, Records!Do
<1> QED
  BY <1>3, <1>4, <1>5, <1>6 DEF Records!ServiceErases

LEMMA DeleteClientMaps ==
  ASSUME TypeOK, JobOK, DeleteClient
  PROVE  Records!Next \/ UNCHANGED Records!vars
<1>1. pc[WS] = "delete_client" /\ lookup_table' = lookup_table
  BY DEF DeleteClient
<1>2. CASE Finish(WS, "idle")
  BY <1>1, <1>2, StoppingMove
<1>3. CASE Proceed(WS, "unsubscribe")
  <2>1. pc' = [pc EXCEPT ![WS] = "unsubscribe"] /\ job' = job
    BY <1>3 DEF Proceed, Goto
  <2>2. RequestTask' = RequestTask /\ ServiceTask' = ServiceTask
    BY <1>1, <2>1 DEF TypeOK, RequestTask, ServiceTask
  <2> QED
    BY <1>1, <2>2 DEF OnRecord, Records!vars
<1> QED
  BY <1>2, <1>3 DEF DeleteClient

LEMMA CrashMaps == ASSUME Crash PROVE Records!Restart
<1>1. RequestTask' = [w \in Workers |-> {}] /\ ServiceTask' = Records!Nothing
  BY DEF Crash, RequestTask, ServiceTask, Records!Nothing
<1> QED
  BY <1>1 DEF Crash, OnRecord, Records!Restart

(* register_client and the wallet messages take to the relay only topics   *)
(* they have themselves just put in the lookup table or taken out of it    *)
(* (state.rs, push_delete.rs).                                             *)
THEOREM RecordsRefined == Spec => RecordsFirst
<1>1. Init => Records!Init
  BY DEF Init, OnRecord, RequestTask, ServiceTask, Records!Init, Records!Nothing
<1>2. TypeOK /\ JobOK /\ [Next]_vars => [Records!Next]_(Records!vars)
  <2> SUFFICES ASSUME TypeOK, JobOK, [Next]_vars
               PROVE  Records!Next \/ UNCHANGED Records!vars
    OBVIOUS
  <2>1. ASSUME NEW w \in Workers, NEW c \in Clients, NEW k \in Keys, Register(w, c, k)
        PROVE  UNCHANGED Records!vars
    <3>1. Moves(w, "client") /\ pc[w] \notin Owing /\ lookup_table' = lookup_table
      BY <2>1 DEF TypeOK, Register, Moves, Goto, Idle, Answers, Owing
    <3> QED
      BY <3>1, QuietMove DEF Owing
  <2>2. ASSUME NEW c \in Clients, NEW k \in Keys, PushSubscribe(c, k)
        PROVE  UNCHANGED Records!vars
    <3>1. Moves(WS, "client") /\ pc[WS] \notin Owing /\ lookup_table' = lookup_table
      BY <2>2 DEF TypeOK, PushSubscribe, Moves, Goto, Idle, Answers, Owing
    <3> QED
      BY <3>1, QuietMove DEF Owing
  <2>3. ASSUME NEW t \in Topics, NEW k \in Keys, NEW a \in Accounts, PushUpdate(t, k, a)
        PROVE  UNCHANGED Records!vars
    <3>1. Moves(WS, "find_client") /\ pc[WS] \notin Owing /\ lookup_table' = lookup_table
      BY <2>3 DEF TypeOK, PushUpdate, Moves, Goto, Idle, Answers, Owing
    <3> QED
      BY <3>1, QuietMove DEF Owing
  <2>4. CASE FindClient
    <3>1. pc[WS] \notin Owing /\ lookup_table' = lookup_table
      BY <2>4 DEF FindClient, Owing
    <3>2. Moves(WS, "ack") \/ Moves(WS, "idle")
      BY <2>4, FindClientOutcome DEF TypeOK, Moves
    <3> QED
      BY <3>1, <3>2, QuietMove DEF Owing
  <2>5. CASE Ack \/ Settle
    <3>1. pc[WS] \notin Owing /\ lookup_table' = lookup_table
      BY <2>5 DEF Ack, Settle, Owing
    <3>2. Moves(WS, "client") \/ Moves(WS, "response")
      BY <2>5, ProceedMoves DEF Ack, Settle
    <3> QED
      BY <3>1, <3>2, QuietMove DEF Owing
  <2>6. CASE Respond
    BY <2>6, StoppingMove DEF Respond
  <2>7. ASSUME NEW t \in Topics, NEW k \in Keys, PushDelete(t, k)
        PROVE  Records!Next
    BY <2>7, PushDeleteMaps DEF Records!Next
  <2>8. CASE DeleteClient
    BY <2>8, DeleteClientMaps
  <2>9. CASE Unsubscribe
    <3>1. Moves(WS, "webhook") /\ pc[WS] \in Owing /\ lookup_table' = lookup_table
      BY <2>9, ProceedMoves DEF Unsubscribe, Owing
    <3> QED
      BY <3>1, EndingMove DEF Owing
  <2>10. ASSUME NEW p \in Procs, StoreClient(p)
         PROVE  UNCHANGED Records!vars
    <3>1. Moves(p, "lookup") /\ pc[p] \notin Owing /\ lookup_table' = lookup_table
      BY <2>10, ProceedMoves DEF StoreClient, Owing
    <3> QED
      BY <3>1, QuietMove DEF Owing
  <2>11. ASSUME NEW p \in Procs, StoreLookup(p)
         PROVE  Records!Next \/ UNCHANGED Records!vars
    BY <2>11, StoreLookupMaps
  <2>12. ASSUME NEW p \in Procs, Subscribe(p)
         PROVE  Records!Next
    <3>1. Moves(p, "webhook") /\ pc[p] \in Owing /\ lookup_table' = lookup_table
      BY <2>12, ProceedMoves DEF Subscribe, Owing
    <3> QED
      BY <3>1, EndingMove DEF Owing
  <2>13. ASSUME NEW p \in Procs, Webhook(p)
         PROVE  Records!Next \/ UNCHANGED Records!vars
    <3>1. pc[p] \notin Owing /\ lookup_table' = lookup_table
      BY <2>13 DEF Webhook, Owing
    <3>2. \/ Proceed(p, "settle")
          \/ \E answer \in Answers : Finish(p, answer)
      BY <2>13 DEF Webhook, Answers
    <3>3. CASE Proceed(p, "settle")
      BY <3>1, <3>3, ProceedMoves, QuietMove DEF Owing
    <3>4. CASE \E answer \in Answers : Finish(p, answer)
      BY <3>1, <3>4, StoppingMove
    <3> QED
      BY <3>2, <3>3, <3>4
  <2>14. ASSUME NEW p \in Procs, Fail(p)
         PROVE  Records!Next \/ UNCHANGED Records!vars
    <3>1. lookup_table' = lookup_table /\ \E answer \in Answers : Finish(p, answer)
      BY <2>14 DEF Fail, Answers
    <3> QED
      BY <3>1, StoppingMove
  <2>15. ASSUME NEW w \in Workers, HangUp(w)
         PROVE  Records!Next \/ UNCHANGED Records!vars
    BY <2>15, StoppingMove DEF HangUp
  <2>16. CASE Crash
    BY <2>16, CrashMaps DEF Records!Next
  <2>17. CASE UNCHANGED vars
    BY <2>17 DEF vars, OnRecord, RequestTask, ServiceTask, Records!vars
  <2> QED
    BY <2>1, <2>2, <2>3, <2>4, <2>5, <2>6, <2>7, <2>8, <2>9, <2>10, <2>11, <2>12, <2>13,
       <2>14, <2>15, <2>16, <2>17
       DEF Next, Running, HttpNext, Receive, Handle, RegisterClient
<1>3. QED
  BY <1>1, <1>2, Typed, PTL DEF Spec, RecordsFirst, Records!Spec
=============================================================================
