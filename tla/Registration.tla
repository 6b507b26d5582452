---------------------------- MODULE Registration ----------------------------
(***************************************************************************)
(* The subscription records of cast-server and every operation that writes *)
(* them: POST /:project_id/register (handlers/register.rs), the three      *)
(* wallet messages push_subscribe (4006), push_update (4008) and           *)
(* push_delete (4004), and AppState::register_client, which the first      *)
(* three share (state.rs).                                                 *)
(*                                                                         *)
(* A registration is two MongoDB documents written one after the other:    *)
(* the client in the collection named after its project, and the lookup    *)
(* entry that leads from the relay topic back to the client.  No           *)
(* transaction ties them.  HTTP requests run concurrently; the websocket   *)
(* service is one more process, which handles one relay message at a time. *)
(*                                                                         *)
(* A stage of a process is the code between two awaits that touch shared   *)
(* state.  Requests refused before the first write (malformed body, URL,   *)
(* key or JWT) change nothing and are not actions.  Decryption is the      *)
(* comparison of the key a message is sealed with and the key on record.   *)
(* What the relay has subscribed is the business of RelaySession, and the  *)
(* loop over webhooks is a single stage here.                              *)
(***************************************************************************)
EXTENDS FiniteSets

CONSTANTS
  Projects,       \* projects whose /subscribe-topic was called
  Accounts,       \* CAIP-10 accounts and strings that are not one
  ValidAccounts,  \* those is_valid_account accepts
  Keys,           \* hex strings of symmetric keys
  Topics,         \* sha256 digests
  TopicOf,        \* topic of the bytes a key string decodes to
  WalletKeys,     \* keys the wallets bring; the others are free to be minted
  Workers,        \* concurrent HTTP requests
  WS,             \* the websocket service
  None,           \* absent document
  MayFail         \* whether the database, the relay, a webhook or the process fails

ASSUME RegistrationAssumption ==
  /\ ValidAccounts \subseteq Accounts
  /\ WalletKeys \subseteq Keys
  /\ TopicOf \in [Keys -> Topics]
  /\ WS \notin Workers
  /\ MayFail \in BOOLEAN
  /\ None \notin Keys
  /\ None \notin Projects \X Accounts
  /\ None \notin [op      : {"register", "push_subscribe", "push_update", "push_delete"},
                  from    : Projects \X Accounts,
                  client  : Projects \X Accounts,
                  topic   : Topics,
                  key     : Keys]

Clients == Projects \X Accounts
Procs == Workers \cup {WS}

(***************************************************************************)
(* "from" is the client the lookup table gave for the topic of a message;  *)
(* "client" the one the operation writes or deletes.                       *)
(***************************************************************************)
Ops == {"register", "push_subscribe", "push_update", "push_delete"}
Job == [op : Ops, from : Clients, client : Clients, topic : Topics, key : Keys]

Storing == {"client", "lookup", "subscribe", "webhook"}  \* register_client
Answers == {"created", "bad_request", "not_found"}
Stages == {"idle", "settle", "response", "find_client", "ack", "delete_client",
           "unsubscribe"} \cup Storing \cup Answers

VARIABLES
  clients,       \* client documents: the sym_key of each client
  lookup_table,  \* the client each topic leads to
  pc,            \* stage each process is about to run
  job,           \* arguments and locals of each process
  minted,        \* keys push_subscribe generated
  told,          \* minted keys whose public half was published to the wallet
  \* History, read by no guard:
  torn,          \* <<client, topic>>: the two documents were left out of step
  cut            \* keys of push_subscribes that ended without a response

vars == <<clients, lookup_table, pc, job, minted, told, torn, cut>>

TypeOK ==
  /\ clients \in [Clients -> Keys \cup {None}]
  /\ lookup_table \in [Topics -> Clients \cup {None}]
  /\ pc \in [Procs -> Stages]
  /\ job \in [Procs -> Job \cup {None}]
  /\ minted \subseteq Keys
  /\ told \subseteq Keys
  /\ torn \subseteq Clients \X Topics
  /\ cut \subseteq Keys

Init ==
  /\ clients = [c \in Clients |-> None]
  /\ lookup_table = [t \in Topics |-> None]
  /\ pc = [p \in Procs |-> "idle"]
  /\ job = [p \in Procs |-> None]
  /\ minted = {}
  /\ told = {}
  /\ torn = {}
  /\ cut = {}

-----------------------------------------------------------------------------
Idle(p) == pc[p] \in {"idle"} \cup Answers

Goto(p, stage) == pc' = [pc EXCEPT ![p] = stage]

\* The end of an operation: a request has its answer, the service only logs.
Finish(p, answer) ==
  /\ Goto(p, IF p = WS THEN "idle" ELSE answer)
  /\ job' = [job EXCEPT ![p] = None]

Proceed(p, stage) == Goto(p, stage) /\ job' = job

Held == WalletKeys \cup told  \* the keys some wallet holds

\* A chacha20 box sealed with key k opens with the key string on record.
Opens(k, stored) == TopicOf[k] = TopicOf[stored]

\* The document pair that stopping p here leaves out of step.
LeftTorn(p) ==
  IF pc[p] \in {"lookup", "delete_client"} THEN {<<job[p].client, job[p].topic>>} ELSE {}

\* The minted key that stopping p here keeps from its wallet.
LeftUntold(p) ==
  IF /\ pc[p] \in Storing \cup {"settle", "response"}
     /\ job[p].op = "push_subscribe"
  THEN {job[p].key} ELSE {}

-----------------------------------------------------------------------------
(* POST /:project_id/register: the body names any account and any key.     *)
Register(w, c, k) ==
  /\ Idle(w)
  /\ k \in Held
  /\ job' = [job EXCEPT ![w] = [op |-> "register", from |-> c, client |-> c,
                                topic |-> TopicOf[k], key |-> k]]
  /\ Goto(w, "client")
  /\ UNCHANGED <<clients, lookup_table, minted, told, torn, cut>>

(* push_subscribe on a project's topic: the server draws a fresh secret,   *)
(* so the client's key is one the wallet cannot know before the response.  *)
PushSubscribe(c, k) ==
  /\ Idle(WS)
  /\ k \notin WalletKeys \cup minted
  /\ minted' = minted \cup {k}
  /\ job' = [job EXCEPT ![WS] = [op |-> "push_subscribe", from |-> c, client |-> c,
                                 topic |-> TopicOf[k], key |-> k]]
  /\ Goto(WS, "client")
  /\ UNCHANGED <<clients, lookup_table, told, torn, cut>>

(* push_update on topic t, sealed with k, its JWT naming account a: that   *)
(* account's client is written, be it the topic's or not, there or not,    *)
(* with the key the topic's client has when it is read; a registration of  *)
(* it that comes between the read and the write is undone.                 *)
PushUpdate(t, k, a) ==
  /\ Idle(WS)
  /\ k \in Held
  /\ lookup_table[t] # None
  /\ job' = [job EXCEPT ![WS] = [op |-> "push_update", from |-> lookup_table[t],
                                 client |-> <<lookup_table[t][1], a>>, topic |-> t, key |-> k]]
  /\ Goto(WS, "find_client")
  /\ UNCHANGED <<clients, lookup_table, minted, told, torn, cut>>

\* Broken variant: a client that is gone is not noticed.
FindClientUnchecked ==
  LET stored == clients[job[WS].from] IN
  /\ pc[WS] = "find_client"
  /\ IF stored = None \/ Opens(job[WS].key, stored)
     THEN /\ job' = [job EXCEPT ![WS].key = stored]
          /\ Goto(WS, "ack")
     ELSE Finish(WS, "idle")
  /\ UNCHANGED <<clients, lookup_table, minted, told, torn, cut>>

\* find_one of the client, then decryption with the key it has now; from here
\* on the handler works with that copy of the key, and register_client will take
\* the topic from it, not from the message.
FindClient ==
  LET stored == clients[job[WS].from]
      opened == stored # None /\ Opens(job[WS].key, stored) IN
  /\ pc[WS] = "find_client"
  /\ IF opened
     THEN /\ job' = [job EXCEPT ![WS] = [op |-> "push_update", from |-> job[WS].from,
                                         client |-> job[WS].client,
                                         topic |-> TopicOf[stored], key |-> stored]]
          /\ Goto(WS, "ack")
     ELSE Finish(WS, "idle")
  /\ UNCHANGED <<clients, lookup_table, minted, told, torn, cut>>

\* The acknowledgement (4009, result true) goes out before the update is stored.
Ack ==
  /\ pc[WS] = "ack"
  /\ Proceed(WS, "client")
  /\ UNCHANGED <<clients, lookup_table, minted, told, torn, cut>>

-----------------------------------------------------------------------------
(* AppState::register_client, one await after the other.                   *)

\* Broken variant: a client that is there already needs no lookup entry.
StoreClientOnce(p) ==
  /\ pc[p] = "client"
  /\ clients' = [clients EXCEPT ![job[p].client] = job[p].key]
  /\ Proceed(p, IF clients[job[p].client] = None THEN "lookup" ELSE "subscribe")
  /\ UNCHANGED <<lookup_table, minted, told, torn, cut>>

StoreClient(p) ==
  /\ pc[p] = "client"
  /\ clients' = [clients EXCEPT ![job[p].client] = job[p].key]
  /\ Proceed(p, "lookup")
  /\ UNCHANGED <<lookup_table, minted, told, torn, cut>>

\* Whether the topic has an entry; the broken variant replaces it, whoever's it is.
NeverTaken(t) == FALSE
Taken(t) == lookup_table[t] # None

\* Broken variant: an entry that cannot be written takes the client back.
StoreLookupRollback(p) ==
  LET t == job[p].topic
      c == job[p].client IN
  /\ pc[p] = "lookup"
  /\ \/ /\ ~Taken(t)
        /\ clients' = clients
        /\ lookup_table' = [lookup_table EXCEPT ![t] = c]
        /\ Proceed(p, "subscribe")
     \/ /\ Taken(t)
        /\ clients' = [clients EXCEPT ![c] = None]
        /\ lookup_table' = lookup_table
        /\ Finish(p, "bad_request")
  /\ UNCHANGED <<minted, told, torn, cut>>

\* replace_one filters on a field "topic", which no entry has (the topic is the
\* _id), so it never replaces: it inserts, and a second entry for the topic is a
\* duplicate key, which ends register_client with a Database error.
StoreLookup(p) ==
  LET t == job[p].topic
      c == job[p].client IN
  /\ pc[p] = "lookup"
  /\ \/ /\ ~Taken(t)
        /\ lookup_table' = [lookup_table EXCEPT ![t] = c]
        /\ Proceed(p, "subscribe")
        /\ torn' = torn \ {<<c, t>>}
        /\ cut' = cut
     \/ /\ Taken(t)
        /\ lookup_table' = lookup_table
        /\ Finish(p, "bad_request")
        /\ torn' = IF lookup_table[t] = c THEN torn ELSE torn \cup {<<c, t>>}
        /\ cut' = cut \cup LeftUntold(p)
  /\ UNCHANGED <<clients, minted, told>>

Subscribe(p) ==
  /\ pc[p] = "subscribe"
  /\ Proceed(p, "webhook")
  /\ UNCHANGED <<clients, lookup_table, minted, told, torn, cut>>

\* Broken variant: push_subscribe ends with register_client.
WebhookEndsSubscribe(p) ==
  /\ pc[p] = "webhook"
  /\ \/ /\ job[p].client[2] \notin ValidAccounts
        /\ Finish(p, "not_found")
        /\ cut' = cut \cup LeftUntold(p)
     \/ /\ job[p].client[2] \in ValidAccounts
        /\ Finish(p, "created")
        /\ cut' = cut
  /\ UNCHANGED <<clients, lookup_table, minted, told, torn>>

\* notify_webhook, for the event of the operation: the account is looked at
\* here for the first time, after everything else was done.
Webhook(p) ==
  /\ pc[p] = "webhook"
  /\ \/ /\ job[p].client[2] \notin ValidAccounts
        /\ Finish(p, "not_found")
        /\ cut' = cut \cup LeftUntold(p)
     \/ /\ job[p].client[2] \in ValidAccounts
        /\ IF job[p].op = "push_subscribe" THEN Proceed(p, "settle") ELSE Finish(p, "created")
        /\ cut' = cut
  /\ UNCHANGED <<clients, lookup_table, minted, told, torn>>

\* push_subscribe after register_client: a noop (4050) on the new topic, ...
Settle ==
  /\ pc[WS] = "settle"
  /\ Proceed(WS, "response")
  /\ UNCHANGED <<clients, lookup_table, minted, told, torn, cut>>

\* ... then the response (4007) that carries the server's public key.
Respond ==
  /\ pc[WS] = "response"
  /\ told' = told \cup {job[WS].key}
  /\ Finish(WS, "idle")
  /\ UNCHANGED <<clients, lookup_table, minted, torn, cut>>

-----------------------------------------------------------------------------
(* push_delete on topic t, sealed with k: find_one_and_delete of the       *)
(* lookup entry, then of the client it names, then decryption.             *)
PushDelete(t, k) ==
  /\ Idle(WS)
  /\ k \in Held
  /\ lookup_table[t] # None
  /\ lookup_table' = [lookup_table EXCEPT ![t] = None]
  /\ job' = [job EXCEPT ![WS] = [op |-> "push_delete", from |-> lookup_table[t],
                                 client |-> lookup_table[t], topic |-> t, key |-> k]]
  /\ Goto(WS, "delete_client")
  /\ UNCHANGED <<clients, minted, told, torn, cut>>

\* Broken variant: a client is deleted only for a box its key opens.
DeleteClientIfOpened ==
  LET c == job[WS].client
      opened == clients[c] # None /\ Opens(job[WS].key, clients[c]) IN
  /\ pc[WS] = "delete_client"
  /\ clients' = IF opened THEN [clients EXCEPT ![c] = None] ELSE clients
  /\ IF opened THEN Proceed(WS, "unsubscribe") ELSE Finish(WS, "idle")
  /\ UNCHANGED <<lookup_table, minted, told, torn, cut>>

\* The client goes whatever its key; only a box its key opens is followed up.
DeleteClient ==
  LET c == job[WS].client IN
  /\ pc[WS] = "delete_client"
  /\ clients' = [clients EXCEPT ![c] = None]
  /\ IF clients[c] # None /\ Opens(job[WS].key, clients[c])
     THEN Proceed(WS, "unsubscribe") ELSE Finish(WS, "idle")
  /\ UNCHANGED <<lookup_table, minted, told, torn, cut>>

\* An error of unsubscribe is only logged.
Unsubscribe ==
  /\ pc[WS] = "unsubscribe"
  /\ Proceed(WS, "webhook")
  /\ UNCHANGED <<clients, lookup_table, minted, told, torn, cut>>

-----------------------------------------------------------------------------
(* An await fails and the handler returns the error.  A Database error is  *)
(* answered 400, any other 404 (error.rs).                                 *)
Fail(p) ==
  /\ MayFail
  /\ ~Idle(p)
  /\ pc[p] # "unsubscribe"
  /\ \/ pc[p] \in {"client", "lookup", "webhook"} /\ Finish(p, "bad_request")
     \/ pc[p] \notin {"client", "lookup"} /\ Finish(p, "not_found")
  /\ torn' = torn \cup LeftTorn(p)
  /\ cut' = cut \cup LeftUntold(p)
  /\ UNCHANGED <<clients, lookup_table, minted, told>>

\* The caller of an HTTP request hangs up and its future is dropped.
HangUp(w) ==
  /\ MayFail
  /\ ~Idle(w)
  /\ Finish(w, "idle")
  /\ torn' = torn \cup LeftTorn(w)
  /\ cut' = cut \cup LeftUntold(w)
  /\ UNCHANGED <<clients, lookup_table, minted, told>>

\* The process stops and starts again with what the database holds.
Crash ==
  /\ MayFail
  /\ pc' = [p \in Procs |-> "idle"]
  /\ job' = [p \in Procs |-> None]
  /\ torn' = torn \cup UNION {LeftTorn(p) : p \in Procs}
  /\ cut' = cut \cup UNION {LeftUntold(p) : p \in Procs}
  /\ UNCHANGED <<clients, lookup_table, minted, told>>

-----------------------------------------------------------------------------
RegisterClient(p) ==
  StoreClient(p) \/ StoreLookup(p) \/ Subscribe(p) \/ Webhook(p)

HttpNext(w) ==
  \/ \E c \in Clients, k \in Keys : Register(w, c, k)
  \/ HangUp(w)

Receive ==
  \/ \E c \in Clients, k \in Keys : PushSubscribe(c, k)
  \/ \E t \in Topics, k \in Keys, a \in Accounts : PushUpdate(t, k, a)
  \/ \E t \in Topics, k \in Keys : PushDelete(t, k)

Handle ==
  \/ FindClient \/ Ack \/ Settle \/ Respond \/ DeleteClient \/ Unsubscribe

Running ==
  \/ \E w \in Workers : HttpNext(w)
  \/ Receive
  \/ Handle
  \/ \E p \in Procs : RegisterClient(p) \/ Fail(p)

Next == Running \/ Crash

Spec == Init /\ [][Next]_vars

-----------------------------------------------------------------------------
(* Some process is between the two writes of this client and topic.        *)
InFlight(c, t) ==
  \E p \in Procs : /\ pc[p] \in {"lookup", "delete_client"}
                   /\ job[p].client = c
                   /\ job[p].topic = t

Reachable(c, t) ==
  \/ lookup_table[t] = c
  \/ InFlight(c, t)
  \/ <<c, t>> \in torn

(* A stored client can be reached from the topic of its key: the lookup    *)
(* table leads from that topic to it, so the wallet's update and delete    *)
(* messages find it and a restart resubscribes its topic.  The only ways   *)
(* out are an operation now between its two writes, one that was stopped   *)
(* there, and a topic another client already holds (state.rs, push_delete).*)
ClientReachable ==
  \A c \in Clients : clients[c] # None => Reachable(c, TopicOf[clients[c]])

(* A client on record under a key the server minted is one whose wallet    *)
(* was sent the server's half of it, unless push_subscribe is still at     *)
(* work on it or was stopped before the response (push_subscribe.rs).      *)
WalletKnowsKey ==
  \A c \in Clients :
    clients[c] \in minted =>
      \/ clients[c] \in told \cup cut
      \/ clients[c] \in LeftUntold(WS)

\* What requests and the service have still to take to the relay.
OnRecord == {t \in Topics : lookup_table[t] # None}

RequestTask == [w \in Workers |-> IF pc[w] = "subscribe" THEN {job[w].topic} ELSE {}]

ServiceTask ==
  CASE pc[WS] = "subscribe" -> [to |-> "subscribe", topic |-> {job[WS].topic}]
    [] pc[WS] \in {"delete_client", "unsubscribe"} ->
         [to |-> "unsubscribe", topic |-> {job[WS].topic}]
    [] OTHER -> [to |-> "nothing", topic |-> {}]

Records == INSTANCE TopicRecords WITH
  Requests <- Workers,
  entries <- OnRecord,
  request <- RequestTask,
  service <- ServiceTask

(* The relay is asked to subscribe a topic only by the operation that has  *)
(* just put it in the lookup table, and to unsubscribe it only by the one  *)
(* that took it out, whatever fails, hangs up or crashes in between        *)
(* (register_client, push_delete).                                         *)
RecordsFirst == Records!Spec

(* Every well-formed registration is answered 201, also one that brings a  *)
(* key already registered: the test of /notify registers two accounts with *)
(* one key and asserts success (tests/handler/notify.rs).                  *)
RegisterSucceeds == \A w \in Workers : pc[w] # "bad_request"
=============================================================================
