------------------------------- MODULE Notify -------------------------------
(***************************************************************************)
(* POST /:project_id/notify (handlers/notify.rs): a project names accounts *)
(* and cast-server publishes one notification to each of them.             *)
(*                                                                         *)
(* The handler walks a database cursor over the requested accounts, seals  *)
(* the notification for those whose scope has its type, and only then      *)
(* publishes all of them at once, each under a 45 second timeout; the      *)
(* response sorts the accounts into sent, failed and not_found.  Clients   *)
(* register, change scope or key and go away all the while.  One request   *)
(* of one project is followed at a time: requests share nothing but the    *)
(* clients.                                                                *)
(***************************************************************************)
EXTENDS FiniteSets

CONSTANTS
  Accounts,
  Keys,      \* keys of clients; the key is also the topic (its digest)
  BadKeys,   \* not 32 bytes: register_client accepts them, Envelope::new panics
  None

ASSUME NotifyAssumption ==
  /\ BadKeys \subseteq Keys
  /\ None \notin [key : Keys, scoped : BOOLEAN]

\* "scoped": the client's scope contains the type of the notification.
Client == [key : Keys, scoped : BOOLEAN]
Stages == {"idle", "find", "read", "publish", "answered", "failed"}
Outcomes == {"none", "waiting", "acked", "error", "timeout"}

VARIABLES
  clients,    \* the project's collection
  stage,
  accounts,   \* of the request
  unread,     \* accounts the cursor has still to look at
  sent, failed, not_found,  \* the Response
  jobs,       \* <<account, key>> of the PublishJobs
  outcome,    \* of each account's publish future
  expired,    \* NOTIFY_TIMEOUT has passed
  published,  \* <<account, key>> the relay accepted
  \* History of the request, read by no guard:
  agreed,     \* <<account, key>> that were in scope at some moment of it
  absent      \* accounts without a client at some moment of it

response == <<sent, failed, not_found>>
vars == <<clients, stage, accounts, unread, response, jobs, outcome, expired, published,
          agreed, absent>>

TypeOK ==
  /\ clients \in [Accounts -> Client \cup {None}]
  /\ stage \in Stages
  /\ accounts \subseteq Accounts
  /\ unread \subseteq accounts
  /\ sent \subseteq Accounts
  /\ failed \subseteq Accounts
  /\ not_found \subseteq Accounts
  /\ jobs \subseteq Accounts \X Keys
  /\ outcome \in [Accounts -> Outcomes]
  /\ expired \in BOOLEAN
  /\ published \subseteq Accounts \X Keys
  /\ agreed \subseteq Accounts \X Keys
  /\ absent \subseteq Accounts

InScope(cs) == {<<a, cs[a].key>> : a \in {b \in Accounts : cs[b] # None /\ cs[b].scoped}}
Missing(cs) == {a \in Accounts : cs[a] = None}

Init ==
  /\ clients = [a \in Accounts |-> None]
  /\ stage = "idle"
  /\ accounts = {}
  /\ unread = {}
  /\ sent = {}
  /\ failed = {}
  /\ not_found = {}
  /\ jobs = {}
  /\ outcome = [a \in Accounts |-> "none"]
  /\ expired = FALSE
  /\ published = {}
  /\ agreed = {}
  /\ absent = {}

-----------------------------------------------------------------------------
\* Registration, update or deletion of a client, by whoever does it.
ChangeClient(a, c) ==
  /\ clients' = [clients EXCEPT ![a] = c]
  /\ agreed' = agreed \cup InScope(clients')
  /\ absent' = absent \cup Missing(clients')
  /\ UNCHANGED <<stage, accounts, unread, response, jobs, outcome, expired, published>>

\* The accounts whose client find returns; the broken variant is without its filter.
UnfilteredMatches(S) == Accounts
Matches(S) == S

\* All accounts are assumed not found until found.
Request(S) ==
  /\ stage \in {"idle", "answered", "failed"}
  /\ stage' = "find"
  /\ accounts' = S
  /\ unread' = Matches(S)
  /\ sent' = {}
  /\ failed' = {}
  /\ not_found' = S
  /\ jobs' = {}
  /\ outcome' = [a \in Accounts |-> "none"]
  /\ expired' = FALSE
  /\ published' = {}
  /\ agreed' = InScope(clients)
  /\ absent' = Missing(clients)
  /\ UNCHANGED clients

Find ==
  /\ stage = "find"
  /\ stage' = "read"
  /\ UNCHANGED <<clients, accounts, unread, response, jobs, outcome, expired, published,
                 agreed, absent>>

\* An account with a client leaves not_found; the broken variant forgets to.
NeverFound(a) == not_found' = not_found
Found(a) == not_found' = not_found \ {a}

\* The check of the scope, and without it.
AnyScope(c) == TRUE
Wants(c) == c.scoped

(* One turn of the loop of generate_publish_jobs, for account a: there is  *)
(* no client of that name, or it is out of scope, or it gets a job.        *)
ReadClient(a) ==
  LET c == clients[a] IN
  /\ stage = "read"
  /\ a \in unread
  /\ unread' = unread \ {a}
  /\ \/ c = None /\ UNCHANGED <<not_found, failed, jobs>>
     \/ /\ c # None
        /\ ~Wants(c)
        /\ Found(a)
        /\ failed' = failed \cup {a}
        /\ jobs' = jobs
     \/ /\ c # None
        /\ Wants(c)
        /\ c.key \notin BadKeys
        /\ Found(a)
        /\ failed' = failed
        /\ jobs' = jobs \cup {<<a, c.key>>}
  /\ UNCHANGED <<clients, stage, accounts, sent, outcome, expired, published, agreed, absent>>

\* Where the handler can fail; the broken variant returns errors of publish too.
FallibleThroughout == stage \in {"find", "read", "publish"}
Fallible == stage \in {"find", "read"}

\* find or the cursor fails, a key is not one, or the caller hangs up.
Abandon ==
  /\ Fallible
  /\ stage' = "failed"
  /\ UNCHANGED <<clients, accounts, unread, response, jobs, outcome, expired, published,
                 agreed, absent>>

\* Broken variant: publishing starts before the cursor is at its end.
StartPublishingEarly ==
  /\ stage = "read"
  /\ stage' = "publish"
  /\ outcome' = [a \in Accounts |-> IF \E k \in Keys : <<a, k>> \in jobs THEN "waiting" ELSE "none"]
  /\ UNCHANGED <<clients, accounts, unread, response, jobs, expired, published, agreed, absent>>

\* process_publish_jobs: join_all polls all the futures.
StartPublishing ==
  /\ stage = "read"
  /\ unread = {}
  /\ stage' = "publish"
  /\ outcome' = [a \in Accounts |-> IF \E k \in Keys : <<a, k>> \in jobs THEN "waiting" ELSE "none"]
  /\ UNCHANGED <<clients, accounts, unread, response, jobs, expired, published, agreed, absent>>

-----------------------------------------------------------------------------
\* The relay takes a message that was sent, also after the caller gave up on it.
RelayAccepts(job) ==
  /\ job \in jobs \ published
  /\ outcome[job[1]] \in {"waiting", "timeout"}
  /\ published' = published \cup {job}
  /\ UNCHANGED <<clients, stage, accounts, unread, response, jobs, outcome, expired,
                 agreed, absent>>

Resolve(a, o) ==
  /\ stage = "publish"
  /\ outcome[a] = "waiting"
  /\ outcome' = [outcome EXCEPT ![a] = o]
  /\ UNCHANGED <<clients, stage, accounts, unread, response, jobs, expired, published,
                 agreed, absent>>

RelayAcks(a) == (\E k \in Keys : <<a, k>> \in published) /\ Resolve(a, "acked")

\* publish returns an error, before or after the relay took the message.
PublishFails(a) == Resolve(a, "error")

\* Broken variant: one timeout for all the futures, spent on the first.
TimeoutFiresOnce(a) ==
  expired /\ (\A b \in Accounts : outcome[b] # "timeout") /\ Resolve(a, "timeout")

TimeoutFires(a) == expired /\ Resolve(a, "timeout")

TimePasses ==
  /\ stage = "publish"
  /\ ~expired
  /\ expired' = TRUE
  /\ UNCHANGED <<clients, stage, accounts, unread, response, jobs, outcome, published,
                 agreed, absent>>

\* The map over the timeout's result drops what is inside its Ok: a publish that
\* returned an error in time counts as sent.
Succeeded(o) == o \in {"acked", "error"}

Answer ==
  /\ stage = "publish"
  /\ \A a \in Accounts : outcome[a] # "waiting"
  /\ sent' = sent \cup {a \in Accounts : Succeeded(outcome[a])}
  /\ failed' = failed \cup {a \in Accounts : outcome[a] # "none" /\ ~Succeeded(outcome[a])}
  /\ stage' = "answered"
  /\ UNCHANGED <<clients, accounts, unread, not_found, jobs, outcome, expired, published,
                 agreed, absent>>

\* The caller hangs up; what was sent may still arrive.
HangUp ==
  /\ stage = "publish"
  /\ stage' = "idle"
  /\ UNCHANGED <<clients, accounts, unread, response, jobs, outcome, expired, published,
                 agreed, absent>>

-----------------------------------------------------------------------------
Handler ==
  \/ Find
  \/ \E a \in Accounts : ReadClient(a) \/ TimeoutFires(a)
  \/ Abandon \/ StartPublishing \/ TimePasses \/ Answer

Relay ==
  \/ \E job \in Accounts \X Keys : RelayAccepts(job)
  \/ \E a \in Accounts : RelayAcks(a) \/ PublishFails(a)

Caller ==
  \/ \E S \in SUBSET Accounts : Request(S)
  \/ \E a \in Accounts, c \in Client \cup {None} : ChangeClient(a, c)
  \/ HangUp

Next == Handler \/ Relay \/ Caller

Spec == Init /\ [][Next]_vars

(***************************************************************************)
(* The handler is polled and its timer runs; the database answers or fails.*)
(* Nothing is assumed of the relay.                                        *)
(***************************************************************************)
FairSpec == Spec /\ WF_vars(Handler)

-----------------------------------------------------------------------------
(* The response sorts the requested accounts: each is in exactly one of    *)
(* sent, failed and not_found (Response in notify.rs).                     *)
ResponsePartition ==
  stage = "answered" =>
    /\ sent \cup failed \cup not_found = accounts
    /\ sent \cap failed = {}
    /\ sent \cap not_found = {}
    /\ failed \cap not_found = {}

(* A notification is published only under a key the account's client had,  *)
(* with the notification's type in its scope, at some moment since the     *)
(* request came in (generate_publish_jobs).                                *)
OnlyToSubscribers == published \subseteq agreed

(* not_found names only accounts that had no client at some moment of the  *)
(* request, however clients come and go while the cursor is read.          *)
NotFoundWasAbsent == stage \in {"publish", "answered"} => not_found \subseteq absent

(* A request that fails while it reads the clients, also because one of    *)
(* them has an unusable key, has published nothing to anyone (jobs are     *)
(* made first, then sent).                                                 *)
FailurePublishesNothing == stage = "failed" => published = {}

(* A request is answered within the timeout even if the relay never is,    *)
(* unless it fails or its caller leaves (process_publish_jobs).            *)
AlwaysAnswered == stage = "publish" ~> stage # "publish"

\* A request as its caller and the subscribers see it.
Status ==
  CASE stage \in {"find", "read", "publish"} -> "open"
    [] stage = "answered" -> "answered"
    [] stage = "failed" -> "refused"
    [] stage = "idle" -> "over"

Told ==
  IF stage = "answered" THEN [sent |-> sent, failed |-> failed, not_found |-> not_found]
                        ELSE [sent |-> {}, failed |-> {}, not_found |-> {}]

Contract == INSTANCE Notifications WITH
  inScope <- InScope(clients),
  unknown <- Missing(clients),
  status <- Status,
  requested <- accounts,
  answer <- Told,
  delivered <- published

(* The handler implements the contract of Notifications: at most one       *)
(* notification per account and request, under a key that was in scope     *)
(* meanwhile; an answer that is given in one step and stands whatever      *)
(* arrives after it; and a refusal only before anything was sent           *)
(* (notify.rs).                                                            *)
ContractKept == Contract!Spec

(* An account reported as sent is one the relay acknowledged: the handler  *)
(* says it is waiting for relay ack.                                       *)
SentMeansAcked ==
  stage = "answered" => \A a \in sent : outcome[a] = "acked"
=============================================================================
