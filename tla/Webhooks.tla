------------------------------ MODULE Webhooks ------------------------------
(***************************************************************************)
(* The webhooks of projects: the handlers that keep their table            *)
(* (handlers/webhooks) and AppState::notify_webhook, which tells those of  *)
(* one project that an account subscribed or unsubscribed (state.rs).      *)
(*                                                                         *)
(* notify_webhook reads the table through a cursor and POSTs to one        *)
(* endpoint after the other, while the project registers, updates and      *)
(* deletes webhooks.  The cursor hands out documents that the database     *)
(* returned several at a time, so one may be told at a url it no longer    *)
(* has.  One call is followed at a time: calls share nothing but the       *)
(* table, which they do not write.  Listing webhooks only reads.           *)
(***************************************************************************)
EXTENDS FiniteSets

CONSTANTS
  Ids,        \* uuids; one that is free again stands for a fresh one
  Projects,
  Urls,
  HttpsUrls,  \* those validate_url accepts
  None

Events == {"subscribed", "unsubscribed"}
Hook == [project : Projects, url : Urls, events : SUBSET Events]

ASSUME WebhooksAssumption ==
  /\ HttpsUrls \subseteq Urls
  /\ None \notin Hook
  /\ None \notin Ids \X Urls

VARIABLES
  webhooks,        \* the table
  stage,           \* of the call
  project, event,  \* its arguments
  unread,          \* ids the database has still to look at for its cursor
  batch,           \* documents it fetched for the cursor, as they were then
  at,              \* the webhook the call has read and is telling
  posted,          \* <<id, url>> that received the event
  \* History of the call, read by no guard:
  wanted,          \* <<id, url>> registered for the event at some moment of it
  steady           \* <<id, url>> registered for it at every moment

callVars == <<stage, project, event, unread, batch, at>>
vars == <<webhooks, callVars, posted, wanted, steady>>

Stages == {"idle", "find", "fetch", "read", "post", "done", "failed"}

Table == [Ids -> Hook \cup {None}]
Nothing == [i \in Ids |-> None]

TypeOK ==
  /\ webhooks \in Table
  /\ stage \in Stages
  /\ project \in Projects \cup {None}
  /\ event \in Events \cup {None}
  /\ unread \subseteq Ids
  /\ batch \in Table
  /\ stage = "done" => unread = {} /\ batch = Nothing
  /\ IF stage = "post" THEN at \in Ids \X Urls ELSE at = None
  /\ posted \subseteq Ids \X Urls
  /\ wanted \subseteq Ids \X Urls
  /\ steady \subseteq Ids \X Urls

Init ==
  /\ webhooks = Nothing
  /\ stage = "idle"
  /\ project = None
  /\ event = None
  /\ unread = {}
  /\ batch = Nothing
  /\ at = None
  /\ posted = {}
  /\ wanted = {}
  /\ steady = {}

\* The broken variant looks at any project's webhooks.
AnyProject(h, p) == h # None
OfProject(h, p) == h # None /\ h.project = p
Wants(h, e) == e \in h.events

Registered(table, p, e) ==
  {<<i, table[i].url>> : i \in {j \in Ids : /\ table[j] # None
                                            /\ table[j].project = p
                                            /\ e \in table[j].events}}

-----------------------------------------------------------------------------
(* The table.  Filters name the project of the request and the id.         *)

Write(i, h) ==
  /\ webhooks' = [webhooks EXCEPT ![i] = h]
  /\ wanted' = wanted \cup Registered(webhooks', project, event)
  /\ steady' = steady \cap Registered(webhooks', project, event)
  /\ UNCHANGED <<callVars, posted>>

RegisterWebhook(i, h) ==
  /\ webhooks[i] = None
  /\ h.url \in HttpsUrls
  /\ Write(i, h)

\* The url of an update is not validated.
UpdateWebhook(i, h) ==
  /\ OfProject(webhooks[i], h.project)
  /\ Write(i, h)

DeleteWebhook(i, p) ==
  /\ OfProject(webhooks[i], p)
  /\ Write(i, None)

-----------------------------------------------------------------------------
(* notify_webhook.                                                         *)

Call(p, e) ==
  /\ stage \in {"idle", "done", "failed"}
  /\ stage' \in {"find", "failed"}  \* "failed": the account is invalid
  /\ project' = p
  /\ event' = e
  /\ posted' = {}
  /\ wanted' = Registered(webhooks, p, e)
  /\ steady' = Registered(webhooks, p, e)
  /\ UNCHANGED <<webhooks, unread, batch, at>>

\* The cursor returns every document that is there from now on, and may return one
\* that is inserted later.
Find ==
  /\ stage = "find"
  /\ stage' = "fetch"
  /\ \E S \in SUBSET Ids :
       /\ {i \in Ids : OfProject(webhooks[i], project)} \subseteq S
       /\ unread' = S
  /\ UNCHANGED <<webhooks, project, event, batch, at, posted, wanted, steady>>

\* The database, at work on find or getMore, looks at one document.
Fetch(i) ==
  /\ stage = "fetch"
  /\ i \in unread
  /\ unread' = unread \ {i}
  /\ batch' = IF OfProject(webhooks[i], project)
              THEN [batch EXCEPT ![i] = webhooks[i]] ELSE batch
  /\ UNCHANGED <<webhooks, stage, project, event, at, posted, wanted, steady>>

\* It returns some of them, which the table may have left behind by now.
Fetched ==
  /\ stage = "fetch"
  /\ batch # Nothing \/ unread = {}
  /\ stage' = "read"
  /\ UNCHANGED <<webhooks, project, event, unread, batch, at, posted, wanted, steady>>

\* What a webhook without the event does to the loop; in the broken variant it ends it.
BreakAt(i) == unread' = {} /\ batch' = Nothing
PassOver(i) == unread' = unread /\ batch' = [batch EXCEPT ![i] = None]

\* try_next hands out a document as it was fetched.
Read(i) ==
  /\ stage = "read"
  /\ batch[i] # None
  /\ \/ /\ Wants(batch[i], event)
        /\ at' = <<i, batch[i].url>>
        /\ stage' = "post"
        /\ unread' = unread
        /\ batch' = [batch EXCEPT ![i] = None]
     \/ ~Wants(batch[i], event) /\ PassOver(i) /\ UNCHANGED <<stage, at>>
  /\ UNCHANGED <<webhooks, project, event, posted, wanted, steady>>

\* try_next asks for more only when it has handed out all that it has.
GetMore ==
  /\ stage = "read"
  /\ batch = Nothing
  /\ unread # {}
  /\ stage' = "fetch"
  /\ UNCHANGED <<webhooks, project, event, unread, batch, at, posted, wanted, steady>>

IfLet == TRUE  \* broken variant: the cursor is asked once, not until it is empty
Exhausted == unread = {} /\ batch = Nothing

CursorEnds ==
  /\ stage = "read"
  /\ Exhausted
  /\ stage' = "done"
  /\ UNCHANGED <<webhooks, project, event, unread, batch, at, posted, wanted, steady>>

\* The endpoint gets the POST; nothing obliges it to.
PostArrives ==
  /\ stage = "post"
  /\ posted' = posted \cup {at}
  /\ UNCHANGED <<webhooks, callVars, wanted, steady>>

\* Whatever its status, a response is enough.
PostAnswered ==
  /\ stage = "post"
  /\ at \in posted
  /\ stage' = "read"
  /\ at' = None
  /\ UNCHANGED <<webhooks, project, event, unread, batch, posted, wanted, steady>>

\* An error of find, of the cursor or of a POST ends the call and leaves the
\* remaining webhooks untold, as does the end of the request it is part of.
Abandon ==
  /\ stage \in {"find", "fetch", "read", "post"}
  /\ stage' = "failed"
  /\ unread' = {}
  /\ batch' = Nothing
  /\ at' = None
  /\ UNCHANGED <<webhooks, project, event, posted, wanted, steady>>

-----------------------------------------------------------------------------
WriteTable ==
  \/ \E i \in Ids, h \in Hook : RegisterWebhook(i, h) \/ UpdateWebhook(i, h)
  \/ \E i \in Ids, p \in Projects : DeleteWebhook(i, p)

NotifyWebhook ==
  \/ \E p \in Projects, e \in Events : Call(p, e)
  \/ Find \/ Fetched \/ GetMore \/ CursorEnds \/ PostArrives \/ PostAnswered \/ Abandon
  \/ \E i \in Ids : Fetch(i) \/ Read(i)

Next == WriteTable \/ NotifyWebhook

Spec == Init /\ [][Next]_vars

-----------------------------------------------------------------------------
(* A call that succeeds has told every webhook that was registered for the *)
(* event all along, at the url it had all along, however many others came, *)
(* changed and went while the cursor was read (notify_webhook).            *)
EveryoneTold == stage = "done" => steady \subseteq posted

(* An event is posted only to an id and url the project had registered for *)
(* that event at some moment of the call: perhaps no longer when the POST  *)
(* goes out, for the document may have been fetched before an earlier POST *)
(* during which it was updated or deleted, but never at a url that was     *)
(* gone before the call, nor one the project never had (notify_webhook).   *)
OnlyRegistered == posted \subseteq wanted
=============================================================================
