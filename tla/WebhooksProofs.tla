--------------------------- MODULE WebhooksProofs ---------------------------
(***************************************************************************)
(* Safety of Webhooks, for any number of webhooks and projects.            *)
(***************************************************************************)
EXTENDS Webhooks, TLAPS

USE WebhooksAssumption

LEMMA RegisteredType ==
  ASSUME NEW table \in Table, NEW p, NEW e
  PROVE  Registered(table, p, e) \subseteq Ids \X Urls
BY DEF Registered, Table, Hook

LEMMA NothingType == Nothing \in Table /\ \A i \in Ids : Nothing[i] = None
BY DEF Nothing, Table

LEMMA PassOverType ==
  ASSUME TypeOK, NEW i \in Ids, PassOver(i)
  PROVE  batch' \in Table /\ unread' \subseteq Ids
BY DEF TypeOK, PassOver, Table

LEMMA TypeOKNext == TypeOK /\ [Next]_vars => TypeOK'
<1> SUFFICES ASSUME TypeOK, [Next]_vars PROVE TypeOK'
  OBVIOUS
<1> USE DEF TypeOK, Stages, callVars
<1>1. ASSUME NEW i \in Ids, NEW h \in Hook \cup {None}, Write(i, h)
      PROVE  TypeOK'
  <2>1. webhooks' \in Table
    BY <1>1 DEF Write, Table
  <2> QED
    BY <1>1, <2>1, RegisteredType DEF Write
<1>2. ASSUME NEW p \in Projects, NEW e \in Events, Call(p, e)
      PROVE  TypeOK'
  BY <1>2, RegisteredType DEF Call
<1>3. CASE Find
  BY <1>3 DEF Find
<1>4. ASSUME NEW i \in Ids, Fetch(i)
      PROVE  TypeOK'
  <2>1. batch' \in Table
    BY <1>4 DEF Fetch, Table
  <2> QED
    BY <1>4, <2>1 DEF Fetch
<1>5. CASE Fetched \/ GetMore
  BY <1>5 DEF Fetched, GetMore
<1>6. ASSUME NEW i \in Ids, Read(i)
      PROVE  TypeOK'
  <2>1. CASE Wants(batch[i], event) /\ at' = <<i, batch[i].url>> /\ stage' = "post"
             /\ unread' = unread /\ batch' = [batch EXCEPT ![i] = None]
    <3>1. batch' \in Table /\ at' \in Ids \X Urls
      BY <1>6, <2>1 DEF Read, Table, Hook
    <3> QED
      BY <1>6, <2>1, <3>1 DEF Read
  <2>2. CASE PassOver(i) /\ UNCHANGED <<stage, at>>
    BY <1>6, <2>2, PassOverType DEF Read
  <2> QED
    BY <1>6, <2>1, <2>2 DEF Read
<1>7. CASE CursorEnds
  BY <1>7 DEF CursorEnds, Exhausted
<1>8. CASE PostArrives
  BY <1>8 DEF PostArrives
<1>9. CASE PostAnswered
  BY <1>9 DEF PostAnswered
<1>10. CASE Abandon
  BY <1>10, NothingType DEF Abandon
<1>11. CASE UNCHANGED vars
  BY <1>11 DEF vars
<1> QED
  BY <1>1, <1>2, <1>3, <1>4, <1>5, <1>6, <1>7, <1>8, <1>9, <1>10, <1>11
     DEF Next, WriteTable, NotifyWebhook, RegisterWebhook, UpdateWebhook, DeleteWebhook

(* The table and the locals of notify_webhook keep their types, and a call *)
(* that is done has read its cursor to the end (state.rs).                 *)
THEOREM TypeCorrect == Spec => []TypeOK
<1>1. Init => TypeOK
  BY NothingType DEF Init, TypeOK, Stages
<1>2. QED
  BY <1>1, TypeOKNext, PTL DEF Spec

-----------------------------------------------------------------------------
(***************************************************************************)
(* What a call still owes: once it has its cursor, each steadily           *)
(* registered webhook was told, is being told, was fetched with the        *)
(* content it still has, or is ahead of the cursor; and what is steady is  *)
(* registered now, which is in turn among what was wanted.  A document     *)
(* that was fetched was registered then, so what will be told of the batch *)
(* is wanted too, whatever became of it since.                             *)
(***************************************************************************)
Current == Registered(webhooks, project, event)

FetchedWanted ==
  \A i \in Ids : batch[i] # None /\ Wants(batch[i], event) => <<i, batch[i].url>> \in wanted

InBatch(s) ==
  /\ batch[s[1]] # None
  /\ Wants(batch[s[1]], event)
  /\ batch[s[1]].url = s[2]

Owed(s) == s \in posted \cup {at} \/ InBatch(s) \/ s[1] \in unread

CallInv ==
  /\ steady \subseteq Current
  /\ Current \subseteq wanted
  /\ posted \subseteq wanted
  /\ stage \in {"idle", "find", "done", "failed"} => batch = Nothing
  /\ FetchedWanted
  /\ stage = "post" => at \in wanted
  /\ stage \in {"fetch", "read", "post"} => \A s \in steady : Owed(s)
  /\ EveryoneTold

\* What is registered is a document of the project that wants the event.
LEMMA CurrentIs ==
  ASSUME TypeOK, NEW s \in Current
  PROVE  /\ s[1] \in Ids
         /\ s = <<s[1], webhooks[s[1]].url>>
         /\ s # None
         /\ OfProject(webhooks[s[1]], project)
         /\ Wants(webhooks[s[1]], event)
<1>1. s \in Ids \X Urls
  BY RegisteredType DEF TypeOK, Current
<1>2. PICK i \in Ids : /\ s = <<i, webhooks[i].url>>
                       /\ webhooks[i] # None
                       /\ webhooks[i].project = project
                       /\ event \in webhooks[i].events
  BY DEF Current, Registered
<1> QED
  BY <1>1, <1>2 DEF OfProject, Wants

\* And the other way round.
LEMMA IsCurrent ==
  ASSUME NEW i \in Ids, OfProject(webhooks[i], project), Wants(webhooks[i], event)
  PROVE  <<i, webhooks[i].url>> \in Current
BY DEF Current, Registered, OfProject, Wants

LEMMA FetchCall ==
  ASSUME TypeOK, CallInv, NEW i \in Ids, Fetch(i)
  PROVE  CallInv'
<1>1. /\ stage = "fetch" /\ at = None /\ unread' = unread \ {i}
      /\ UNCHANGED <<webhooks, stage, project, event, at, posted, wanted, steady>>
  BY DEF Fetch, TypeOK
<1>2. \A j \in Ids : j # i => batch'[j] = batch[j]
  BY DEF Fetch, TypeOK, Table
<1>3. Current' = Current
  BY <1>1 DEF Current
<1>4. batch'[i] = IF OfProject(webhooks[i], project) THEN webhooks[i] ELSE batch[i]
  BY DEF Fetch, TypeOK, Table
<1>5. FetchedWanted'
  <2> SUFFICES ASSUME NEW j \in Ids, batch'[j] # None, Wants(batch'[j], event)
               PROVE  <<j, batch'[j].url>> \in wanted
    BY <1>1 DEF FetchedWanted
  <2>1. CASE batch'[j] = batch[j]
    BY <2>1 DEF CallInv, FetchedWanted
  <2>2. CASE j = i /\ OfProject(webhooks[i], project) /\ batch'[i] = webhooks[i]
    BY <2>2, IsCurrent DEF CallInv
  <2> QED
    BY <1>2, <1>4, <2>1, <2>2
<1>6. ASSUME NEW s \in steady PROVE Owed(s)'
  <2>1. s \in Current /\ Owed(s)
    BY <1>1 DEF CallInv
  <2>2. CASE s[1] = i
    BY <1>1, <1>4, <2>1, <2>2, CurrentIs DEF Owed, InBatch, OfProject
  <2>3. CASE s[1] # i
    BY <1>1, <1>2, <2>1, <2>3, CurrentIs DEF Owed, InBatch
  <2> QED
    BY <2>2, <2>3
<1> QED
  BY <1>1, <1>3, <1>5, <1>6 DEF CallInv, EveryoneTold

LEMMA ReadCall ==
  ASSUME TypeOK, CallInv, NEW i \in Ids, Read(i)
  PROVE  CallInv'
<1>1. /\ stage = "read" /\ at = None /\ batch[i] # None /\ unread' = unread
      /\ batch' = [batch EXCEPT ![i] = None]
      /\ UNCHANGED <<webhooks, project, event, posted, wanted, steady>>
  BY DEF Read, PassOver, TypeOK
<1>2. batch'[i] = None /\ \A j \in Ids : j # i => batch'[j] = batch[j]
  BY <1>1 DEF TypeOK, Table
<1>3. Current' = Current
  BY <1>1 DEF Current
<1>4. FetchedWanted'
  BY <1>1, <1>2 DEF CallInv, FetchedWanted
<1>5. CASE Wants(batch[i], event) /\ at' = <<i, batch[i].url>> /\ stage' = "post"
  <2>1. at' \in wanted
    BY <1>1, <1>5 DEF CallInv, FetchedWanted
  <2>2. ASSUME NEW s \in steady PROVE Owed(s)'
    <3>1. s \in Current /\ Owed(s)
      BY <1>1 DEF CallInv
    <3>2. s[1] \in Ids /\ s # None /\ s = <<s[1], s[2]>>
      BY <3>1, CurrentIs
    <3>3. CASE s[1] = i
      BY <1>1, <1>5, <3>1, <3>2, <3>3 DEF Owed, InBatch
    <3>4. CASE s[1] # i
      BY <1>1, <1>2, <3>1, <3>2, <3>4 DEF Owed, InBatch
    <3> QED
      BY <3>3, <3>4
  <2> QED
    BY <1>1, <1>3, <1>4, <1>5, <2>1, <2>2 DEF CallInv, EveryoneTold
<1>6. CASE ~Wants(batch[i], event) /\ UNCHANGED <<stage, at>>
  <2>1. ASSUME NEW s \in steady PROVE Owed(s)'
    <3>1. s \in Current /\ Owed(s)
      BY <1>1 DEF CallInv
    <3>2. s[1] \in Ids
      BY <3>1, CurrentIs
    <3>3. InBatch(s) => s[1] # i
      BY <1>6 DEF InBatch
    <3> QED
      BY <1>1, <1>2, <1>6, <3>1, <3>2, <3>3 DEF Owed, InBatch
  <2> QED
    BY <1>1, <1>3, <1>4, <1>6, <2>1 DEF CallInv, EveryoneTold
<1> QED
  BY <1>5, <1>6 DEF Read

LEMMA CallInvNext == TypeOK /\ CallInv /\ [Next]_vars => CallInv'
<1> SUFFICES ASSUME TypeOK, CallInv, [Next]_vars PROVE CallInv'
  OBVIOUS
<1> USE DEF CallInv, Current, FetchedWanted, Owed, InBatch, EveryoneTold, callVars
<1>1. ASSUME NEW i \in Ids, NEW h \in Hook \cup {None}, Write(i, h)
      PROVE  CallInv'
  BY <1>1 DEF Write
<1>2. ASSUME NEW p \in Projects, NEW e \in Events, Call(p, e)
      PROVE  CallInv'
  BY <1>2, NothingType DEF Call
<1>3. CASE Find
  <2>1. \A s \in steady : s[1] \in unread'
    BY <1>3, CurrentIs DEF Find
  <2> QED
    BY <1>3, <2>1, NothingType DEF Find
<1>4. ASSUME NEW i \in Ids, Fetch(i)
      PROVE  CallInv'
  BY <1>4, FetchCall
<1>5. CASE Fetched \/ GetMore
  BY <1>5 DEF Fetched, GetMore
<1>6. ASSUME NEW i \in Ids, Read(i)
      PROVE  CallInv'
  BY <1>6, ReadCall
<1>7. CASE CursorEnds
  <2>1. at = None
    BY <1>7 DEF CursorEnds, TypeOK
  <2>2. steady \subseteq posted
    <3> SUFFICES ASSUME NEW s \in steady PROVE s \in posted
      OBVIOUS
    <3>1. s[1] \in Ids /\ s # None
      BY CurrentIs
    <3>2. unread = {} /\ batch[s[1]] = None
      BY <1>7, <3>1, NothingType DEF CursorEnds, Exhausted
    <3> QED
      BY <1>7, <2>1, <3>1, <3>2 DEF CursorEnds
  <2> QED
    BY <1>7, <2>2 DEF CursorEnds, Exhausted
<1>8. CASE PostArrives
  BY <1>8 DEF PostArrives
<1>9. CASE PostAnswered
  BY <1>9 DEF PostAnswered
<1>10. CASE Abandon
  BY <1>10, NothingType DEF Abandon
<1>11. CASE UNCHANGED vars
  BY <1>11 DEF vars
<1> QED
  BY <1>1, <1>2, <1>3, <1>4, <1>5, <1>6, <1>7, <1>8, <1>9, <1>10, <1>11
     DEF Next, WriteTable, NotifyWebhook, RegisterWebhook, UpdateWebhook, DeleteWebhook

LEMMA CallInvAlways == Spec => []CallInv
<1>1. Init => CallInv
  BY NothingType DEF Init, CallInv, Current, Registered, FetchedWanted, EveryoneTold
<1>2. QED
  BY <1>1, CallInvNext, TypeCorrect, PTL DEF Spec

(* A call that ends well leaves out no webhook that was registered for its *)
(* event from beginning to end (notify_webhook).                           *)
THEOREM NobodyLeftOut == Spec => []EveryoneTold
<1>1. CallInv => EveryoneTold
  BY DEF CallInv
<1>2. QED
  BY <1>1, CallInvAlways, PTL

(* And no call posts at a url that was not registered for the event at     *)
(* some moment since it began, though it works on documents fetched before *)
(* earlier POSTs (notify_webhook).                                         *)
THEOREM NobodyElse == Spec => []OnlyRegistered
<1>1. CallInv => OnlyRegistered
  BY DEF CallInv, OnlyRegistered
<1>2. QED
  BY <1>1, CallInvAlways, PTL
=============================================================================
