------------------------------ MODULE Delivery ------------------------------
(***************************************************************************)
(* Registration and /notify at once: the records change, under every       *)
(* interleaving and failure of Registration, while a project's requests    *)
(* are served.  The requests are those of Notifications, which Notify is   *)
(* shown to implement; here its clients are the documents of one project.  *)
(*                                                                         *)
(* The scope of a client is part of its document and is written with it.   *)
(***************************************************************************)
EXTENDS Registration

CONSTANT Sender  \* the project whose requests are followed

ASSUME DeliveryAssumption == Sender \in Projects

VARIABLES
  scoped,     \* accounts whose client has the notification's type in its scope
  \* The request, as in Notifications:
  status, requested, answer, delivered, agreed, absent,
  \* History, read by no guard:
  left,       \* accounts whose delete was carried out and that nothing names since
  gone,       \* those that had left before the request and have not been named since
  joined,     \* accounts whose client was stored and that no delete has reached since
  kept        \* those that had joined before the request and stayed

requestVars == <<status, requested, answer, delivered>>
seenVars == <<agreed, absent>>
historyVars == <<left, gone, joined, kept>>
deliveryVars == <<vars, scoped, requestVars, seenVars, historyVars>>

Of(a) == <<Sender, a>>

InScope == {<<a, clients[Of(a)]>> : a \in scoped}
Unknown == {a \in Accounts : clients[Of(a)] = None}

Contract == INSTANCE Notifications WITH inScope <- InScope, unknown <- Unknown

DeliveryTypeOK ==
  /\ TypeOK
  /\ scoped \subseteq Accounts \ Unknown
  /\ status \in {"open", "answered", "refused", "over"}
  /\ requested \subseteq Accounts
  /\ answer \in Contract!Answers
  /\ delivered \subseteq Accounts \X Keys
  /\ agreed \subseteq Accounts \X Keys
  /\ absent \subseteq Accounts
  /\ left \subseteq Accounts
  /\ gone \subseteq left
  /\ joined \subseteq Accounts
  /\ kept \subseteq joined

DeliveryInit ==
  /\ Init
  /\ scoped = {}
  /\ Contract!Init
  /\ left = {}
  /\ gone = {}
  /\ joined = {}
  /\ kept = {}

-----------------------------------------------------------------------------
\* An operation is under way that may yet store a client for a.
Named(a) ==
  \E p \in Procs : pc[p] \in {"find_client", "ack", "client"} /\ job[p].client = Of(a)

\* push_delete has found a's entry and is about to delete its client.
Leaving(a) == pc[WS] = "delete_client" /\ job[WS].client = Of(a)

Stores(a) == \E p \in Procs : StoreClient(p) /\ job[p].client = Of(a)
Deletes(a) == DeleteClient /\ job[WS].client = Of(a)

\* A step of Registration; what it does to the clients the open request may see.
Recording ==
  /\ Next
  /\ scoped' \in SUBSET (Accounts \ Unknown')
  /\ \A a \in Accounts \ Unknown' : ~Stores(a) => (a \in scoped' <=> a \in scoped)
  /\ agreed' = agreed \cup InScope'
  /\ absent' = absent \cup Unknown'
  /\ left' = {a \in Accounts : ~Named(a)' /\ (a \in left \/ Deletes(a))}
  /\ gone' = gone \cap left'
  /\ joined' = {a \in Accounts : ~Leaving(a)' /\ (a \in joined \/ Stores(a))}
  /\ kept' = kept \cap joined'
  /\ UNCHANGED requestVars

Asking ==
  /\ UNCHANGED <<vars, scoped, left, joined>>
  /\ \E S \in SUBSET Accounts : Contract!Request(S)
  /\ gone' = left
  /\ kept' = joined

Serving ==
  /\ UNCHANGED <<vars, scoped, historyVars>>
  /\ \/ \E a \in Accounts, k \in Keys : Contract!Deliver(a, k)
     \/ \E r \in Contract!Answers : Contract!Answer(r)
     \/ Contract!Refuse
     \/ Contract!Leave

DeliveryNext == Recording \/ Asking \/ Serving

DeliverySpec == DeliveryInit /\ [][DeliveryNext]_deliveryVars

-----------------------------------------------------------------------------
\* Keys that wallets hold, or that a push_subscribe had, or has, still to tell them.
Known == Held \cup cut \cup LeftUntold(WS)

(* A notification goes out only under a key that a wallet holds or is      *)
(* about to be told, or that belongs to a push_subscribe that was stopped  *)
(* before its response: whatever is registered, updated and deleted while  *)
(* the request is served, nobody else's key is used (push_subscribe.rs,    *)
(* notify.rs).                                                             *)
UnderKnownKeys == \A d \in delivered : d[2] \in Known

(* An account whose push_delete was carried out before the request came    *)
(* gets nothing from it, unless an operation has named the account since:  *)
(* no update in flight, no late write and no retry brings it back          *)
(* (push_delete.rs, push_update.rs, notify.rs).                            *)
GoneGetsNothing == \A d \in delivered : d[1] \notin gone

(* An account that was registered before the request came, and that no     *)
(* delete has reached, is not reported as not found, whatever              *)
(* registrations of it are repeated, refused or cut short meanwhile        *)
(* (state.rs, notify.rs).                                                  *)
KeptIsFound == kept \cap answer.not_found = {}
=============================================================================
