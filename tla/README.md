# A TLA+ model of cast-server

cast-server keeps, for every project, which accounts want its notifications and
under which symmetric key, listens on the WalletConnect relay for the wallets'
subscribe, update and delete messages, and publishes a project's notifications to
the accounts it names. The project models that: the records, the relay session, the
notifications, the webhooks, the authentication of projects, and how a wallet and the
server come to share a key, as TLA+ modules checked by TLC on small instances and proved
about with TLAPS for all instances.

Paths below are relative to the repository's `src/` directory.

## 1. Inventory

| Component | State | Operations | Talks to |
|---|---|---|---|
| Registration (`state.rs`, `handlers/register.rs`, `websocket_service/handlers/push_*.rs`) | one collection of clients per project; `lookup_table` (topic to client) | `register_client`, `POST /register`, `push_subscribe` (4006), `push_update` (4008), `push_delete` (4004) | MongoDB, relay (subscribe, publish), webhooks |
| Relay session (`websocket_service/mod.rs`, `wsclient.rs`) | the connection, the relay's subscriptions, the event channel, the stage of `run` | `connect`, `run`, `resubscribe`, the callbacks of `RelayConnectionHandler` | MongoDB (both topic collections), relay, the message handlers |
| Notify (`handlers/notify.rs`) | none of its own between requests; `Response` and publish jobs within one | `POST /notify`: find, make jobs, publish under a timeout, answer | MongoDB (clients), relay over HTTP |
| Subscribe topic (`handlers/subscribe_topic.rs`) | `project_data` (key pair and topic of a project) | `GET /subscribe-topic`: derive, store, subscribe, answer | MongoDB, relay |
| Webhooks (`handlers/webhooks/`, `notify_webhook` in `state.rs`) | `webhooks` | register, update, delete, list; POST to each on subscribe and unsubscribe | MongoDB, the projects' endpoints |
| Project authentication (`registry.rs`, `extractors.rs`, `storage/`) | a Redis cache of verdicts, 30 minutes each | `is_authenticated` | registry service, Redis |
| Subscription auth (`auth.rs`) | none | `SubscriptionAuth::from_jwt` | clock |
| Envelope, key derivation (`types.rs`, `derive_key`) | none | seal, open, serialise | |
| Subscribers list (`handlers/get_subscribers.rs`) | none | one read | MongoDB |
| Bootstrap (`lib.rs`) | | `select!` over two HTTP servers, the shutdown signal and the websocket service: the first to end ends all | |
| Telemetry and plumbing (`analytics/`, `metrics.rs`, `networking.rs`, `jsonrpc.rs`, health, metrics endpoints) | write-only | | |

How they interact. HTTP handlers are concurrent futures; each may be dropped at any
await when its caller hangs up. The websocket service is one future, which handles
one event of its channel at a time, to the end, webhook calls included. Both kinds
write the same MongoDB documents without transactions, and use the same relay
connection. The relay's subscriptions end with that connection and are restored
from the database. `/notify` only reads clients, and publishes over HTTP.

What is hard: two documents written one after the other; a read written back after
further awaits; a topic in the database that must also be in the relay's memory; a
connection that can be lost at any await; a restart that knows only the database;
publishes that time out and arrive all the same; a message loop that does unbounded
I/O. `PROJECT.json` lists each such place with its line and the properties that
speak about it.

What makes each component correct:

- Registration: a client on record can be found from the topic of its key; a wallet
  has been given the key its client is registered under; an update neither revives a
  deleted client nor moves one back to a key it no longer has; what is refused was
  not done, and what may be repeated succeeds again.
- Relay session: topics on record are subscribed, or about to be, or their failure is
  known; a lost connection is noticed and replaced.
- Notify: each requested account is in exactly one part of the response, and that part
  is true of it; only clients in scope are published to; there is an answer.
- Subscribe topic: a public key that was answered stays on record while the project keeps
  its secret.
- Webhooks: each event reaches every endpoint that asked for it.
- Project authentication: a verdict is no older than the cache's lifetime.
- Subscription auth: what is acted upon is what the issuer signed, and within its validity.
- Envelope: what is sealed and serialised is what is parsed and opened, by its reader alone.
- The handshake as a whole: no client is registered that no wallet asked for, and the key
  on record is the one the wallet derives from the last response.

## 2. Modules

### Registration

| TLA+ | Code |
|---|---|
| `clients` | client documents, by project and account; of each, `sym_key` |
| `lookup_table` | `LookupEntry` documents by `_id`, the topic |
| `pc`, `job` | where each future is, with the locals later awaits use |
| `minted`, `told` | keys drawn by `push_subscribe`; those whose public half was published |
| `Register`, `PushSubscribe`, `PushUpdate`, `PushDelete` | the four operations up to their first shared write or second read |
| `FindClient`, `Ack` | the middle of `push_update` |
| `StoreClient`, `StoreLookup`, `Subscribe`, `Webhook` | the awaits of `register_client` |
| `Settle`, `Respond`, `DeleteClient`, `Unsubscribe` | the rest of `push_subscribe` and `push_delete` |
| `Fail`, `HangUp`, `Crash` | an await that returns an error; a dropped request; the end of the process |

A stage is the code between two awaits that touch shared state, so every interleaving
the runtime can produce is one of the model's. A request refused before its first
write is no action. Symmetric cryptography is a comparison: a box sealed with a key
opens with a stored key of the same digest. `relay_url` and `scope` are left out, since
no decision of these operations depends on them (`scope` is in Notify and Delivery).

`StoreLookup` inserts and never replaces. The code asks `replace_one` for a document
whose *field* `topic` matches, but serde stores `topic` as `_id`, so no document has
the field; the upsert inserts, and fails on a duplicate `_id`.

Two history variables, read by no guard, name the exceptions of the invariants:
`torn` (client and topic an operation was stopped between, or whose topic is another
client's) and `cut` (keys of push_subscribes that ended early).

`push_update` stores the account its JWT names under the key of the topic's client, as that
key was when it was read: it can make or replace the client of another account, and undo an
HTTP registration that came between the read and the write. The model has both, and the
invariants hold with them; no property says that an update keeps to its own client, as the
code does not see to it.

### RelaySession

| TLA+ | Code |
|---|---|
| `lookup_table`, `project_data` | the topics in the two collections |
| `connected`, `subs` | the relay connection and the relay's subscriptions on it |
| `events` | the unbounded mpsc channel of `RelayClientEvent` |
| `loop`, `cursor`, `at`, `started` | the stage of `run`, the cursor of `resubscribe`, the handler's topic, whether the first `connect` is behind |
| `request` | the topic each HTTP request has stored and not yet subscribed |
| `ConnectOk`, `ConnectFails`, `Wake` | `connect` and the retry loops; the first failure ends the process |
| `FindLookup`, `FindProjects`, `FindFails`, `BatchSubscribe`, `CursorBreaks`, `CursorEnds` | `resubscribe` |
| `TakeConnection`, `TakeSubscribe`, `TakeDelete`, `Handler*` | `recv`, `handle_msg` and what handlers do to topics |
| `Register`, `SubscribeTopic`, `RequestSubscribe` | HTTP requests |
| `DeliverDelete`, `DeliverMessage`, `RelayError`, `ConnectionLost` | the callbacks |
| `Crash`, `StartAgain` | a new process |

It abstracts Registration to topics: a lookup entry appears or disappears, and is
subscribed in a later step. A cursor is a snapshot taken by `find`.

### Notify

| TLA+ | Code |
|---|---|
| `clients` | the project's collection: key, and whether the notification's type is in scope |
| `stage`, `accounts`, `unread`, `jobs` | the handler's locals |
| `sent`, `failed`, `not_found` | `Response` |
| `outcome`, `expired`, `published` | the publish futures, their timer, what the relay took |
| `Request`, `Find`, `ReadClient`, `Abandon` | the handler up to `generate_publish_jobs` |
| `StartPublishing`, `TimeoutFires`, `Answer`, `Succeeded` | `process_publish_jobs` |
| `RelayAccepts`, `RelayAcks`, `PublishFails` | the relay, which may do none of them |
| `ChangeClient` | registration, update and deletion by anybody |

Each `ReadClient` reads the account's document as it is then, the weakest guarantee of
the database cursor. One request is followed at a time; requests share only clients.
`agreed` and `absent` are history.

### Webhooks

| TLA+ | Code |
|---|---|
| `webhooks` | the `webhooks` collection: project, url and events by id |
| `RegisterWebhook`, `UpdateWebhook`, `DeleteWebhook` | the handlers; only the first validates the url |
| `stage`, `project`, `event`, `unread`, `batch`, `at` | one call of `notify_webhook`: its arguments, what its cursor has yet to see and what is fetched for it, the webhook it is telling |
| `posted` | the ids and urls that received the event |
| `Call`, `Find`, `Read`, `GetMore`, `CursorEnds` | the call up to its end |
| `Fetch`, `Fetched` | the database on `find` or `getMore`: it looks at one document after the other and returns some of them |
| `PostArrives`, `PostAnswered`, `Abandon` | a POST, which may arrive without being answered, and every `?` of the call |

The cursor hands out documents as they were when the database fetched them, and asks for
more only when it has handed out all: a webhook updated or deleted during an earlier POST is
still POSTed to at its old url. How many documents come at a time is left open, and those
inserted after `find` may be returned or not. Calls share nothing they write, so one is followed.
`wanted` and `steady` are history: what was registered for the event at some moment, and
at every moment, of the call.

### ProjectAuth

| TLA+ | Code |
|---|---|
| `valid` | the pairs of project id and secret the registry accepts |
| `cache`, `replica` | Redis at its write address and at its read address: a verdict and the time it has left |
| `pc`, `pair`, `verdict`, `delay` | each request in `is_authenticated` and its locals; ticks since the registry's verdict |
| `CacheHit`, `CacheMiss`, `Ask`, `Set` | the awaits of `is_authenticated_internal` |
| `Fail`, `HangUp` | an error of Redis or of the registry, answered 400; a dropped request; either after a write that may have been done |
| `Rotate`, `Replicate`, `Forget`, `Tick` | the registry, Redis and time (external) |

The cache is keyed by `Hash`, a digest of the id followed by the secret: ids and secrets are
sequences of characters, and the digest is taken to be of their concatenation, without
collisions. The code puts no mark between the two and accepts ids of any length, so two pairs
of one text share an entry, and `VerdictFresh` speaks of the verdict on some pair of that text.
A server without a cache is one whose entries are forgotten at once. `since`, a
history variable, counts the ticks since the registry would have given a verdict.

### Envelope, SubscriptionAuth and Handshake

`Envelope` and `SubscriptionAuth` are operators without state, `Handshake` the protocol
that uses them.

| TLA+ | Code |
|---|---|
| `Envelope0`, `Envelope1`, `ToBytes*`, `FromBytes*`, `Panics*` | `Envelope` of `types.rs`: bytes as a sequence, cut at fixed positions without a check |
| `Seal`, `Opens`, `Plain` | ChaCha20Poly1305 and `decrypt_message`: a box is one symbol that opens with its key and nonce only |
| `FromJwt` and what it is made of | `SubscriptionAuth::from_jwt`, a token being the sequence of its segments |
| `Dh` | `derive_key`: the unordered pair of the two public halves |
| `project_data`, `clients` | the key pair of each project; `sym_key` of each client |
| `request`, `answered` | calls of `/subscribe-topic` between the store and their end; the public keys callers were told |
| `wallet` | which key a wallet sealed its token to (the wallet of `tests/integration.rs`) |
| `handler`, `drawn`, `mail` | the locals of `push_subscribe`, the secrets it drew, its responses |
| `SubscribeTopic`, `EndRequest` | the handler up to its store, and after it |
| `Accept`, `Register`, `Settle`, `Respond`, `Fail` | `push_subscribe`: up to the draw of a secret, then its three awaits that others can see |
| `Panic`, `Restart` | a message cut inside the header, on a topic that has a project; a new process |
| `Propose`, `Arrivals`, `Tick` | wallets, the relay, the clock (external) |

`Arrivals` is everything the relay may hand over: every beginning of every message ever
sealed, on every project's topic, as often as it likes. The seed of a key pair is a hash of
secret and id, modelled as a function without collisions (`KeyOf`): that takes more than a good hash, for
the two are concatenated, and no two pairs of secret and id may read the same; the two ends of a derivation meet because `Dh`
is symmetric, which is all of x25519 that the protocol needs. `register_client`'s two
documents are one here, as Registration has them apart, and nobody else writes `clients`.
A segment of a token knows whether its text is the same in base64 and base64url, since
header and claims are decoded by the first and signatures by the second. `used`, `latest`
and `cut` are history: the secrets a project called with, the key a client's wallet derives
from the last response, the clients whose `push_subscribe` was stopped before its response.
`ClientsConsented` says that a token for that account was sent to that project; it does not
say that the account's owner signed it, since the code never compares a token's issuer with
its subject.

### Server: Registration and RelaySession together

| TLA+ | Code |
|---|---|
| `clients`, `lookup_table`, `pc`, `job`, ... | as in Registration |
| `project_data`, `connected`, `subs`, `loop`, `cursor`, ... | as in RelaySession, whose `lookup_table` is `OnRecord`, the topics that lead to a client |
| `Apart` | a step of Registration that leaves what is on record, and what is owed to the relay, alone |
| `Relaying` | a step of RelaySession that no step of Registration goes with: connections, callbacks, `resubscribe`, projects' topics |
| `Together` | one step of the code that both have, such as the insert of a lookup entry, the subscription of its topic, the delete of an entry on an event |
| `Stopping` | the end of the process, which ends both |

The two agree on the functions `RequestTask` and `ServiceTask` of the refinement to
`TopicRecords` (`InStep`): the same entry, subscription and delete at the same moment, of
the same topic. `Apart` and `Relaying` keep the one service one future: it takes an event
of the channel only between two messages, and a request is either a registration or a
call of `/subscribe-topic`. `SameOutcome` joins the results: a handler goes on after
`subscribe` only if it succeeded, and unsubscribes only after a delete it could read. The
session is an instance of `RelaySessionProofs`, so that its theorems can be cited.

### Delivery: Registration and /notify together

| TLA+ | Code |
|---|---|
| `clients`, `pc`, `job`, ... | as in Registration |
| `scoped` | accounts of the project `Sender` whose document has the notification's type in `scope`; written with the document and only then |
| `status`, `requested`, `answer`, `delivered` | a request of `Sender`, as in Notifications |
| `Recording` | a step of Registration, and what the open request may see of it |
| `Asking`, `Serving` | the steps of Notifications, which Notify implements |

`InScope` and `Unknown` read from the documents what Notifications takes as given. History
variables name the accounts that left or joined: `left` holds from the step of
`push_delete` that removes the client until an operation names the account again, `gone`
is who had left when the request came and still has; `joined` holds from the store of a
client until a delete is about to take it, `kept` is who had joined when the request came
and still has.

### Abstract specifications

`Notifications` is what `/notify` promises, without cursors, jobs, futures and timeouts:
each account gets at most one notification per request, under a key that was in scope
meanwhile; the answer comes in one step, sorts the accounts and stands; a refused request
has reached nobody; whoever is reported as not found was absent and is not delivered to
afterwards. `Notify` implements it with a refinement mapping (`Status`, `Told`, and
`published` as what is delivered): `ContractKept`.

`TopicRecords` is where Registration and RelaySession meet: topics on record, and who owes
the relay a subscription or an unsubscription of one. Both implement it (`RecordsFirst` in
each), the first from documents and stages, the second from connections and the loop, so
that RelaySession's short view of an operation is one that Registration's operations have.
One allowance is for `push_delete`: a delete that cannot be read takes a topic off record
and unsubscribes nothing.

### Proof modules and instances

The module `XProofs` holds the theorems of module `X`, `SystemProofs` those of the two
compositions, Server and Delivery, and `MCX` declares the model values of the instances
of `X`. Operators commented "broken variant" are not part of the model: each
is what a plausible mistake in the code would make of the definition after it, and
the properties are confirmed to fail with it.

## 3. Runs

| Run | Asks | Bounds |
|---|---|---|
| `registration` | `TypeOK`, `ClientReachable`, `WalletKnowsKey`, `RecordsFirst` | one HTTP request, the service; a valid and an invalid account; a wallet's key and one minted; all failures |
| `relay_session` | `TypeOK`, `Coverage`, `DisconnectNoticed`, `StraysAreLate`, `RecordsFirst` | two client topics, one project topic, batches of 1, two faults |
| `relay_session_live` | `Reconnects`, `EventuallyServed` | one client topic, one project topic, two faults |
| `notify` | `TypeOK`, `ResponsePartition`, `OnlyToSubscribers`, `NotFoundWasAbsent`, `FailurePublishesNothing`, `AlwaysAnswered`, `ContractKept` | two accounts, a good and an unusable key |
| `webhooks` | `TypeOK`, `EveryoneTold`, `OnlyRegistered` | two ids, two projects, two urls of which one is https, both events; symmetric in ids and in projects |
| `project_auth` | `TypeOK`, `VerdictFresh` | two pairs of id and secret with one text, two requests; entries live two ticks, a request at most one after its verdict; symmetric in requests |
| `handshake` | `TypeOK`, `ClientsConsented`, `ClaimsSigned`, `OnlyItsWallet`, `AnsweredKeyStands`, `LastResponseCurrent` | two projects, one of them with two secrets, two wallets, two fresh secrets, two accounts, one call of `/subscribe-topic` at a time, six tokens, two seconds; nonces and public keys of one symbol; symmetric in wallets and in fresh secrets |
| `server` | `ServerTypeOK`, `ClientServed` | one client under one minted key, the topic of one project, one HTTP request and the service; one message, two faults |
| `delivery` | `DeliveryTypeOK`, `UnderKnownKeys`, `GoneGetsNothing`, `KeptIsFound` | one account, a wallet's key and one minted, one HTTP request and the service; one request of `/notify` after the other; all failures |
| `registration_again` | `RegisterSucceeds`, expected to fail | no failures injected |
| `notify_ack` | `SentMeansAcked`, expected to fail | as `notify` |
| `issued_in_future` | `IssuedInThePast`, expected to fail | as `handshake`, with a token whose time of issue is yet to come |

Why the bounds are enough. Registration's conflicts are between two writers of one
client or one topic: one request and the service make every pair of operations, two
registrations included (`push_subscribe` and an update store clients as requests do); a
second key makes a re-registration under another topic, a second account one topic
claimed by two clients; more requests at a time are in the theorems only. In RelaySession, two client topics and batches of one give a
cursor with a chunk behind and a chunk ahead; two faults give a fault during the
recovery from another. `MaxEvents` bounds only when the relay delivers messages;
connection events go beyond it, as the channel is unbounded. `MaxFaults` counts lost
connections, relay errors, failing reads and crashes; failed connects, subscriptions
and unsubscriptions are not counted and may always happen. Notify is a fan-out over
independent accounts, so two show every mixed result; a second good key, with which a
client could change keys during a request, would make the run take longer than is useful,
and the theorems cover it. Two webhooks give one that is told
and one still unread, or fetched with it, while either changes, and the second project and url make a webhook
move out of the filter and between urls. In ProjectAuth two requests
overwrite each other's verdicts, on one pair or on two that share the entry; that pairs of
different texts are kept apart would take a third pair and a longer run than is useful, and is in the
theorem; a lifetime of two ticks separates an entry that ages from one that is new. `MaxDelay` is
part of what is claimed: the code sets no limit to the time between the registry's verdict
and the cache write, and the age of an answer includes it. In the handshake, two secrets of
one project make a rotation while a message is being handled, a second project makes a key
that is not the topic's, two wallets and two fresh secrets a response to each or two to one.
The tokens are a genuine one, an expired one, one without a signature, one whose signature
is of other claims, one of four segments and one whose text is not base64; the relay may cut a message anywhere.
Calls of `/subscribe-topic` store their pair in one step, so one call at a time leaves every record two would;
that answers overlap is covered by the theorems. In `server`, each part has bounds of its
own runs already; what the composition adds is one client going through both, and one key
is enough for that: it is minted by `push_subscribe` and, once told, also brought by
requests, and two faults give a crash or a lost connection during the recovery from
another. In `delivery`, each property is about one account; its view leaves out `torn`,
history that nothing in the run reads. The theorems remove all these
bounds for the safety properties.

No run disables the deadlock check: an idle server can always be sent something.

## 4. Fairness

RelaySession: `WF(Loop)`, since tokio polls the service whenever it can continue;
`WF(RequestSubscribe(r))`, likewise for requests; `WF(StartAgain)`, since the deployment
(`terraform/ecs/main.tf`) keeps one task running. `SF` on `ConnectOk`, `FindLookup` and
`FindProjects`: an attempt that is repeated forever does not fail forever. Nothing is
assumed of webhook endpoints: the loop POSTs to them without a timeout, so both liveness
properties have "every POST ends" (`WebhooksAnswer`) as their premise, and are false
without it. `WF(Loop)` and `WF(RequestSubscribe(r))` also take it that the relay answers
`subscribe` and `batch_subscribe` one way or the other, for the code awaits both without a
timeout of its own. Nothing is assumed about subscriptions succeeding: `EventuallyServed` ends in
the same exceptions as `Coverage`.

Notify: `WF(Handler)`, with the timer among its steps; nothing of the relay.
`AlwaysAnswered` starts at the publishing stage; the database calls before it have
no timeout in the code, and the model's `Find` and `ReadClient` may not hang.

Server and Delivery state no fairness: what they add to their parts is safety.

## 5. What is proved

For every set of projects, accounts, keys, topics and requests, every batch size and
every bound:

- `RegistrationProofs`: `TypeCorrect`, `ClientStaysReachable`, `WalletKeepsUp`;
- `RelaySessionProofs`: `TypeCorrect`, `TopicsStayCovered`, `LossIsNoticed`, `NoLateComers`;
- `NotifyProofs`: `TypeCorrect`, `ResponseSorts`, `SubscribersOnly`, `NotFoundIsTrue`,
  `NothingPublishedOnFailure`;
- `WebhooksProofs`: `TypeCorrect`, `NobodyLeftOut`, `NobodyElse`;
- `ProjectAuthProofs`: `TypeCorrect`, `VerdictStaysFresh`;
- `EnvelopeProofs`: `RoundTrip0`, `RoundTrip1`;
- `HandshakeProofs`: `TypeCorrect`, `OnlyConsenting`, `SignaturesCover`,
  `ResponsesPrivate`, `AnswersStand`, `ResponsesCurrent`;
- `SystemProofs`: `ServerTypeCorrect`, `ClientsServed` of Server; `DeliveryTypeCorrect`,
  `KeysAreKnown`, `LeftAlone`, `StayersAreFound` of Delivery;
- the refinements: `NotifyFulfilsContract` (`NotifyProofs`), `RecordsRefined`
  (`RegistrationProofs` and `RelaySessionProofs`) and `ContractAsAlone` (`SystemProofs`).

Assumptions: those of the modules (`RegistrationAssumption` and so on): given sets
are what they are called, `None` is none of the values, batches are not empty, a cache
entry lives at least one tick, secret keys of projects, wallets and the server's draws are
different keys with different public halves of the given length, and a token whose claims
can be read names an account. Keys and topics may be infinite, and two keys may have one
topic.

Arguments:

- Registration. `TypeOK` is not inductive on its own: a stage says which operation a
  process runs and that it has a job. `JobOK` says so (which operations can be at which
  stage, whose topic is the digest of whose key), and types follow from both together.
  `ClientReachable` is then inductive: a store sets a client's key and puts its writer in
  flight; a lookup write ends the flight either with the entry or with a `torn` pair; a
  delete of the entry puts the deleter in flight; every way to stop adds to `torn`.
  `KeyInv` strengthens `WalletKnowsKey` with where minted keys can be: only the service's
  own job has one that is neither told nor cut, as HTTP requests and updates bring or
  read keys a wallet holds, and what `push_subscribe` is going to tell was minted.
- RelaySession. `TypeOK` includes that a cursor is open only while it is read and that
  nothing is subscribed without a connection. `Coverage` is inductive with it: each
  topic is either with the future that stored it or ahead of the cursor, and the snapshot
  of `find` is taken while every topic is still to come. `DisconnectNoticed` is inductive:
  the channel loses a `Disconnected` only at its head, and then the loop reconnects.
  `StraysAreLate` needs `AheadOnRecord`: what the service is about to subscribe, from its
  cursor or for a message, is on record, because only the service takes entries off, and it
  has no cursor open and no topic in hand when it does. What is left are requests, which
  store a topic and subscribe it while the service may delete it in between.
- Notify. `SortInv` says that between reading and answering, requested accounts are
  split into `not_found`, `failed` and those with a job, unread ones being in `not_found`;
  with distinct sets, the answer sorts those with a job. `AgreedInv` carries
  `OnlyToSubscribers` over the jobs: a job was in scope when it was made. `AbsentInv`
  carries `NotFoundWasAbsent`: until an account is read, nothing is claimed of it.
- Webhooks. `CallInv` relates the history to the table and the cursor: what was registered
  all along is registered now and, if it is neither told nor being told, fetched as it
  still is or unread, so an exhausted cursor leaves nobody; what was fetched was registered
  at that moment, so what is told of a batch was wanted, whatever became of it since
  (`FetchedWanted`).
- ProjectAuth. `AuthInv` is a balance of time: for some pair of an entry's text, the age of its verdict and the time
  the entry has left make up at most `TTL + MaxDelay`, in the cache and in the replica; a
  tick moves one from the second to the first, a write starts with at most `MaxDelay` and
  exactly `TTL`. That a carried verdict is no older than its request's delay needs that the
  registry answers with what holds at that moment. Overwriting a newer verdict keeps the
  balance, which is why the order of writes does not matter.
- Envelope. A slice of a concatenation at the length of the parts before it is the next
  part (`Slice`); the rest is arithmetic on the header's length. The lengths are constants,
  so the theorems hold for 12 and 32 bytes, which TLC's one symbol stands for.
- Handshake. `ProposalReads` does the work: whatever beginning of whatever message arrives
  on whatever topic, if it opens with the key derived from the pair on record there, it is
  all of a wallet's proposal, it was sealed to that very pair, and its header, token and id
  are the wallet's. `HandlerInv` keeps that while `push_subscribe` runs, although wallets
  send and projects rotate meanwhile, and from it follow that clients have consented, that
  each message in `mail` answers one wallet, and (`SamePushKey`) that wallet and server derive one
  key. `KeysInv` says that every key stored, in flight or answered comes from a secret the
  project called with; if that was always one secret, it is one key. `SignaturesCover` needs
  only `HandlerInv` and that claims are no signature: a token of two segments fails.
- Server. A behaviour of Server is one of Registration and one of RelaySession
  (`DocumentsAsAlone`, `SessionAsAlone`), so what is proved of them holds there; `InStep` is
  inductive, and a crash resets both sides of it to nothing owed. `ClientServed` then needs
  no invariant of its own: `ClientReachable` gives a client's topic an entry that leads to it,
  so the topic is on record in the session, where `Coverage` has it subscribed or about to be.
- Delivery. A step of Registration is one of Notifications, or stutters, when
  `InScope` and `Unknown` are read from the documents. Three invariants carry the
  properties. `KnownInv`: each pair of account and key that the request may use was taken
  from a document at some moment, `KeyInv` makes that key a known one, and known keys stay
  known (`KnownStays`: a key to be told is told, or is cut). `LeftInv`: who has left has no
  client and no operation that could store one, so no pair of theirs is agreed on.
  `JoinedInv`: who has joined has a client and no delete about to take it, so they are never
  seen absent.
- Refinements. `Notify`: with `JobInv`, a job has one key per account and is published at
  most once; then each action is one of the contract's steps or stutters. Registration: an
  action moves one process from stage to stage, and entering or leaving a stage that owes
  the relay something is a step of `TopicRecords`. RelaySession: likewise for the loop.

Model-checked only: the liveness properties, `Reconnects`, `EventuallyServed` and
`AlwaysAnswered`, which are outside the prover's reach.

## 6. Where code and words differ

Three runs are expected to fail; each shows that the program does not do what a test,
comment or log line of the repository says (`findings` in `PROJECT.json`):

- a second registration with a key on record is answered 400
  (`tests/handler/notify.rs:107` asserts success);
- an account whose publish returned an error is reported as sent
  (`handlers/notify.rs:96`, "waiting for relay ack");
- a token is accepted before the second it says it was issued in: `auth.rs:56` compares
  seconds with milliseconds, so the error "Not yet valid" (`auth.rs:138`) is out of reach.

Met on the way, and modelled as it is. "Didn't register account - invalid account"
(`state.rs:126`) is logged, and 404 answered, when both documents are stored and the topic is
subscribed; the actions `StoreClient`, `StoreLookup` and `Subscribe` come before the account is
looked at in `Webhook`. `tests/integration.rs:259` seals a delete with the
response key instead of the client's. The server has removed both documents by the time it
fails to read it, so the test passes; in RelaySession that is the delete that takes a topic off record and
unsubscribes nothing.

## 7. Plan

Done, in this order: Registration, RelaySession, Notify, Webhooks, ProjectAuth, because the
records are what everything else reads and the session is what makes them matter; then the
abstract specifications Notifications and TopicRecords with their refinements, and Envelope,
SubscriptionAuth and Handshake with their theorems; then the compositions Server and
Delivery, in which the parts meet through those two specifications.

What is left:

1. Handshake and Registration share `clients` in the code: a `/register` between a
   response and the wallet's use of it is in Registration only, where keys are not made of
   halves.
2. A wallet's update and delete as envelopes of type 0 (`push_update`, `push_delete`), which
   Registration has as comparisons of keys.
3. Liveness of the handshake: a proposal delivered to a service that does not fail is
   answered. It needs the relay to redeliver, about which the repository says nothing.
4. Liveness of the compositions: a client that stays on record is heard in the end, under
   the fairness of section 4. RelaySession has it of topics (`EventuallyServed`).

## 8. Not modelled

Telemetry and plumbing (nothing reads what it writes), the list of subscribers (one read,
returned as it is), HTTP parsing and CORS, the threads of the runtime, the relay's own
redelivery (not in the repository), reading of did:key and hex strings beyond whether it
succeeds. The start of the server is modelled as far as it decides what a new process knows
and what ends it.
