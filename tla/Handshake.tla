----------------------------- MODULE Handshake -----------------------------
(***************************************************************************)
(* How a wallet and the server come to share a client's key, in keys and   *)
(* sealed bytes.                                                           *)
(*                                                                         *)
(* A project calls /subscribe-topic (handlers/subscribe_topic.rs); the     *)
(* server derives a key pair from the project's secret, stores it, and     *)
(* answers the public key.  A wallet that is given it seals a token to it  *)
(* (4006) on the topic that is its digest.  push_subscribe opens that,     *)
(* checks the token, draws a fresh key pair, registers the client under    *)
(* the key that pair and the wallet's derive, and publishes the fresh      *)
(* public key sealed for the wallet (4007).                                *)
(*                                                                         *)
(* The relay may deliver a wallet's message never, again, late, cut short, *)
(* or on another topic; the service handles one message at a time.  The    *)
(* two documents of register_client are one here, and nobody else writes   *)
(* clients: Registration has both.                                         *)
(***************************************************************************)
EXTENDS Envelope, SubscriptionAuth

CONSTANTS
  Projects,
  SecretsOf,     \* secrets the registry accepts for a project
  KeyOf,         \* private key that <<project, secret>> seeds
  Wallets,       \* private keys of wallets, each of one attempt to subscribe
  Fresh,         \* private keys OsRng draws
  PublicOf,      \* public key of a private key
  Requests,      \* concurrent calls of /subscribe-topic
  Accounts,
  Tokens,        \* strings a wallet may send as its subscription_auth
  Bytes,
  Iv,
  None,
  MaxNow         \* bound: seconds the clock runs

ProjectKeys == {KeyOf[ps] : ps \in DOMAIN KeyOf}
Privates == ProjectKeys \cup Wallets \cup Fresh
Pubkeys == {PublicOf[x] : x \in Privates}

ASSUME HandshakeAssumption ==
  /\ DOMAIN KeyOf = {ps \in Projects \X UNION {SecretsOf[p] : p \in Projects} :
                       ps[2] \in SecretsOf[ps[1]]}
  /\ \A ps, qs \in DOMAIN KeyOf : KeyOf[ps] = KeyOf[qs] => ps = qs
  /\ ProjectKeys \cap Wallets = {}
  /\ ProjectKeys \cap Fresh = {}
  /\ Wallets \cap Fresh = {}
  /\ PublicOf \in [Privates -> Seq(Bytes)]
  /\ \A x \in Privates : Len(PublicOf[x]) = PubkeyLen
  /\ \A x, y \in Privates : PublicOf[x] = PublicOf[y] => x = y
  /\ Iv \in Seq(Bytes)
  /\ Len(Iv) = IvLen
  /\ \A jwt \in Tokens :
       /\ jwt \in Seq({jwt[i] : i \in DOMAIN jwt})
       /\ Len(jwt) >= 2 /\ ClaimsOf(jwt).kind = "claims" => ClaimsOf(jwt).sub \in Accounts
  /\ MaxNow \in Nat \ {0}

\* derive_key: both halves of x25519 agree, whichever is the private one.
Dh(pubkey, private) == {pubkey, PublicOf[private]}

SharedKeys == {{a, b} : a, b \in Pubkeys}
Clients == Projects \X Accounts

VARIABLES
  project_data,  \* private key of each project
  request,       \* <<project, private key>> of each /subscribe-topic in flight
  answered,      \* <<project, private key>> whose public half was answered
  wallet,        \* what each wallet sent: to which key, with which token
  clients,       \* sym_key of each client
  handler,       \* locals of push_subscribe
  drawn,         \* fresh keys used up
  mail,          \* responses published: topic and bytes
  now,           \* seconds
  \* History, read by no guard:
  used,          \* secrets each project called /subscribe-topic with
  latest,        \* key each client's wallet derives from the last response to it
  cut            \* clients stored by a push_subscribe that sent no response

projectVars == <<project_data, request, answered, used>>
serverVars == <<clients, handler, drawn, mail, latest, cut>>
vars == <<projectVars, wallet, serverVars, now>>

Stages == {"register", "settle", "respond"}

Job == [stage : Stages, client : Clients, id : Wallets, token : Tokens,
        pubkey : Pubkeys, response_sym_key : SharedKeys, secret : Fresh]

ASSUME NoneAssumption == None \notin Job

Response(id, secret, key) ==
  [topic |-> key, bytes |-> ToBytes0(Envelope0(key, Iv, [id |-> id, publicKey |-> PublicOf[secret]]))]

Responses == {Response(w, f, k) : w \in Wallets, f \in Fresh, k \in SharedKeys}

TypeOK ==
  /\ project_data \in [Projects -> ProjectKeys \cup {None}]
  /\ request \in [Requests -> (Projects \X ProjectKeys) \cup {None}]
  /\ answered \subseteq Projects \X ProjectKeys
  /\ wallet \in [Wallets -> [key : ProjectKeys, token : Tokens] \cup {None}]
  /\ clients \in [Clients -> SharedKeys \cup {None}]
  /\ handler \in Job \cup {None}
  /\ drawn \subseteq Fresh
  /\ mail \subseteq Responses
  /\ now \in 1..MaxNow
  /\ used \in [Projects -> SUBSET UNION {SecretsOf[p] : p \in Projects}]
  /\ latest \in [Clients -> SharedKeys \cup {None}]
  /\ cut \subseteq Clients

Init ==
  /\ project_data = [p \in Projects |-> None]
  /\ request = [r \in Requests |-> None]
  /\ answered = {}
  /\ wallet = [w \in Wallets |-> None]
  /\ clients = [c \in Clients |-> None]
  /\ handler = None
  /\ drawn = {}
  /\ mail = {}
  /\ now = 1
  /\ used = [p \in Projects |-> {}]
  /\ latest = [c \in Clients |-> None]
  /\ cut = {}

-----------------------------------------------------------------------------
(* /subscribe-topic: the pair is stored, then subscribed, then answered.   *)

\* What the seed yields; in the broken variant the generator is not seeded.
UnseededKeyPair(p, s) == ProjectKeys
KeyPair(p, s) == {KeyOf[<<p, s>>]}

SubscribeTopic(r, p, s) ==
  /\ request[r] = None
  /\ \E k \in KeyPair(p, s) :
       /\ project_data' = [project_data EXCEPT ![p] = k]
       /\ request' = [request EXCEPT ![r] = <<p, k>>]
  /\ used' = [used EXCEPT ![p] = @ \cup {s}]
  /\ UNCHANGED <<answered, wallet, serverVars, now>>

\* The answer, unless the relay refuses, the caller hangs up or the answer is lost.
EndRequest(r) ==
  /\ request[r] # None
  /\ request' = [request EXCEPT ![r] = None]
  /\ answered' \in {answered, answered \cup {request[r]}}
  /\ UNCHANGED <<project_data, used, wallet, serverVars, now>>

-----------------------------------------------------------------------------
(* The wallet, as tests/integration.rs plays it.                           *)

Propose(w, p, k, jwt) ==
  /\ wallet[w] = None
  /\ <<p, k>> \in answered
  /\ wallet' = [wallet EXCEPT ![w] = [key |-> k, token |-> jwt]]
  /\ UNCHANGED <<projectVars, serverVars, now>>

ResponseKey(w) == Dh(PublicOf[wallet[w].key], w)

Proposal(w) ==
  [topic |-> PublicOf[wallet[w].key],
   bytes |-> ToBytes1(Envelope1(ResponseKey(w), Iv, [id |-> w, token |-> wallet[w].token],
                                PublicOf[w]))]

Proposed == {w \in Wallets : wallet[w] # None}

\* What the relay may deliver: all or the beginning of a proposal, on any topic.
Arrivals ==
  {[topic |-> PublicOf[k], bytes |-> SubSeq(Proposal(w).bytes, 1, n)] :
     w \in Proposed, k \in ProjectKeys, n \in 0..(HeaderLen1 + 1)}

-----------------------------------------------------------------------------
(* push_subscribe.  Up to the draw of the fresh secret nothing is written, *)
(* and a message that is refused leaves only a line in the log.            *)

\* The secret the client's key is derived from; in the broken variant the project's.
StaticSecret(f, private) == private
Secret(f, private) == f

\* What comes first, after the message is accepted; in the broken variant the response.
RespondFirst == "respond"
FirstStage == "register"

\* The key the response is sealed with; the broken variant takes the new one.
SealedWithPushKey(response_key, push_key) == push_key
SealedWith(response_key, push_key) == response_key

ProjectsOf(topic) == {p \in Projects : project_data[p] # None /\ PublicOf[project_data[p]] = topic}

Accept(msg, f) ==
  LET e == FromBytes1(msg.bytes) IN
  /\ handler = None
  /\ ~Panics1(msg.bytes)
  /\ f \in Fresh \ drawn
  /\ \E p \in ProjectsOf(msg.topic) :
       LET key == Dh(e.pubkey, project_data[p])
           jwt == Plain(e).token IN
       /\ Opens(e, key)
       /\ FromJwt(jwt, now)
       /\ handler' = [stage |-> FirstStage, client |-> <<p, ClaimsOf(jwt).sub>>,
                      id |-> Plain(e).id, token |-> jwt, pubkey |-> e.pubkey,
                      response_sym_key |-> key, secret |-> Secret(f, project_data[p])]
  /\ drawn' = drawn \cup {f}
  /\ UNCHANGED <<projectVars, wallet, clients, mail, latest, cut, now>>

PushKey == Dh(handler.pubkey, handler.secret)

Advance(stage) == handler' = [handler EXCEPT !.stage = stage]

Register ==
  /\ handler # None /\ handler.stage = "register"
  /\ clients' = [clients EXCEPT ![handler.client] = PushKey]
  /\ Advance("settle")
  /\ UNCHANGED <<projectVars, wallet, drawn, mail, latest, cut, now>>

Settle ==
  /\ handler # None /\ handler.stage = "settle"
  /\ Advance("respond")
  /\ UNCHANGED <<projectVars, wallet, clients, drawn, mail, latest, cut, now>>

Respond ==
  /\ handler # None /\ handler.stage = "respond"
  /\ mail' = mail \cup {Response(handler.id, handler.secret,
                                 SealedWith(handler.response_sym_key, PushKey))}
  /\ latest' = [latest EXCEPT ![handler.client] = Dh(PublicOf[handler.secret], handler.id)]
  /\ cut' = cut \ {handler.client}
  /\ handler' = None
  /\ UNCHANGED <<projectVars, wallet, clients, drawn, now>>

\* Clients a stop of the handler leaves under a key their wallets were not told.
LeftUntold == IF handler # None /\ handler.stage # "register" THEN {handler.client} ELSE {}

\* register_client or a publish fails, register_client perhaps after its write.
\* A response that the relay took and yet failed is Respond.
Fail ==
  /\ handler # None
  /\ handler' = None
  /\ \/ clients' = clients /\ cut' = cut \cup LeftUntold
     \/ /\ handler.stage = "register"
        /\ clients' = [clients EXCEPT ![handler.client] = PushKey]
        /\ cut' = cut \cup {handler.client}
  /\ UNCHANGED <<projectVars, wallet, drawn, mail, latest, now>>

-----------------------------------------------------------------------------
Restart ==
  /\ handler' = None
  /\ request' = [r \in Requests |-> None]
  /\ cut' = cut \cup LeftUntold
  /\ UNCHANGED <<project_data, answered, used, wallet, clients, drawn, mail, latest, now>>

\* A panic of the service unwinds run() and with it the process.  The project is
\* looked up first: on a topic without one the bytes are never looked at.
Panic(msg) ==
  /\ handler = None
  /\ ProjectsOf(msg.topic) # {}
  /\ Panics1(msg.bytes)
  /\ Restart

Tick ==
  /\ now < MaxNow
  /\ now' = now + 1
  /\ UNCHANGED <<projectVars, wallet, serverVars>>

Service ==
  \/ \E msg \in Arrivals : Panic(msg) \/ \E f \in Fresh : Accept(msg, f)
  \/ Register \/ Settle \/ Respond \/ Fail

Http ==
  \E r \in Requests :
    \/ \E p \in Projects : \E s \in SecretsOf[p] : SubscribeTopic(r, p, s)
    \/ EndRequest(r)

Environment ==
  \/ \E w \in Wallets, p \in Projects, k \in ProjectKeys, jwt \in Tokens : Propose(w, p, k, jwt)
  \/ Restart
  \/ Tick

Next == Service \/ Http \/ Environment

Spec == Init /\ [][Next]_vars

-----------------------------------------------------------------------------
(* A client is registered only for a wallet that sent a token for its      *)
(* account to its project, and under a key with that wallet's half in it,  *)
(* whatever the relay delivers, how often and where (push_subscribe.rs).   *)
ClientsConsented ==
  \A c \in Clients :
    clients[c] # None =>
      \E w \in Proposed :
        /\ PublicOf[w] \in clients[c]
        /\ \E s \in SecretsOf[c[1]] : wallet[w].key = KeyOf[<<c[1], s>>]
        /\ ClaimsOf(wallet[w].token).sub = c[2]

(* A token is taken only if the issuer it names signed the very claims     *)
(* that are acted upon, although claims and signature are found by two     *)
(* different splits of the string (auth.rs).                               *)
ClaimsSigned ==
  handler # None =>
    LET jwt == handler.token IN
    \E i \in 3..Len(jwt) :
      /\ jwt[i].kind = "signature"
      /\ jwt[i].by = ClaimsOf(jwt).iss
      /\ jwt[i].over = SubSeq(jwt, 1, i - 1)
      /\ jwt[i].over[2] = ClaimsOf(jwt)

(* Every response is on the topic of, and opens with, the key of the       *)
(* wallet whose message it answers, and with no other wallet's, also when  *)
(* the project's key was rotated meanwhile (push_subscribe.rs).            *)
OnlyItsWallet ==
  \A m \in mail : \A w \in Proposed :
    LET e == FromBytes0(m.bytes) IN
    /\ Plain(e).id \in Proposed
    /\ Plain(e).id = w <=> m.topic = ResponseKey(w)
    /\ Plain(e).id = w <=> Opens(e, ResponseKey(w))

(* A public key that was answered stays the one on record, across retries, *)
(* concurrent calls and restarts, until the project calls with another     *)
(* secret: wallets seal to keys they were given long ago                   *)
(* (subscribe_topic.rs).                                                   *)
AnsweredKeyStands ==
  \A a \in answered :
    \/ project_data[a[1]] = a[2]
    \/ \E s, t \in used[a[1]] : s # t

(* The key a wallet derives from the last response sent to its account is  *)
(* the one the client is on record with, unless push_subscribe is at work  *)
(* on the client or was stopped between the two (push_subscribe.rs).       *)
LastResponseCurrent ==
  \A c \in Clients :
    latest[c] \notin {None, clients[c]} => c \in cut \cup LeftUntold

(* No token is accepted before the moment it says it was issued at, which  *)
(* is what the error NotYetValid and the comment on iat are for (auth.rs). *)
IssuedInThePast ==
  handler # None => ClaimsOf(handler.token).iat <= now
=============================================================================
