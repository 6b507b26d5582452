-------------------------- MODULE HandshakeProofs --------------------------
(***************************************************************************)
(* Safety of Handshake, for any projects, secrets, wallets, tokens and     *)
(* lengths of a nonce and a key.                                           *)
(***************************************************************************)
EXTENDS Handshake, EnvelopeProofs

-----------------------------------------------------------------------------
(* Keys.                                                                   *)

LEMMA KeyTypes ==
  /\ \A p \in Projects : \A s \in SecretsOf[p] : KeyOf[<<p, s>>] \in ProjectKeys
  /\ \A x \in Privates : PublicOf[x] \in Pubkeys /\ PublicOf[x] \in Seq(Bytes)
  /\ \A a, b \in Pubkeys : {a, b} \in SharedKeys
  /\ ProjectKeys \subseteq Privates /\ Wallets \subseteq Privates /\ Fresh \subseteq Privates
<1>1. ASSUME NEW p \in Projects, NEW s \in SecretsOf[p]
      PROVE  KeyOf[<<p, s>>] \in ProjectKeys
  <2>1. <<p, s>> \in DOMAIN KeyOf
    BY HandshakeAssumption
  <2> QED
    BY <2>1 DEF ProjectKeys
<1>2. ASSUME NEW x \in Privates
      PROVE  PublicOf[x] \in Pubkeys /\ PublicOf[x] \in Seq(Bytes)
  BY HandshakeAssumption DEF Pubkeys
<1> QED
  BY <1>1, <1>2 DEF SharedKeys, Privates

(* Two wallets share a key with the server only if they are one, and the   *)
(* server's halves are one as well.                                        *)
LEMMA SharedOnce ==
  ASSUME NEW v \in Wallets, NEW w \in Wallets,
         NEW k \in ProjectKeys, NEW l \in ProjectKeys,
         Dh(PublicOf[k], v) = Dh(PublicOf[l], w)
  PROVE  v = w /\ k = l
<1>1. {PublicOf[k], PublicOf[v]} = {PublicOf[l], PublicOf[w]}
  BY DEF Dh
<1>2. v \in Privates /\ w \in Privates /\ k \in Privates /\ l \in Privates
  BY DEF Privates
<1>3. k # w /\ l # v
  BY HandshakeAssumption
<1>4. PublicOf[k] # PublicOf[w] /\ PublicOf[l] # PublicOf[v]
  BY <1>2, <1>3, HandshakeAssumption
<1>5. PublicOf[k] = PublicOf[l] /\ PublicOf[v] = PublicOf[w]
  BY <1>1, <1>4
<1> QED
  BY <1>2, <1>5, HandshakeAssumption

-----------------------------------------------------------------------------
(* Messages.                                                               *)

(* What push_subscribe opens is a whole proposal, and it was sealed for the *)
(* very key pair it is opened with: a beginning of one opens with nothing. *)
LEMMA ProposalReads ==
  ASSUME NEW w \in Wallets, wallet[w] \in [key : ProjectKeys, token : Tokens],
         NEW n \in 0..(HeaderLen1 + 1), NEW k \in ProjectKeys,
         ~Panics1(SubSeq(Proposal(w).bytes, 1, n)),
         LET e == FromBytes1(SubSeq(Proposal(w).bytes, 1, n)) IN Opens(e, Dh(e.pubkey, k))
  PROVE  LET e == FromBytes1(SubSeq(Proposal(w).bytes, 1, n)) IN
         /\ e.pubkey = PublicOf[w]
         /\ Dh(e.pubkey, k) = ResponseKey(w)
         /\ Plain(e) = [id |-> w, token |-> wallet[w].token]
         /\ k = wallet[w].key
<1> DEFINE plain == [id |-> w, token |-> wallet[w].token]
           box == [key |-> ResponseKey(w), iv |-> Iv, plain |-> plain]
           sent == Envelope1(ResponseKey(w), Iv, plain, PublicOf[w])
           all == ToBytes1(sent)
           bytes == SubSeq(all, 1, n)
           e == FromBytes1(bytes)
           S == Bytes \cup {1, box}
<1>1. sent = [envelope_type |-> 1, pubkey |-> PublicOf[w], iv |-> Iv, sealbox |-> <<box>>]
  BY DEF Envelope1, Seal
<1>2. /\ 1 \in S
      /\ PublicOf[w] \in Seq(S) /\ Len(PublicOf[w]) = PubkeyLen
      /\ Iv \in Seq(S) /\ Len(Iv) = IvLen
      /\ <<box>> \in Seq(S) /\ Len(<<box>>) = 1
  <2>1. PublicOf[w] \in Seq(Bytes) /\ Len(PublicOf[w]) = PubkeyLen
    BY HandshakeAssumption DEF Privates
  <2>2. Iv \in Seq(Bytes) /\ Len(Iv) = IvLen
    BY HandshakeAssumption
  <2> HIDE DEF box
  <2> QED
    BY <2>1, <2>2
<1>3. Proposal(w).bytes = all
  BY DEF Proposal
<1> HIDE DEF S
<1>4. /\ FromBytes1(all) = sent
      /\ all \in Seq(S)
      /\ Len(all) = HeaderLen1 + 1
  <2> DEFINE sealed == <<box>>
             pubkey == PublicOf[w]
             r == [envelope_type |-> 1, pubkey |-> pubkey, iv |-> Iv, sealbox |-> sealed]
  <2>1. /\ FromBytes1(ToBytes1(r)) = r
        /\ ToBytes1(r) \in Seq(S)
        /\ Len(ToBytes1(r)) = HeaderLen1 + Len(sealed)
    <3>1. r \in [envelope_type : {1}, pubkey : Seq(S), iv : Seq(S), sealbox : Seq(S)]
      BY <1>2
    <3>2. 1 \in S /\ Len(r.pubkey) = PubkeyLen /\ Len(r.iv) = IvLen /\ r.sealbox = sealed
      BY <1>2
    <3> HIDE DEF r
    <3> QED
      BY <3>1, <3>2, RoundTrip1
  <2>2. sent = r
    BY <1>1
  <2> HIDE DEF r, sent
  <2> QED
    BY <2>1, <2>2, <1>2
<1> HIDE DEF all, sent
<1>5. HeaderLen1 \in Nat
  BY EnvelopeAssumption DEF HeaderLen1
<1>6. \A i \in 1..n : all[i] \in S
  BY <1>4, <1>5, ElementOfSeq
<1>7. Len(bytes) = n
  BY <1>5, <1>6, SubSeqProperties
<1>8. n >= HeaderLen1
  BY <1>3, <1>5, <1>7 DEF Panics1
<1>9. n = HeaderLen1 + 1
  <2> SUFFICES ASSUME n = HeaderLen1 PROVE FALSE
    BY <1>5, <1>8
  <2>1. e.sealbox = SubSeq(bytes, HeaderLen1 + 1, HeaderLen1)
    BY <1>7 DEF FromBytes1
  <2>2. Len(e.sealbox) = 1
    BY <1>3 DEF Opens
  <2> HIDE DEF e, bytes
  <2>3. HeaderLen1 + 1 \in Int /\ HeaderLen1 \in Int /\ HeaderLen1 < HeaderLen1 + 1
    BY <1>5
  <2>4. SubSeq(bytes, HeaderLen1 + 1, HeaderLen1) = <<>>
    BY <2>3, SubSeqEmpty
  <2> QED
    BY <2>1, <2>2, <2>4
<1>10. bytes = all
  BY <1>4, <1>9, SubSeqFull
<1>11. e = sent
  BY <1>4, <1>10
<1>12. /\ e.pubkey = PublicOf[w]
       /\ e.sealbox = <<box>>
  BY <1>1, <1>11
<1>13. Dh(e.pubkey, k) = box.key
  BY <1>3, <1>12 DEF Opens
<1>14. k = wallet[w].key
  <2>1. Dh(PublicOf[w], k) = Dh(PublicOf[wallet[w].key], w)
    BY <1>12, <1>13 DEF ResponseKey
  <2>2. Dh(PublicOf[k], w) = Dh(PublicOf[wallet[w].key], w)
    BY <2>1 DEF Dh
  <2> QED
    BY <2>2, SharedOnce
<1> QED
  BY <1>3, <1>12, <1>13, <1>14 DEF Plain

(* What a wallet reads in a response.                                      *)
LEMMA ResponseReads ==
  ASSUME NEW w, NEW f \in Fresh, NEW key
  PROVE  FromBytes0(Response(w, f, key).bytes) =
           Envelope0(key, Iv, [id |-> w, publicKey |-> PublicOf[f]])
<1> DEFINE box == [key |-> key, iv |-> Iv, plain |-> [id |-> w, publicKey |-> PublicOf[f]]]
           sent == Envelope0(key, Iv, [id |-> w, publicKey |-> PublicOf[f]])
           S == Bytes \cup {0, box}
<1>1. sent = [envelope_type |-> 0, iv |-> Iv, sealbox |-> <<box>>]
  BY DEF Envelope0, Seal
<1>2. Response(w, f, key).bytes = ToBytes0(sent)
  BY DEF Response
<1>3. 0 \in S /\ Iv \in Seq(S) /\ Len(Iv) = IvLen /\ <<box>> \in Seq(S)
  <2>1. Iv \in Seq(Bytes) /\ Len(Iv) = IvLen
    BY HandshakeAssumption
  <2> HIDE DEF box
  <2> QED
    BY <2>1
<1> HIDE DEF S, box
<1>4. FromBytes0(ToBytes0(sent)) = sent
  <2> HIDE DEF sent
  <2>1. /\ sent \in [envelope_type : {0}, iv : Seq(S), sealbox : Seq(S)]
        /\ Len(sent.iv) = IvLen
    BY <1>1, <1>3
  <2> QED
    BY <1>3, <2>1, RoundTrip0
<1> QED
  BY <1>2, <1>4

-----------------------------------------------------------------------------
(* The inductive invariant.                                                *)

(* Every key of a project comes from a secret it called with.              *)
Recorded(a) == \E s \in used[a[1]] : a[2] = KeyOf[<<a[1], s>>]

KeysInv ==
  /\ \A r \in Requests : request[r] # None => Recorded(request[r])
  /\ \A a \in answered : Recorded(a)
  /\ \A p \in Projects :
       /\ used[p] \subseteq SecretsOf[p]
       /\ used[p] # {} => Recorded(<<p, project_data[p]>>)
       /\ project_data[p] # None => used[p] # {}

(* The wallet's key belongs to the project.                                *)
SentTo(w, p) == \E s \in SecretsOf[p] : wallet[w].key = KeyOf[<<p, s>>]

(* The locals of push_subscribe are those of the wallet it answers.        *)
HandlerInv ==
  handler # None =>
    /\ handler.id \in Proposed
    /\ handler.pubkey = PublicOf[handler.id]
    /\ handler.response_sym_key = ResponseKey(handler.id)
    /\ handler.token = wallet[handler.id].token
    /\ handler.client[2] = ClaimsOf(handler.token).sub
    /\ SentTo(handler.id, handler.client[1])
    /\ Len(handler.token) >= 2
    /\ ClaimsOf(handler.token).kind = "claims"
    /\ Signed(handler.token)
    /\ handler.stage # "register" => clients[handler.client] = PushKey

MailInv ==
  \A m \in mail : \E w \in Proposed, f \in Fresh : m = Response(w, f, ResponseKey(w))

IInv ==
  /\ TypeOK
  /\ KeysInv
  /\ HandlerInv
  /\ ClientsConsented
  /\ MailInv
  /\ LastResponseCurrent

-----------------------------------------------------------------------------
LEMMA ProposedType ==
  ASSUME TypeOK, NEW w \in Proposed
  PROVE  w \in Wallets /\ wallet[w] \in [key : ProjectKeys, token : Tokens]
BY DEF TypeOK, Proposed

(* Whatever the relay delivers, push_subscribe goes on only with a whole   *)
(* proposal that was sealed for the project's key now on record.           *)
LEMMA Accepted ==
  ASSUME TypeOK, KeysInv, NEW msg \in Arrivals, NEW f \in Fresh, Accept(msg, f)
  PROVE  \E w \in Proposed, p \in Projects :
           /\ handler' = [stage |-> "register", client |-> <<p, ClaimsOf(wallet[w].token).sub>>,
                          id |-> w, token |-> wallet[w].token, pubkey |-> PublicOf[w],
                          response_sym_key |-> ResponseKey(w), secret |-> f]
           /\ FromJwt(wallet[w].token, now)
           /\ SentTo(w, p)
<1>1. PICK w \in Proposed, n \in 0..(HeaderLen1 + 1) :
        msg.bytes = SubSeq(Proposal(w).bytes, 1, n)
  BY DEF Arrivals
<1> DEFINE e == FromBytes1(msg.bytes)
           key(p) == Dh(e.pubkey, project_data[p])
           jwt == Plain(e).token
<1>2. PICK p \in ProjectsOf(msg.topic) :
        /\ Opens(e, key(p))
        /\ FromJwt(jwt, now)
        /\ handler' = [stage |-> "register", client |-> <<p, ClaimsOf(jwt).sub>>,
                       id |-> Plain(e).id, token |-> jwt, pubkey |-> e.pubkey,
                       response_sym_key |-> key(p), secret |-> f]
  BY DEF Accept, FirstStage, Secret
<1>3. p \in Projects /\ project_data[p] \in ProjectKeys /\ project_data[p] # None
  BY DEF ProjectsOf, TypeOK
<1>4. w \in Wallets /\ wallet[w] \in [key : ProjectKeys, token : Tokens]
  BY ProposedType
<1>5. /\ e.pubkey = PublicOf[w]
      /\ key(p) = ResponseKey(w)
      /\ Plain(e) = [id |-> w, token |-> wallet[w].token]
      /\ project_data[p] = wallet[w].key
  <2>1. ~Panics1(msg.bytes)
    BY DEF Accept
  <2> QED
    BY <1>1, <1>2, <1>3, <1>4, <2>1, ProposalReads
<1>6. SentTo(w, p)
  BY <1>3, <1>5 DEF KeysInv, Recorded, SentTo
<1> HIDE DEF e, key
<1>7. jwt = wallet[w].token /\ Plain(e).id = w
  BY <1>5
<1> HIDE DEF jwt
<1> QED
  BY <1>2, <1>3, <1>5, <1>6, <1>7

LEMMA PushKeyType ==
  ASSUME TypeOK, handler # None
  PROVE  PushKey \in SharedKeys /\ handler \in Job
<1>1. handler \in Job
  BY DEF TypeOK
<1>2. handler.pubkey \in Pubkeys /\ PublicOf[handler.secret] \in Pubkeys
  BY <1>1, KeyTypes DEF Job
<1> QED
  BY <1>1, <1>2, KeyTypes DEF PushKey, Dh

-----------------------------------------------------------------------------
LEMMA TypeOKInit == Init => TypeOK
BY HandshakeAssumption DEF Init, TypeOK

LEMMA TypeOKNext == TypeOK /\ KeysInv /\ [Next]_vars => TypeOK'
<1> SUFFICES ASSUME TypeOK, KeysInv, [Next]_vars PROVE TypeOK'
  OBVIOUS
<1> USE DEF projectVars, serverVars
<1>1. ASSUME NEW msg \in Arrivals, NEW f \in Fresh, Accept(msg, f)
      PROVE  TypeOK'
  <2>1. PICK w \in Proposed, p \in Projects :
          /\ handler' = [stage |-> "register", client |-> <<p, ClaimsOf(wallet[w].token).sub>>,
                         id |-> w, token |-> wallet[w].token, pubkey |-> PublicOf[w],
                         response_sym_key |-> ResponseKey(w), secret |-> f]
          /\ FromJwt(wallet[w].token, now)
    BY <1>1, Accepted
  <2>2. w \in Wallets /\ wallet[w] \in [key : ProjectKeys, token : Tokens]
    BY ProposedType
  <2>3. ClaimsOf(wallet[w].token).sub \in Accounts
    BY <2>1, <2>2, HandshakeAssumption DEF FromJwt, Decodes
  <2>4. PublicOf[w] \in Pubkeys /\ ResponseKey(w) \in SharedKeys
    BY <2>2, KeyTypes DEF ResponseKey, Dh
  <2>5. handler' \in Job
    BY <2>1, <2>2, <2>3, <2>4 DEF Job, Stages, Clients
  <2>6. drawn' \subseteq Fresh
    BY <1>1 DEF Accept, TypeOK
  <2> QED
    BY <1>1, <2>5, <2>6 DEF Accept, TypeOK
<1>2. CASE Register
  <2>1. PushKey \in SharedKeys /\ handler' \in Job
    BY <1>2, PushKeyType DEF Register, Advance, Job, Stages
  <2>2. clients' = [clients EXCEPT ![handler.client] = PushKey]
    BY <1>2 DEF Register
  <2> HIDE DEF PushKey
  <2>3. clients' \in [Clients -> SharedKeys \cup {None}]
    <3>1. clients \in [Clients -> SharedKeys \cup {None}]
      BY DEF TypeOK
    <3> QED
      BY <2>1, <2>2, <3>1
  <2> QED
    BY <1>2, <2>1, <2>3 DEF Register, TypeOK
<1>3. CASE Settle
  <2>1. handler' \in Job
    BY <1>3, PushKeyType DEF Settle, Advance, Job, Stages
  <2> QED
    BY <1>3, <2>1 DEF Settle, TypeOK
<1>4. CASE Respond
  <2>1. handler \in Job
    BY <1>4, PushKeyType DEF Respond
  <2>2. Dh(PublicOf[handler.secret], handler.id) \in SharedKeys
    BY <2>1, KeyTypes DEF Job, Dh
  <2>3. mail' \subseteq Responses
    <3>1. mail' = mail \cup {Response(handler.id, handler.secret, handler.response_sym_key)}
      BY <1>4 DEF Respond, SealedWith
    <3>2. handler.id \in Wallets /\ handler.secret \in Fresh /\ handler.response_sym_key \in SharedKeys
      BY <2>1 DEF Job
    <3>3. mail \subseteq Responses
      BY DEF TypeOK
    <3> QED
      BY <3>1, <3>2, <3>3 DEF Responses
  <2>4. latest' \in [Clients -> SharedKeys \cup {None}]
    <3> DEFINE key == Dh(PublicOf[handler.secret], handler.id)
    <3>1. latest' = [latest EXCEPT ![handler.client] = key]
      BY <1>4 DEF Respond
    <3>2. key \in SharedKeys
      BY <2>2
    <3>3. latest \in [Clients -> SharedKeys \cup {None}]
      BY DEF TypeOK
    <3> HIDE DEF key
    <3> QED
      BY <3>1, <3>2, <3>3
  <2> QED
    BY <1>4, <2>3, <2>4 DEF Respond, TypeOK
<1>5. CASE Fail
  <2>1. PushKey \in SharedKeys /\ handler \in Job
    BY <1>5, PushKeyType DEF Fail
  <2>2. LeftUntold \subseteq Clients /\ handler.client \in Clients
    BY <2>1 DEF LeftUntold, Job
  <2>3. clients' \in [Clients -> SharedKeys \cup {None}] /\ cut' \subseteq Clients
    BY <1>5, <2>1, <2>2 DEF Fail, TypeOK
  <2> QED
    BY <1>5, <2>3 DEF Fail, TypeOK
<1>6. ASSUME NEW r \in Requests, NEW p \in Projects, NEW s \in SecretsOf[p],
             SubscribeTopic(r, p, s)
      PROVE  TypeOK'
  <2>1. KeyOf[<<p, s>>] \in ProjectKeys
    BY KeyTypes
  <2> QED
    BY <1>6, <2>1 DEF SubscribeTopic, KeyPair, TypeOK
<1>7. ASSUME NEW r \in Requests, EndRequest(r)
      PROVE  TypeOK'
  BY <1>7 DEF EndRequest, TypeOK
<1>8. ASSUME NEW w \in Wallets, NEW p \in Projects, NEW k \in ProjectKeys, NEW jwt \in Tokens,
             Propose(w, p, k, jwt)
      PROVE  TypeOK'
  BY <1>8 DEF Propose, TypeOK
<1>9. CASE Restart
  <2>1. LeftUntold \subseteq Clients
    BY DEF LeftUntold, TypeOK, Job
  <2> QED
    BY <1>9, <2>1 DEF Restart, TypeOK
<1>10. CASE Tick
  BY <1>10, HandshakeAssumption DEF Tick, TypeOK
<1>11. CASE UNCHANGED vars
  BY <1>11 DEF vars, TypeOK
<1> QED
  BY <1>1, <1>2, <1>3, <1>4, <1>5, <1>6, <1>7, <1>8, <1>9, <1>10, <1>11
     DEF Next, Service, Http, Environment, Panic

-----------------------------------------------------------------------------
LEMMA KeysInit == Init => KeysInv
BY DEF Init, KeysInv

LEMMA KeysNext == TypeOK /\ KeysInv /\ [Next]_vars => KeysInv'
<1> SUFFICES ASSUME TypeOK, KeysInv, [Next]_vars PROVE KeysInv'
  OBVIOUS
<1>1. ASSUME NEW r \in Requests, NEW p \in Projects, NEW s \in SecretsOf[p],
             SubscribeTopic(r, p, s)
      PROVE  KeysInv'
  <2>1. /\ project_data' = [project_data EXCEPT ![p] = KeyOf[<<p, s>>]]
        /\ request' = [request EXCEPT ![r] = <<p, KeyOf[<<p, s>>]>>]
        /\ used' = [used EXCEPT ![p] = @ \cup {s}]
        /\ answered' = answered
    BY <1>1 DEF SubscribeTopic, KeyPair
  <2>2. /\ DOMAIN project_data = Projects
        /\ DOMAIN request = Requests
        /\ DOMAIN used = Projects
        /\ answered \subseteq Projects \X ProjectKeys
        /\ request \in [Requests -> (Projects \X ProjectKeys) \cup {None}]
    BY DEF TypeOK
  <2>3. ASSUME NEW a \in Projects \X ProjectKeys, Recorded(a)
        PROVE  Recorded(a)'
    BY <2>1, <2>2, <2>3 DEF Recorded
  <2>4. ASSUME NEW q \in Requests, request'[q] # None
        PROVE  Recorded(request[q])'
    <3>1. CASE q = r
      BY <2>1, <2>2, <3>1 DEF Recorded
    <3>2. CASE q # r
      <4>1. request'[q] = request[q]
        BY <2>1, <2>2, <3>2
      <4>2. request[q] \in Projects \X ProjectKeys /\ Recorded(request[q])
        BY <2>2, <2>4, <4>1 DEF KeysInv
      <4>3. \E t \in used'[request[q][1]] : request[q][2] = KeyOf[<<request[q][1], t>>]
        BY <4>2, <2>3 DEF Recorded
      <4> QED
        BY <4>1, <4>3 DEF Recorded
    <3> QED
      BY <3>1, <3>2
  <2>5. ASSUME NEW a \in answered'
        PROVE  Recorded(a)'
    BY <2>1, <2>2, <2>3 DEF KeysInv
  <2>6. ASSUME NEW q \in Projects
        PROVE  /\ used'[q] \subseteq SecretsOf[q]
               /\ used'[q] # {} => Recorded(<<q, project_data[q]>>)'
               /\ project_data'[q] # None => used'[q] # {}
    <3>1. CASE q = p
      BY <2>1, <2>2, <3>1 DEF Recorded, KeysInv
    <3>2. CASE q # p
      <4>1. used'[q] = used[q] /\ project_data'[q] = project_data[q]
        BY <2>1, <2>2, <3>2
      <4> QED
        BY <4>1 DEF Recorded, KeysInv
    <3> QED
      BY <3>1, <3>2
  <2> QED
    BY <2>4, <2>5, <2>6 DEF KeysInv
<1>2. ASSUME NEW r \in Requests, EndRequest(r)
      PROVE  KeysInv'
  <2>1. /\ project_data' = project_data
        /\ used' = used
        /\ request' = [request EXCEPT ![r] = None]
        /\ answered' \in {answered, answered \cup {request[r]}}
        /\ request[r] # None
    BY <1>2 DEF EndRequest, serverVars
  <2>2. DOMAIN request = Requests
    BY DEF TypeOK
  <2>3. ASSUME NEW q \in Requests, request'[q] # None
        PROVE  request'[q] = request[q]
    BY <2>1, <2>2, <2>3
  <2>4. ASSUME NEW a, Recorded(a)
        PROVE  Recorded(a)'
    BY <2>1, <2>4 DEF Recorded
  <2>5. ASSUME NEW q \in Requests, request'[q] # None
        PROVE  Recorded(request[q])'
    BY <2>1, <2>3, <2>5 DEF KeysInv, Recorded
  <2>6. ASSUME NEW a \in answered'
        PROVE  Recorded(a)'
    <3>1. a \in answered \/ a = request[r]
      BY <2>1, <2>6
    <3> QED
      BY <2>1, <2>4, <3>1 DEF KeysInv
  <2>7. ASSUME NEW p \in Projects
        PROVE  /\ used'[p] \subseteq SecretsOf[p]
               /\ used'[p] # {} => Recorded(<<p, project_data[p]>>)'
               /\ project_data'[p] # None => used'[p] # {}
    BY <2>1 DEF KeysInv, Recorded
  <2> QED
    BY <2>5, <2>6, <2>7 DEF KeysInv
<1>3. CASE Restart
  <2>1. /\ project_data' = project_data
        /\ used' = used
        /\ \A r \in Requests : request'[r] = None
        /\ answered' = answered
    BY <1>3 DEF Restart
  <2> QED
    BY <2>1 DEF KeysInv, Recorded
<1>4. ASSUME UNCHANGED projectVars
      PROVE  KeysInv'
  BY <1>4 DEF projectVars, KeysInv, Recorded
<1>5. \/ \E r \in Requests : \E p \in Projects : \E s \in SecretsOf[p] : SubscribeTopic(r, p, s)
      \/ \E r \in Requests : EndRequest(r)
      \/ Restart
      \/ UNCHANGED projectVars
  BY DEF Next, Service, Http, Environment, Panic, Accept, Register, Settle, Respond, Fail,
         Propose, Tick, projectVars, vars
<1> QED
  BY <1>1, <1>2, <1>3, <1>4, <1>5

-----------------------------------------------------------------------------
(* What a wallet sent stays as it is.                                      *)
LEMMA WalletsKeep ==
  ASSUME TypeOK, [Next]_vars, NEW w \in Proposed
  PROVE  w \in Proposed' /\ wallet'[w] = wallet[w] /\ ResponseKey(w)' = ResponseKey(w)
<1>1. \/ \E v \in Wallets, p \in Projects, k \in ProjectKeys, jwt \in Tokens : Propose(v, p, k, jwt)
      \/ UNCHANGED wallet
  BY DEF Next, Service, Http, Environment, Panic, Accept, Register, Settle, Respond, Fail,
         SubscribeTopic, EndRequest, Restart, Tick, vars
<1>2. wallet'[w] = wallet[w]
  <2>1. ASSUME NEW v \in Wallets, NEW p \in Projects, NEW k \in ProjectKeys, NEW jwt \in Tokens,
               Propose(v, p, k, jwt)
        PROVE  wallet'[w] = wallet[w]
    BY <2>1 DEF Propose, Proposed, TypeOK
  <2> QED
    BY <1>1, <2>1
<1> QED
  BY <1>2 DEF Proposed, ResponseKey

(* The locals of push_subscribe vouch for the client it registers.         *)
LEMMA Vouched ==
  ASSUME TypeOK, HandlerInv, handler # None
  PROVE  \E w \in Proposed :
           /\ PublicOf[w] \in PushKey
           /\ SentTo(w, handler.client[1])
           /\ ClaimsOf(wallet[w].token).sub = handler.client[2]
BY DEF HandlerInv, PushKey, Dh

LEMMA HandlerNext == TypeOK /\ KeysInv /\ HandlerInv /\ [Next]_vars => HandlerInv'
<1> SUFFICES ASSUME TypeOK, KeysInv, HandlerInv, [Next]_vars, handler' # None PROVE HandlerInv'
  BY DEF HandlerInv
<1>1. ASSUME NEW msg \in Arrivals, NEW f \in Fresh, Accept(msg, f)
      PROVE  HandlerInv'
  <2>1. PICK w \in Proposed, p \in Projects :
          /\ handler' = [stage |-> "register", client |-> <<p, ClaimsOf(wallet[w].token).sub>>,
                         id |-> w, token |-> wallet[w].token, pubkey |-> PublicOf[w],
                         response_sym_key |-> ResponseKey(w), secret |-> f]
          /\ FromJwt(wallet[w].token, now)
          /\ SentTo(w, p)
    BY <1>1, Accepted
  <2>2. w \in Proposed' /\ wallet'[w] = wallet[w] /\ ResponseKey(w)' = ResponseKey(w)
    BY WalletsKeep
  <2>3. SentTo(w, p)'
    BY <2>1, <2>2 DEF SentTo
  <2>4. /\ Len(wallet[w].token) >= 2
        /\ ClaimsOf(wallet[w].token).kind = "claims"
        /\ Signed(wallet[w].token)
    BY <2>1 DEF FromJwt, Decodes
  <2> QED
    BY <2>1, <2>2, <2>3, <2>4 DEF HandlerInv
<1>2. CASE Register \/ Settle
  <2>1. handler # None /\ handler \in Job
    BY <1>2, PushKeyType DEF Register, Settle
  <2>2. PICK stage \in Stages : handler' = [handler EXCEPT !.stage = stage]
    BY <1>2 DEF Register, Settle, Advance, Stages
  <2>3. /\ handler'.id = handler.id /\ handler'.pubkey = handler.pubkey
        /\ handler'.response_sym_key = handler.response_sym_key
        /\ handler'.token = handler.token /\ handler'.client = handler.client
        /\ handler'.secret = handler.secret
    BY <2>1, <2>2 DEF Job
  <2>4. PICK w \in Proposed : w = handler.id
    BY <2>1 DEF HandlerInv
  <2>5. w \in Proposed' /\ wallet'[w] = wallet[w] /\ ResponseKey(w)' = ResponseKey(w)
    BY WalletsKeep
  <2>6. clients'[handler.client] = PushKey
    <3>1. CASE Register
      BY <3>1, <2>1 DEF Register, TypeOK, Job
    <3>2. CASE Settle
      BY <3>2, <2>1 DEF Settle, HandlerInv
    <3> QED
      BY <1>2, <3>1, <3>2
  <2>7. PushKey' = PushKey
    BY <2>3 DEF PushKey, Dh
  <2>8. handler'.response_sym_key = ResponseKey(w)'
    BY <2>1, <2>3, <2>4, <2>5 DEF HandlerInv
  <2>9. SentTo(w, handler.client[1])'
    BY <2>1, <2>3, <2>4, <2>5 DEF HandlerInv, SentTo
  <2> QED
    BY <2>1, <2>3, <2>4, <2>5, <2>6, <2>7, <2>8, <2>9 DEF HandlerInv
<1>3. ASSUME UNCHANGED <<handler, clients>>
      PROVE  HandlerInv'
  <2>1. handler # None
    BY <1>3
  <2>2. handler.id \in Proposed
    BY <2>1 DEF HandlerInv
  <2>3. handler.id \in Proposed' /\ wallet'[handler.id] = wallet[handler.id]
    BY <2>2, WalletsKeep
  <2>4. PushKey' = PushKey
    BY <1>3 DEF PushKey, Dh
  <2>5. ResponseKey(handler.id)' = ResponseKey(handler.id)
    BY <1>3, <2>3 DEF ResponseKey
  <2> QED
    BY <1>3, <2>1, <2>3, <2>4, <2>5 DEF HandlerInv, SentTo
<1>4. \/ \E msg \in Arrivals, f \in Fresh : Accept(msg, f)
      \/ Register \/ Settle
      \/ handler' = None
      \/ UNCHANGED <<handler, clients>>
  BY DEF Next, Service, Http, Environment, Panic, Respond, Fail, SubscribeTopic, EndRequest,
         Propose, Restart, Tick, serverVars, vars
<1> QED
  BY <1>1, <1>2, <1>3, <1>4

-----------------------------------------------------------------------------
LEMMA ClientsNext ==
  TypeOK /\ HandlerInv /\ ClientsConsented /\ [Next]_vars => ClientsConsented'
<1> SUFFICES ASSUME TypeOK, HandlerInv, ClientsConsented, [Next]_vars,
                    NEW c \in Clients, clients'[c] # None
             PROVE  \E w \in Proposed' :
                      /\ PublicOf[w] \in clients'[c]
                      /\ \E s \in SecretsOf[c[1]] : wallet'[w].key = KeyOf[<<c[1], s>>]
                      /\ ClaimsOf(wallet'[w].token).sub = c[2]
  BY DEF ClientsConsented
<1>1. \/ clients' = clients
      \/ handler # None /\ clients' = [clients EXCEPT ![handler.client] = PushKey]
  BY DEF Next, Service, Http, Environment, Panic, Accept, Register, Settle, Respond, Fail,
         SubscribeTopic, EndRequest, Propose, Restart, Tick, serverVars, vars
<1>2. \E w \in Proposed :
        /\ PublicOf[w] \in clients'[c]
        /\ \E s \in SecretsOf[c[1]] : wallet[w].key = KeyOf[<<c[1], s>>]
        /\ ClaimsOf(wallet[w].token).sub = c[2]
  <2>1. CASE clients'[c] = clients[c]
    BY <2>1 DEF ClientsConsented
  <2>2. CASE handler # None /\ c = handler.client /\ clients'[c] = PushKey
    BY <2>2, Vouched DEF SentTo
  <2>3. DOMAIN clients = Clients
    BY DEF TypeOK
  <2> QED
    BY <1>1, <2>1, <2>2, <2>3
<1> QED
  BY <1>2, WalletsKeep

LEMMA MailNext == TypeOK /\ HandlerInv /\ MailInv /\ [Next]_vars => MailInv'
<1> SUFFICES ASSUME TypeOK, HandlerInv, MailInv, [Next]_vars, NEW m \in mail'
             PROVE  \E w \in Proposed', f \in Fresh : m = Response(w, f, ResponseKey(w)')
  BY DEF MailInv, Response
<1>1. \E w \in Proposed, f \in Fresh : m = Response(w, f, ResponseKey(w))
  <2>1. CASE m \in mail
    BY <2>1 DEF MailInv
  <2>2. CASE Respond /\ m \notin mail
    <3>1. handler # None /\ m = Response(handler.id, handler.secret, handler.response_sym_key)
      BY <2>2 DEF Respond, SealedWith
    <3>2. handler.secret \in Fresh
      BY <3>1, PushKeyType DEF Job
    <3> QED
      BY <3>1, <3>2 DEF HandlerInv
  <2>3. mail' = mail \/ Respond
    BY DEF Next, Service, Http, Environment, Panic, Accept, Register, Settle, Fail,
           SubscribeTopic, EndRequest, Propose, Restart, Tick, serverVars, vars
  <2> QED
    BY <2>1, <2>2, <2>3
<1> QED
  BY <1>1, WalletsKeep

(* The key a wallet will derive from the answer is the one it was          *)
(* registered under: both ends of the exchange compute the same set.       *)
LEMMA SamePushKey ==
  ASSUME HandlerInv, handler # None
  PROVE  Dh(PublicOf[handler.secret], handler.id) = PushKey
BY DEF HandlerInv, PushKey, Dh

LEMMA StillAtWork ==
  ASSUME TypeOK, handler # None,
         NEW stage \in Stages, handler' = [handler EXCEPT !.stage = stage]
  PROVE  handler' # None /\ handler'.client = handler.client /\ handler'.stage = stage
<1>1. handler \in Job
  BY PushKeyType
<1>2. handler' \in Job /\ handler'.client = handler.client /\ handler'.stage = stage
  BY <1>1 DEF Job
<1> QED
  BY <1>2, NoneAssumption

LEMMA LatestNext ==
  TypeOK /\ HandlerInv /\ LastResponseCurrent /\ [Next]_vars => LastResponseCurrent'
<1> SUFFICES ASSUME TypeOK, HandlerInv, LastResponseCurrent, [Next]_vars,
                    NEW c \in Clients, latest'[c] \notin {None, clients'[c]}
             PROVE  c \in cut' \cup LeftUntold'
  BY DEF LastResponseCurrent
<1>1. c \in cut \cup LeftUntold \/ latest[c] \in {None, clients[c]}
  BY DEF LastResponseCurrent
<1>2. DOMAIN clients = Clients /\ DOMAIN latest = Clients
  BY DEF TypeOK
<1>3. ASSUME NEW msg \in Arrivals, NEW f \in Fresh, Accept(msg, f)
      PROVE  c \in cut' \cup LeftUntold'
  <2>1. handler = None /\ clients' = clients /\ latest' = latest /\ cut' = cut
    BY <1>3 DEF Accept
  <2> QED
    BY <1>1, <2>1 DEF LeftUntold
<1>4. CASE Register
  <2>1. /\ handler # None /\ handler.stage = "register"
        /\ clients' = [clients EXCEPT ![handler.client] = PushKey]
        /\ handler' = [handler EXCEPT !.stage = "settle"]
        /\ latest' = latest /\ cut' = cut
    BY <1>4 DEF Register, Advance
  <2>2. LeftUntold' = {handler.client}
    BY <2>1, StillAtWork DEF LeftUntold, Stages
  <2>3. CASE c = handler.client
    BY <2>2, <2>3
  <2>4. CASE c # handler.client
    <3>1. clients'[c] = clients[c] /\ LeftUntold = {}
      BY <1>2, <2>1, <2>4 DEF LeftUntold
    <3> QED
      BY <1>1, <2>1, <3>1
  <2> QED
    BY <2>3, <2>4
<1>5. CASE Settle
  <2>1. /\ handler # None /\ handler.stage = "settle"
        /\ handler' = [handler EXCEPT !.stage = "respond"]
        /\ clients' = clients /\ latest' = latest /\ cut' = cut
    BY <1>5 DEF Settle, Advance
  <2>2. LeftUntold' = LeftUntold
    BY <2>1, StillAtWork DEF LeftUntold, Stages
  <2> QED
    BY <1>1, <2>1, <2>2
<1>6. CASE Respond
  <2>1. /\ handler # None /\ handler.stage = "respond"
        /\ latest' = [latest EXCEPT ![handler.client] = Dh(PublicOf[handler.secret], handler.id)]
        /\ cut' = cut \ {handler.client}
        /\ clients' = clients
    BY <1>6 DEF Respond
  <2>2. clients[handler.client] = PushKey
    BY <2>1 DEF HandlerInv
  <2>3. c # handler.client
    BY <1>2, <2>1, <2>2, SamePushKey
  <2>4. latest'[c] = latest[c]
    BY <1>2, <2>1, <2>3
  <2>5. c \notin LeftUntold
    BY <2>3 DEF LeftUntold
  <2> QED
    BY <1>1, <2>1, <2>3, <2>4, <2>5
<1>7. CASE Fail
  <2>1. /\ handler # None /\ latest' = latest
        /\ \/ clients' = clients /\ cut' = cut \cup LeftUntold
           \/ /\ handler.stage = "register"
              /\ clients' = [clients EXCEPT ![handler.client] = PushKey]
              /\ cut' = cut \cup {handler.client}
    BY <1>7 DEF Fail
  <2>2. CASE clients' = clients /\ cut' = cut \cup LeftUntold
    BY <1>1, <2>1, <2>2
  <2>3. CASE /\ handler.stage = "register"
             /\ clients' = [clients EXCEPT ![handler.client] = PushKey]
             /\ cut' = cut \cup {handler.client}
    <3>1. CASE c = handler.client
      BY <2>3, <3>1
    <3>2. CASE c # handler.client
      <4>1. clients'[c] = clients[c] /\ LeftUntold = {}
        BY <1>2, <2>3, <3>2 DEF LeftUntold
      <4> QED
        BY <1>1, <2>1, <2>3, <4>1
    <3> QED
      BY <3>1, <3>2
  <2> QED
    BY <2>1, <2>2, <2>3
<1>8. CASE Restart
  BY <1>1, <1>8 DEF Restart
<1>9. ASSUME UNCHANGED <<clients, handler, latest, cut>>
      PROVE  c \in cut' \cup LeftUntold'
  BY <1>1, <1>9 DEF LeftUntold
<1>10. \/ \E msg \in Arrivals, f \in Fresh : Accept(msg, f)
       \/ Register \/ Settle \/ Respond \/ Fail \/ Restart
       \/ UNCHANGED <<clients, handler, latest, cut>>
  BY DEF Next, Service, Http, Environment, Panic, SubscribeTopic, EndRequest, Propose, Tick,
         serverVars, vars
<1> QED
  BY <1>3, <1>4, <1>5, <1>6, <1>7, <1>8, <1>9, <1>10

-----------------------------------------------------------------------------
(* The strengthened invariant holds of every behaviour: keys come from     *)
(* secrets (subscribe_topic.rs), and the locals of push_subscribe, the     *)
(* clients and the responses all stem from one whole proposal each.        *)
THEOREM Invariance == Spec => []IInv
<1>1. Init => IInv
  <2>1. Init => TypeOK /\ KeysInv
    BY TypeOKInit, KeysInit
  <2>2. Init => HandlerInv /\ MailInv
    BY DEF Init, HandlerInv, MailInv
  <2>3. Init => ClientsConsented /\ LastResponseCurrent
    BY DEF Init, ClientsConsented, LastResponseCurrent
  <2> QED
    BY <2>1, <2>2, <2>3 DEF IInv
<1>2. IInv /\ [Next]_vars => IInv'
  BY TypeOKNext, KeysNext, HandlerNext, ClientsNext, MailNext, LatestNext DEF IInv
<1> QED
  BY <1>1, <1>2, PTL DEF Spec

(* The state has the types of Handshake.TypeOK: in particular a token that *)
(* from_jwt takes names an account, and every response is one.             *)
THEOREM TypeCorrect == Spec => []TypeOK
BY Invariance, PTL DEF IInv

(* ClientsConsented: no delivery by the relay, cut short or on another     *)
(* topic, makes push_subscribe register a client nobody asked for.         *)
THEOREM OnlyConsenting == Spec => []ClientsConsented
BY Invariance, PTL DEF IInv

(* LastResponseCurrent: register_client comes before the response, and     *)
(* both ends derive the same key.                                          *)
THEOREM ResponsesCurrent == Spec => []LastResponseCurrent
BY Invariance, PTL DEF IInv

(* ClaimsSigned: from_jwt's two splits agree on what was signed, for a     *)
(* token of any number of segments.                                        *)
THEOREM SignaturesCover == Spec => []ClaimsSigned
<1>1. IInv => ClaimsSigned
  <2> SUFFICES ASSUME IInv, handler # None
               PROVE  LET jwt == handler.token IN
                      \E i \in 3..Len(jwt) :
                        /\ jwt[i].kind = "signature"
                        /\ jwt[i].by = ClaimsOf(jwt).iss
                        /\ jwt[i].over = SubSeq(jwt, 1, i - 1)
                        /\ jwt[i].over[2] = ClaimsOf(jwt)
    BY DEF ClaimsSigned
  <2> DEFINE jwt == handler.token
             n == Len(jwt)
             Segments == {jwt[i] : i \in DOMAIN jwt}
  <2>1. /\ n >= 2
        /\ ClaimsOf(jwt).kind = "claims"
        /\ SignatureOf(jwt) = Sign(ClaimsOf(jwt).iss, MessageOf(jwt))
    BY DEF IInv, HandlerInv, Signed
  <2>2. jwt \in Tokens
    BY PushKeyType DEF IInv, Job
  <2>3. jwt \in Seq(Segments)
    BY <2>2, HandshakeAssumption
  <2> HIDE DEF jwt, Segments
  <2>4. n \in Nat
    BY <2>3, LenProperties
  <2> HIDE DEF n
  <2>5. /\ jwt[n].kind = "signature"
        /\ jwt[n].by = ClaimsOf(jwt).iss
        /\ jwt[n].over = SubSeq(jwt, 1, n - 1)
    BY <2>1 DEF SignatureOf, MessageOf, Sign, n
  <2>6. n # 2
    BY <2>1, <2>5 DEF ClaimsOf
  <2>7. n \in 3..n
    BY <2>1, <2>4, <2>6
  <2>8. SubSeq(jwt, 1, n - 1)[2] = jwt[2]
    <3> DEFINE last == n - 1
    <3>1. \A i \in 1..last : jwt[i] \in Segments
      BY <2>3, <2>4, ElementOfSeq DEF n
    <3>2. last \in Int /\ 2 \in 1..last - 1 + 1
      BY <2>4, <2>7
    <3> HIDE DEF last
    <3>3. SubSeq(jwt, 1, last)[2] = jwt[2]
      BY <3>1, <3>2, SubSeqProperties
    <3> QED
      BY <3>3 DEF last
  <2> QED
    BY <2>5, <2>7, <2>8 DEF ClaimsOf, jwt, n
<1> QED
  BY <1>1, Invariance, PTL

(* OnlyItsWallet: two wallets never share a response key, and a box opens  *)
(* with the key it was sealed with only.                                   *)
THEOREM ResponsesPrivate == Spec => []OnlyItsWallet
<1>1. IInv => OnlyItsWallet
  <2> SUFFICES ASSUME IInv, NEW m \in mail, NEW w \in Proposed
               PROVE  LET e == FromBytes0(m.bytes) IN
                      /\ Plain(e).id \in Proposed
                      /\ Plain(e).id = w <=> m.topic = ResponseKey(w)
                      /\ Plain(e).id = w <=> Opens(e, ResponseKey(w))
    BY DEF OnlyItsWallet
  <2> DEFINE e == FromBytes0(m.bytes)
  <2>1. PICK v \in Proposed, f \in Fresh : m = Response(v, f, ResponseKey(v))
    BY DEF IInv, MailInv
  <2> DEFINE plain == [id |-> v, publicKey |-> PublicOf[f]]
             box == [key |-> ResponseKey(v), iv |-> Iv, plain |-> plain]
  <2>2. e = Envelope0(ResponseKey(v), Iv, plain)
    BY <2>1, ResponseReads
  <2>3. e = [envelope_type |-> 0, iv |-> Iv, sealbox |-> <<box>>]
    BY <2>2 DEF Envelope0, Seal
  <2> HIDE DEF e
  <2>4. Plain(e).id = v /\ m.topic = ResponseKey(v)
    BY <2>1, <2>3 DEF Plain, Response
  <2>5. Opens(e, ResponseKey(w)) <=> ResponseKey(v) = ResponseKey(w)
    BY <2>3 DEF Opens
  <2>6. ResponseKey(v) = ResponseKey(w) => v = w
    BY ProposedType, SharedOnce DEF IInv, ResponseKey
  <2> QED
    BY <2>4, <2>5, <2>6 DEF e
<1> QED
  BY <1>1, Invariance, PTL

(* AnsweredKeyStands: the pair is a function of project and secret, so     *)
(* that repeated, concurrent and interrupted calls store the same one.     *)
THEOREM AnswersStand == Spec => []AnsweredKeyStands
<1>1. IInv => AnsweredKeyStands
  <2> SUFFICES ASSUME IInv, NEW a \in answered, \A s, t \in used[a[1]] : s = t
               PROVE  project_data[a[1]] = a[2]
    BY DEF AnsweredKeyStands
  <2>1. a[1] \in Projects
    BY DEF IInv, TypeOK
  <2>2. PICK s \in used[a[1]] : a[2] = KeyOf[<<a[1], s>>]
    BY DEF IInv, KeysInv, Recorded
  <2>3. Recorded(<<a[1], project_data[a[1]]>>)
    BY <2>1, <2>2 DEF IInv, KeysInv
  <2>4. PICK t \in used[a[1]] : project_data[a[1]] = KeyOf[<<a[1], t>>]
    BY <2>3 DEF Recorded
  <2> QED
    BY <2>2, <2>4
<1> QED
  BY <1>1, Invariance, PTL
=============================================================================
