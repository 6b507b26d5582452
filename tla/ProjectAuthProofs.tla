-------------------------- MODULE ProjectAuthProofs --------------------------
(***************************************************************************)
(* Proofs about ProjectAuth: its type invariant and the age of a verdict,  *)
(* for any pairs of ids and secrets, any requests and any lifetime.      *)
(***************************************************************************)
EXTENDS ProjectAuth, TLAPS

\* For some pair of its text, the age of an entry's verdict and the time the entry has
\* left make up no more than the bound.
Backed(h, e) == \E x \in Pairs : Hash(x) = h /\ since[x][e.verdict] + e.left <= Bound
Aging(store) == \A h \in Digests : store[h] # None => Backed(h, store[h])

\* A verdict on its way to the cache is no older than its request has kept it.
Carried ==
  \A r \in Requests : pc[r] = "set" => since[pair[r]][verdict[r]] <= delay[r]

\* The verdict the registry would give is of this moment.
Current == \A x \in Pairs, v \in BOOLEAN : Holds(x, v) => since[x][v] = 0

AuthInv == TypeOK /\ Aging(cache) /\ Aging(replica) /\ Carried /\ Current

-----------------------------------------------------------------------------
\* What is written to the cache fits it: Kept, for a verdict on its way.
LEMMA KeptType == \A v \in BOOLEAN : Kept(v) \in Entry /\ Kept(v).verdict = v /\ Kept(v).left = TTL
BY ProjectAuthAssumption DEF Kept, Entry

\* A tick of the clock leaves a store a store (set_ex in storage/redis/mod.rs).
LEMMA AgedType ==
  ASSUME NEW store \in Store
  PROVE  Aged(store) \in Store
<1>1. ASSUME NEW h \in Digests, Lasts(store[h])
      PROVE  [store[h] EXCEPT !.left = @ - 1] \in Entry
  BY <1>1, ProjectAuthAssumption DEF Store, Entry, Lasts
<1>. QED
  BY <1>1 DEF Aged, Store

\* A tick makes no age more than one tick longer.
LEMMA OlderType ==
  ASSUME TypeOK, NEW x \in Pairs, NEW v \in BOOLEAN
  PROVE  Older(x, v) \in Ages /\ Older(x, v) <= since[x][v] + 1
<1>1. since[x][v] \in Ages /\ Bound \in Nat
  BY ProjectAuthAssumption DEF TypeOK, Bound
<1>. QED
  BY <1>1 DEF Older, Ages

-----------------------------------------------------------------------------
\* The end of a request is well typed, whatever its answer.
LEMMA EndType ==
  ASSUME TypeOK, NEW r \in Requests, NEW s \in Stages \ Busy, End(r, s)
  PROVE  /\ pc' \in [Requests -> Stages]
         /\ pair' \in [Requests -> Pairs \cup {None}]
         /\ \A q \in Requests : pc'[q] \in Busy => pair'[q] \in Pairs
         /\ verdict' \in [Requests -> BOOLEAN]
         /\ delay' \in [Requests -> 0..MaxDelay]
<1>1. 0 \in 0..MaxDelay
  BY ProjectAuthAssumption
<1>2. \A q \in Requests : pc'[q] \in Busy => q # r /\ pc[q] \in Busy /\ pair'[q] = pair[q]
  BY DEF TypeOK, End
<1>. QED
  BY <1>1, <1>2 DEF TypeOK, End

\* A verdict that may be written is a request's own, and leaves a store.
LEMMA WriteType ==
  ASSUME TypeOK, NEW x \in Pairs, NEW v \in BOOLEAN,
         cache' = [cache EXCEPT ![Hash(x)] = Kept(v)]
  PROVE  cache' \in Store
BY KeptType DEF TypeOK, Store

LEMMA RequestType ==
  ASSUME TypeOK, NEW r \in Requests, NEW x \in Pairs, Request(r, x)
  PROVE  TypeOK'
BY DEF TypeOK, Request, Stages, Busy

LEMMA StepType ==
  ASSUME TypeOK, NEW r \in Requests, IsAuthenticated(r) \/ HangUp(r)
  PROVE  TypeOK'
<1>1. CASE CacheHit(r)
  <2>1. PICK e \in {cache[Hash(pair[r])], replica[Hash(pair[r])]} :
          Respond(r, e.verdict)
    BY <1>1 DEF CacheHit
  <2>2. PICK s \in Stages \ Busy : End(r, s)
    BY <2>1 DEF Respond, Stages, Busy
  <2>. QED
    BY <1>1, <2>1, <2>2, EndType DEF CacheHit, TypeOK
<1>2. CASE CacheMiss(r)
  BY <1>2 DEF CacheMiss, TypeOK, Stages, Busy
<1>3. CASE Ask(r)
  <2>1. (pair[r] \in valid) \in BOOLEAN
    OBVIOUS
  <2>. QED
    BY <1>3, <2>1 DEF Ask, TypeOK, Stages, Busy
<1>4. CASE Set(r)
  <2>1. PICK s \in Stages \ Busy : End(r, s)
    BY <1>4 DEF Set, Respond, Stages, Busy
  <2>2. pair[r] \in Pairs /\ verdict[r] \in BOOLEAN
    BY <1>4 DEF Set, TypeOK, Busy
  <2>3. cache' \in Store
    BY <1>4, <2>2, WriteType DEF Set
  <2>. QED
    BY <1>4, <2>1, <2>3, EndType DEF Set, TypeOK
<1>5. CASE Fail(r) \/ HangUp(r)
  <2>1. PICK s \in Stages \ Busy : End(r, s)
    BY <1>5 DEF Fail, HangUp, Stages, Busy
  <2>2. pair[r] \in Pairs /\ verdict[r] \in BOOLEAN
    BY <1>5 DEF Fail, HangUp, TypeOK
  <2>3. cache' \in Store
    BY <1>5, <2>2, WriteType DEF Fail, HangUp, MaySet, TypeOK
  <2>. QED
    BY <1>5, <2>1, <2>3, EndType DEF Fail, HangUp, TypeOK
<1>. QED
  BY <1>1, <1>2, <1>3, <1>4, <1>5 DEF IsAuthenticated

LEMMA SurroundingsType ==
  ASSUME TypeOK, Surroundings
  PROVE  TypeOK'
<1>1. ASSUME NEW x \in Pairs, Rotate(x) PROVE TypeOK'
  <2>1. 0 \in Ages
    BY ProjectAuthAssumption DEF Ages, Bound
  <2>2. [v \in BOOLEAN |-> IF Holds(x, v) THEN since[x][v] ELSE 0] \in [BOOLEAN -> Ages]
    BY <2>1 DEF TypeOK
  <2>. QED
    BY <1>1, <2>2 DEF Rotate, TypeOK, requestVars
<1>2. ASSUME NEW h \in Digests, Replicate(h) \/ Forget(h) PROVE TypeOK'
  BY <1>2 DEF Replicate, Forget, TypeOK, Store, requestVars
<1>3. CASE Tick
  <2>1. cache' \in Store /\ replica' \in Store
    BY <1>3, AgedType DEF Tick, TypeOK
  <2>2. since' \in [Pairs -> [BOOLEAN -> Ages]]
    BY <1>3, OlderType DEF Tick
  <2>3. delay' \in [Requests -> 0..MaxDelay]
    BY <1>3, ProjectAuthAssumption DEF Tick, TypeOK
  <2>. QED
    BY <1>3, <2>1, <2>2, <2>3 DEF Tick, TypeOK
<1>. QED
  BY <1>1, <1>2, <1>3 DEF Surroundings

LEMMA TypeInit == Init => TypeOK
<1>1. 0 \in Ages /\ Bound + 1 \in Ages /\ 0 \in 0..MaxDelay
  BY ProjectAuthAssumption DEF Ages, Bound
<1>. QED
  BY <1>1 DEF Init, TypeOK, Store, Stages, Busy

LEMMA TypeNext == TypeOK /\ [Next]_vars => TypeOK'
<1>. SUFFICES ASSUME TypeOK, [Next]_vars PROVE TypeOK'
  OBVIOUS
<1>1. CASE UNCHANGED vars
  BY <1>1 DEF vars, requestVars, TypeOK
<1>2. CASE Next
  BY <1>2, RequestType, StepType, SurroundingsType DEF Next, Caller
<1>. QED
  BY <1>1, <1>2

(* The stores, requests and verdicts of ProjectAuth are well typed in every *)
(* state; no entry outlives its CACHE_TTL (registry.rs).                    *)
THEOREM TypeCorrect == Spec => []TypeOK
BY TypeInit, TypeNext, PTL DEF Spec

-----------------------------------------------------------------------------
LEMMA BoundType ==
  ASSUME TypeOK
  PROVE  /\ TTL \in Nat /\ MaxDelay \in Nat /\ Bound = TTL + MaxDelay /\ Bound \in Nat
         /\ \A x \in Pairs, v \in BOOLEAN : since[x][v] \in Nat
BY ProjectAuthAssumption DEF TypeOK, Bound, Ages

\* What an entry says, and how long it still may.
LEMMA EntryType ==
  ASSUME NEW store \in Store, NEW h \in Digests, store[h] # None
  PROVE  store[h] \in Entry /\ store[h].verdict \in BOOLEAN /\ store[h].left \in 1..TTL
BY DEF Store, Entry

\* A verdict a request carries may be written: it is no older than MaxDelay.
LEMMA WriteAging ==
  ASSUME TypeOK, Aging(cache), UNCHANGED since, NEW x \in Pairs, NEW v \in BOOLEAN,
         since[x][v] <= MaxDelay,
         cache' = [cache EXCEPT ![Hash(x)] = Kept(v)]
  PROVE  Aging(cache)'
<1>. SUFFICES ASSUME NEW h \in Digests, cache'[h] # None
              PROVE  \E y \in Pairs : Hash(y) = h /\ since[y][cache'[h].verdict] + cache'[h].left <= Bound
  BY DEF Aging, Backed
<1>1. CASE h = Hash(x)
  <2>1. cache'[h] = Kept(v)
    BY <1>1 DEF TypeOK, Store
  <2>2. since[x][cache'[h].verdict] + cache'[h].left <= Bound
    BY <2>1, KeptType, BoundType
  <2>. QED
    BY <1>1, <2>2
<1>2. CASE h # Hash(x)
  <2>1. cache'[h] = cache[h]
    BY <1>2 DEF TypeOK, Store
  <2>. QED
    BY <2>1 DEF Aging, Backed
<1>. QED
  BY <1>1, <1>2

\* What a request that is about to write carries.
LEMMA CarriedFresh ==
  ASSUME AuthInv, NEW r \in Requests, pc[r] = "set"
  PROVE  /\ pair[r] \in Pairs /\ verdict[r] \in BOOLEAN
         /\ since[pair[r]][verdict[r]] <= MaxDelay
<1>1. pair[r] \in Pairs /\ verdict[r] \in BOOLEAN /\ delay[r] \in 0..MaxDelay
  BY DEF AuthInv, TypeOK, Busy
<1>. QED
  BY <1>1, BoundType DEF AuthInv, Carried

\* A request that ends leaves the others what they carry.
LEMMA EndCarried ==
  ASSUME AuthInv, NEW r \in Requests, NEW s \in Stages \ Busy, End(r, s), UNCHANGED since
  PROVE  Carried'
<1>1. \A q \in Requests : pc'[q] = "set" =>
        q # r /\ pc[q] = "set" /\ pair'[q] = pair[q] /\ verdict'[q] = verdict[q] /\ delay'[q] = delay[q]
  BY DEF AuthInv, TypeOK, End, Busy
<1>. QED
  BY <1>1 DEF AuthInv, Carried

\* What ends a request, and what it may have written by then.
LEMMA EndAging ==
  ASSUME AuthInv, NEW r \in Requests, MaySet(r), UNCHANGED since
  PROVE  Aging(cache)'
<1>1. CASE cache' = cache
  BY <1>1 DEF AuthInv, Aging, Backed
<1>2. CASE pc[r] = "set" /\ cache' = [cache EXCEPT ![Hash(pair[r])] = Kept(verdict[r])]
  BY <1>2, CarriedFresh, WriteAging DEF AuthInv
<1>. QED
  BY <1>1, <1>2 DEF MaySet

-----------------------------------------------------------------------------
LEMMA AuthInit == Init => AuthInv
<1>. SUFFICES ASSUME Init PROVE AuthInv
  OBVIOUS
<1>1. Aging(cache) /\ Aging(replica) /\ Carried /\ Current
  BY DEF Init, Aging, Carried, Current, Holds
<1>. QED
  BY <1>1, TypeInit DEF AuthInv

LEMMA RequestAuth ==
  ASSUME AuthInv, NEW r \in Requests, NEW x \in Pairs, Request(r, x)
  PROVE  AuthInv'
<1>1. TypeOK'
  BY RequestType DEF AuthInv
<1>2. Aging(cache)' /\ Aging(replica)' /\ Current'
  BY DEF AuthInv, Aging, Backed, Current, Holds, Request
<1>3. Carried'
  BY DEF AuthInv, TypeOK, Carried, Request
<1>. QED
  BY <1>1, <1>2, <1>3 DEF AuthInv

LEMMA StepAuth ==
  ASSUME AuthInv, NEW r \in Requests, IsAuthenticated(r) \/ HangUp(r)
  PROVE  AuthInv'
<1>1. TypeOK'
  BY StepType DEF AuthInv
<1>2. UNCHANGED <<since, valid, replica>>
  BY DEF IsAuthenticated, CacheHit, CacheMiss, Ask, Set, Fail, HangUp
<1>3. Current' /\ Aging(replica)'
  BY <1>2 DEF AuthInv, Current, Holds, Aging, Backed
<1>4. Aging(cache)'
  <2>1. CASE CacheHit(r) \/ CacheMiss(r) \/ Ask(r)
    BY <1>2, <2>1 DEF CacheHit, CacheMiss, Ask, AuthInv, Aging, Backed
  <2>2. CASE Set(r)
    BY <1>2, <2>2, CarriedFresh, WriteAging DEF Set, AuthInv
  <2>3. CASE Fail(r) \/ HangUp(r)
    BY <1>2, <2>3, EndAging DEF Fail, HangUp
  <2>. QED
    BY <2>1, <2>2, <2>3 DEF IsAuthenticated
<1>5. Carried'
  <2>1. CASE CacheHit(r) \/ Set(r) \/ Fail(r) \/ HangUp(r)
    <3>1. PICK s \in Stages \ Busy : End(r, s)
      BY <2>1 DEF CacheHit, Set, Fail, HangUp, Respond, Stages, Busy
    <3>. QED
      BY <1>2, <3>1, EndCarried
  <2>2. CASE CacheMiss(r)
    BY <2>2 DEF AuthInv, TypeOK, Carried, CacheMiss
  <2>3. CASE Ask(r)
    <3>. SUFFICES ASSUME NEW q \in Requests, pc'[q] = "set"
                  PROVE  since'[pair'[q]][verdict'[q]] <= delay'[q]
      BY DEF Carried
    <3>1. CASE q # r
      BY <2>3, <3>1 DEF Ask, AuthInv, TypeOK, Carried
    <3>2. CASE q = r
      <4>1. pair[r] \in Pairs /\ delay[r] \in Nat
        BY <2>3 DEF Ask, AuthInv, TypeOK, Busy
      <4>. DEFINE w == pair[r] \in valid
      <4>2. w \in BOOLEAN /\ (pair[r] \in valid) = w
        OBVIOUS
      <4>. HIDE DEF w
      <4>3. since[pair[r]][w] = 0
        BY <4>1, <4>2 DEF AuthInv, Current, Holds
      <4>4. verdict'[r] = w /\ delay'[r] = delay[r]
        BY <2>3, <4>2 DEF Ask, AuthInv, TypeOK
      <4>. QED
        BY <2>3, <3>2, <4>1, <4>3, <4>4 DEF Ask
    <3>. QED
      BY <3>1, <3>2
  <2>. QED
    BY <2>1, <2>2, <2>3 DEF IsAuthenticated
<1>. QED
  BY <1>1, <1>3, <1>4, <1>5 DEF AuthInv

LEMMA RotateAuth ==
  ASSUME AuthInv, NEW x \in Pairs, Rotate(x)
  PROVE  AuthInv'
<1>1. TypeOK'
  BY SurroundingsType DEF AuthInv, Surroundings
<1>2. \A y \in Pairs, v \in BOOLEAN :
        since'[y][v] = IF y = x /\ ~Holds(x, v) THEN 0 ELSE since[y][v]
  BY DEF AuthInv, TypeOK, Rotate
<1>3. \A y \in Pairs, v \in BOOLEAN : since'[y][v] <= since[y][v]
  BY <1>2, BoundType DEF AuthInv
<1>4. Current'
  <2>1. \A y \in Pairs, v \in BOOLEAN : y # x => Holds(y, v)' = Holds(y, v)
    BY DEF Holds, Rotate
  <2>2. \A v \in BOOLEAN : Holds(x, v)' => ~Holds(x, v)
    BY DEF Holds, Rotate
  <2>. QED
    BY <1>2, <2>1, <2>2 DEF AuthInv, Current
<1>5. ASSUME NEW store \in Store, Aging(store),
             NEW h \in Digests, store[h] # None
      PROVE  \E y \in Pairs : Hash(y) = h /\ since'[y][store[h].verdict] + store[h].left <= Bound
  <2>1. store[h].verdict \in BOOLEAN /\ store[h].left \in Nat
    BY <1>5, EntryType
  <2>2. PICK y \in Pairs : Hash(y) = h /\ since[y][store[h].verdict] + store[h].left <= Bound
    BY <1>5 DEF Aging, Backed
  <2>3. since'[y][store[h].verdict] \in Nat /\ since[y][store[h].verdict] \in Nat /\ Bound \in Nat
    BY <1>1, <2>1, BoundType DEF AuthInv, TypeOK, Ages
  <2>4. since'[y][store[h].verdict] + store[h].left <= Bound
    BY <1>3, <2>1, <2>2, <2>3
  <2>. QED
    BY <2>2, <2>4
<1>6. Aging(cache)' /\ Aging(replica)'
  BY <1>5 DEF Aging, Backed, AuthInv, TypeOK, Rotate
<1>7. Carried'
  <2>. SUFFICES ASSUME NEW q \in Requests, pc[q] = "set"
                PROVE  since'[pair[q]][verdict[q]] <= delay[q]
    BY DEF Carried, Rotate, requestVars
  <2>1. pair[q] \in Pairs /\ verdict[q] \in BOOLEAN /\ delay[q] \in Nat
    BY CarriedFresh DEF AuthInv, TypeOK
  <2>2. since[pair[q]][verdict[q]] <= delay[q]
    BY DEF AuthInv, Carried
  <2>3. since'[pair[q]][verdict[q]] \in Nat /\ since[pair[q]][verdict[q]] \in Nat
    BY <1>1, <2>1, BoundType DEF AuthInv, TypeOK, Ages
  <2>. QED
    BY <1>3, <2>1, <2>2, <2>3
<1>. QED
  BY <1>1, <1>4, <1>6, <1>7 DEF AuthInv

LEMMA RedisAuth ==
  ASSUME AuthInv, NEW h \in Digests, Replicate(h) \/ Forget(h)
  PROVE  AuthInv'
<1>1. TypeOK'
  BY SurroundingsType DEF AuthInv, Surroundings
<1>2. \A g \in Digests : /\ cache'[g] = cache[g] \/ cache'[g] = None
                         /\ replica'[g] = replica[g] \/ replica'[g] = cache[g]
  BY DEF Replicate, Forget, AuthInv, TypeOK, Store
<1>3. UNCHANGED <<valid, since, requestVars>>
  BY DEF Replicate, Forget
<1>4. Aging(cache)' /\ Aging(replica)'
  BY <1>2, <1>3 DEF AuthInv, Aging, Backed
<1>5. Carried' /\ Current'
  BY <1>3 DEF AuthInv, Carried, Current, Holds, requestVars
<1>. QED
  BY <1>1, <1>4, <1>5 DEF AuthInv

LEMMA TickAuth ==
  ASSUME AuthInv, Tick
  PROVE  AuthInv'
<1>1. TypeOK'
  BY SurroundingsType DEF AuthInv, Surroundings
<1>2. \A y \in Pairs, v \in BOOLEAN :
        /\ since'[y][v] \in Nat /\ since[y][v] \in Nat
        /\ since'[y][v] <= since[y][v] + 1
        /\ Holds(y, v) => since'[y][v] = 0
  <2>1. \A y \in Pairs, v \in BOOLEAN : since'[y][v] = Older(y, v)
    BY DEF Tick
  <2>. QED
    BY <1>1, <2>1, OlderType, BoundType DEF AuthInv, TypeOK, Ages, Older
<1>3. Current'
  BY <1>2 DEF Current, Holds, Tick
<1>4. ASSUME NEW store \in Store, Aging(store),
             NEW h \in Digests, Aged(store)[h] # None
      PROVE  \E y \in Pairs :
               Hash(y) = h /\ since'[y][Aged(store)[h].verdict] + Aged(store)[h].left <= Bound
  <2>1. /\ store[h] # None
        /\ Aged(store)[h] = [store[h] EXCEPT !.left = @ - 1]
    BY <1>4 DEF Aged, Lasts
  <2>2. store[h].verdict \in BOOLEAN /\ store[h].left \in Nat
    BY <1>4, <2>1, EntryType
  <2>3. PICK y \in Pairs : Hash(y) = h /\ since[y][store[h].verdict] + store[h].left <= Bound
    BY <1>4, <2>1 DEF Aging, Backed
  <2>4. Aged(store)[h].verdict = store[h].verdict /\ Aged(store)[h].left = store[h].left - 1
    BY <1>4, <2>1, EntryType DEF Entry
  <2>5. Bound \in Nat
    BY BoundType DEF AuthInv
  <2>6. since'[y][store[h].verdict] + (store[h].left - 1) <= Bound
    BY <1>2, <2>2, <2>3, <2>5
  <2>. QED
    BY <2>3, <2>4, <2>6
<1>5. Aging(cache)' /\ Aging(replica)'
  BY <1>4 DEF Aging, Backed, AuthInv, TypeOK, Tick
<1>6. Carried'
  <2>. SUFFICES ASSUME NEW q \in Requests, pc[q] = "set"
                PROVE  since'[pair[q]][verdict[q]] <= delay'[q]
    BY DEF Carried, Tick
  <2>1. pair[q] \in Pairs /\ verdict[q] \in BOOLEAN /\ delay[q] \in Nat
    BY CarriedFresh DEF AuthInv, TypeOK
  <2>2. since[pair[q]][verdict[q]] <= delay[q]
    BY DEF AuthInv, Carried
  <2>3. delay'[q] = delay[q] + 1
    BY DEF Tick
  <2>. QED
    BY <1>2, <2>1, <2>2, <2>3
<1>. QED
  BY <1>1, <1>3, <1>5, <1>6 DEF AuthInv

LEMMA AuthNext == AuthInv /\ [Next]_vars => AuthInv'
<1>. SUFFICES ASSUME AuthInv, [Next]_vars PROVE AuthInv'
  OBVIOUS
<1>1. CASE UNCHANGED vars
  <2>1. TypeOK'
    BY TypeNext DEF AuthInv
  <2>. QED
    BY <1>1, <2>1 DEF vars, requestVars, AuthInv, Aging, Backed, Carried, Current, Holds
<1>2. CASE Next
  BY <1>2, RequestAuth, StepAuth, RotateAuth, RedisAuth, TickAuth
  DEF Next, Caller, Surroundings
<1>. QED
  BY <1>1, <1>2

-----------------------------------------------------------------------------
\* An answer given now is no older than the bound: it comes from an entry, which some
\* pair of the text accounts for, or from the request's own verdict.
LEMMA FreshStep ==
  ASSUME AuthInv, Next, NEW r \in Requests, pc[r] \in Busy, NEW v \in Verdicts(pc'[r])
  PROVE  \E x \in Pairs : Text(x) = Text(pair[r]) /\ since[x][v] <= Bound
<1>1. pc'[r] \in {"authed", "unauthorized"} /\ pair[r] \in Pairs /\ v \in BOOLEAN
  BY DEF Verdicts, AuthInv, TypeOK
<1>2. pc'[r] # pc[r]
  BY <1>1 DEF Busy
<1>3. CASE CacheHit(r)
  <2>1. PICK e \in {cache[Hash(pair[r])], replica[Hash(pair[r])]} :
          e # None /\ Respond(r, e.verdict)
    BY <1>3 DEF CacheHit
  <2>2. Hash(pair[r]) \in Digests
    BY <1>1 DEF Digests
  <2>3. e.verdict \in BOOLEAN /\ e.left \in Nat
    BY <2>1, <2>2, EntryType DEF AuthInv, TypeOK
  <2>4. PICK x \in Pairs : Hash(x) = Hash(pair[r]) /\ since[x][e.verdict] + e.left <= Bound
    BY <2>1, <2>2 DEF AuthInv, Aging, Backed
  <2>5. pc'[r] = IF e.verdict THEN "authed" ELSE "unauthorized"
    BY <2>1 DEF Respond, End, AuthInv, TypeOK
  <2>6. v = e.verdict
    BY <2>3, <2>5 DEF Verdicts
  <2>. QED
    BY <2>3, <2>4, <2>6, BoundType DEF AuthInv, Hash
<1>4. CASE Set(r)
  <2>1. pc[r] = "set" /\ pc'[r] = IF verdict[r] THEN "authed" ELSE "unauthorized"
    BY <1>4 DEF Set, Respond, End, AuthInv, TypeOK
  <2>2. verdict[r] \in BOOLEAN /\ since[pair[r]][verdict[r]] <= MaxDelay
    BY <2>1, CarriedFresh
  <2>3. v = verdict[r]
    BY <2>1, <2>2 DEF Verdicts
  <2>. QED
    BY <1>1, <2>2, <2>3, BoundType DEF AuthInv
<1>5. CASE CacheMiss(r) \/ Ask(r) \/ Fail(r) \/ HangUp(r)
  BY <1>1, <1>5 DEF CacheMiss, Ask, Fail, HangUp, End, AuthInv, TypeOK
<1>6. ASSUME NEW q \in Requests, IsAuthenticated(q) \/ Caller(q) PROVE q = r
  BY <1>2, <1>6 DEF IsAuthenticated, Caller, Request, CacheHit, CacheMiss, Ask, Set, Fail,
     HangUp, Respond, End, AuthInv, TypeOK
<1>7. ASSUME NEW x \in Pairs, Request(r, x) PROVE FALSE
  BY <1>7 DEF Request
<1>8. ~Surroundings
  BY <1>2 DEF Surroundings, Rotate, Replicate, Forget, Tick, requestVars
<1>. QED
  BY <1>3, <1>4, <1>5, <1>6, <1>7, <1>8 DEF Next, IsAuthenticated, Caller

(* No request is let in, or turned away, on a verdict that the registry    *)
(* would not have given for longer than CACHE_TTL and the delay of the     *)
(* request that fetched it, whatever overlaps with what.  The verdict is   *)
(* on a pair of the same text, which need not be the same pair             *)
(* (registry.rs).                                                          *)
THEOREM VerdictStaysFresh == Spec => VerdictFresh
<1>1. AuthInv /\ [Next]_vars =>
        [\A r \in Requests :
           pc[r] \in Busy =>
             \A v \in Verdicts(pc'[r]) :
               \E x \in Pairs : Text(x) = Text(pair[r]) /\ since[x][v] <= Bound]_vars
  BY FreshStep
<1>. QED
  BY <1>1, AuthInit, AuthNext, PTL DEF Spec, VerdictFresh
=============================================================================
