----------------------------- MODULE ProjectAuth -----------------------------
(***************************************************************************)
(* How a request proves that it speaks for a project: AuthedProjectId      *)
(* takes the project id from the path and the secret from the              *)
(* Authorization header (extractors.rs) and asks Registry::is_authenticated*)
(* (registry.rs), which keeps the registry's verdicts, good and bad, in    *)
(* Redis for CACHE_TTL (storage/redis/mod.rs).                             *)
(*                                                                         *)
(* Redis may be written at one address and read at another: the reader is  *)
(* then a replica, which lags.  A server without a cache behaves as one    *)
(* whose entries are forgotten at once.  Secrets are made valid and        *)
(* invalid behind the server's back, and requests for one pair run         *)
(* concurrently.  A request without a project id or a bearer token is      *)
(* refused before it gets here.                                            *)
(*                                                                         *)
(* A verdict is kept under a digest of the id followed by the secret,      *)
(* without a mark between them, and the id is whatever the path holds: two *)
(* pairs that read the same when written out share an entry.               *)
(***************************************************************************)
EXTENDS Naturals, Sequences

CONSTANTS
  Chars,
  Pairs,     \* of a project id and a secret, which are texts
  Requests,
  None,
  TTL,       \* CACHE_TTL, in ticks
  MaxDelay   \* bound: ticks from the registry's verdict to the end of its request

ASSUME ProjectAuthAssumption ==
  /\ TTL \in Nat \ {0}
  /\ MaxDelay \in Nat
  /\ Pairs \subseteq Seq(Chars) \X Seq(Chars)
  /\ None \notin Pairs
  /\ None \notin [verdict : BOOLEAN, left : 1..TTL]

\* The key of a verdict: the digest of id and secret, hashed one after the other, which
\* stands for their text.
Text(x) == x[1] \o x[2]
Hash(x) == Text(x)

Digests == {Hash(x) : x \in Pairs}
Entry == [verdict : BOOLEAN, left : 1..TTL]
Store == [Digests -> Entry \cup {None}]

Bound == TTL + MaxDelay
Ages == 0..(Bound + 1)  \* the last one stands for all that are longer

VARIABLES
  valid,    \* pairs the registry accepts
  cache,    \* Redis, where it is written
  replica,  \* Redis, where it is read
  pc,       \* stage of each request, or its answer
  pair,     \* its project id and secret
  verdict,  \* what the registry told it
  delay,    \* ticks since it did
  \* History, read by no guard:
  since     \* ticks since the registry would have given this verdict on a pair

requestVars == <<pc, pair, verdict, delay>>
vars == <<valid, cache, replica, requestVars, since>>

Busy == {"get", "ask", "set"}
Stages == Busy \cup {"idle", "authed", "unauthorized", "bad_request"}

TypeOK ==
  /\ valid \subseteq Pairs
  /\ cache \in Store
  /\ replica \in Store
  /\ pc \in [Requests -> Stages]
  /\ pair \in [Requests -> Pairs \cup {None}]
  /\ \A r \in Requests : pc[r] \in Busy => pair[r] \in Pairs
  /\ verdict \in [Requests -> BOOLEAN]
  /\ delay \in [Requests -> 0..MaxDelay]
  /\ since \in [Pairs -> [BOOLEAN -> Ages]]

Holds(x, v) == (x \in valid) = v

Init ==
  /\ valid \in SUBSET Pairs
  /\ cache = [h \in Digests |-> None]
  /\ replica = [h \in Digests |-> None]
  /\ pc = [r \in Requests |-> "idle"]
  /\ pair = [r \in Requests |-> None]
  /\ verdict = [r \in Requests |-> FALSE]
  /\ delay = [r \in Requests |-> 0]
  /\ since = [x \in Pairs |-> [v \in BOOLEAN |-> IF Holds(x, v) THEN 0 ELSE Bound + 1]]

-----------------------------------------------------------------------------
\* A verdict is kept for CACHE_TTL, and in the broken variant for longer.
KeptTooLong(v) == [verdict |-> v, left |-> TTL + 1]
Kept(v) == [verdict |-> v, left |-> TTL]

\* The request ends, with an answer or without.
End(r, s) ==
  /\ pc' = [pc EXCEPT ![r] = s]
  /\ pair' = [pair EXCEPT ![r] = None]
  /\ verdict' = [verdict EXCEPT ![r] = FALSE]
  /\ delay' = [delay EXCEPT ![r] = 0]

Respond(r, v) == End(r, IF v THEN "authed" ELSE "unauthorized")

Request(r, x) ==
  /\ pc[r] \notin Busy
  /\ pc' = [pc EXCEPT ![r] = "get"]
  /\ pair' = [pair EXCEPT ![r] = x]
  /\ UNCHANGED <<valid, cache, replica, verdict, delay, since>>

\* What a request that ends early may leave in the cache.
MaySet(r) ==
  \/ cache' = cache
  \/ pc[r] = "set" /\ cache' = [cache EXCEPT ![Hash(pair[r])] = Kept(verdict[r])]

\* Broken variant: an entry that is read is kept anew.
CacheHitRenews(r) ==
  /\ pc[r] = "get"
  /\ \E e \in {cache[Hash(pair[r])], replica[Hash(pair[r])]} :
       /\ e # None
       /\ Respond(r, e.verdict)
       /\ cache' = [cache EXCEPT ![Hash(pair[r])] = Kept(e.verdict)]
  /\ UNCHANGED <<valid, replica, since>>

\* The cache is read at either address, as configured; reading renews nothing.
CacheHit(r) ==
  /\ pc[r] = "get"
  /\ \E e \in {cache[Hash(pair[r])], replica[Hash(pair[r])]} :
       /\ e # None
       /\ Respond(r, e.verdict)
  /\ UNCHANGED <<valid, cache, replica, since>>

CacheMiss(r) ==
  /\ pc[r] = "get"
  /\ None \in {cache[Hash(pair[r])], replica[Hash(pair[r])]}
  /\ pc' = [pc EXCEPT ![r] = "ask"]
  /\ UNCHANGED <<valid, cache, replica, pair, verdict, delay, since>>

\* The registry's verdict; it reaches the cache, and the caller, later.
Ask(r) ==
  /\ pc[r] = "ask"
  /\ verdict' = [verdict EXCEPT ![r] = pair[r] \in valid]
  /\ pc' = [pc EXCEPT ![r] = "set"]
  /\ UNCHANGED <<valid, cache, replica, pair, delay, since>>

\* Whatever verdict another request has set meanwhile is overwritten.
Set(r) ==
  /\ pc[r] = "set"
  /\ cache' = [cache EXCEPT ![Hash(pair[r])] = Kept(verdict[r])]
  /\ Respond(r, verdict[r])
  /\ UNCHANGED <<valid, replica, since>>

\* An error of Redis or of the registry, also one after the verdict is known; and a
\* write that fails may have been done.
Fail(r) ==
  /\ pc[r] \in Busy
  /\ MaySet(r)
  /\ End(r, "bad_request")
  /\ UNCHANGED <<valid, replica, since>>

\* The caller hangs up.
HangUp(r) ==
  /\ pc[r] \in Busy
  /\ MaySet(r)
  /\ End(r, "idle")
  /\ UNCHANGED <<valid, replica, since>>

-----------------------------------------------------------------------------
(* The registry, Redis and the clock.                                      *)

\* A project gets, or loses, a secret.
Rotate(x) ==
  /\ valid' = (valid \cup {x}) \ (valid \cap {x})
  /\ since' = [since EXCEPT ![x] = [v \in BOOLEAN |-> IF Holds(x, v) THEN since[x][v] ELSE 0]]
  /\ UNCHANGED <<cache, replica, requestVars>>

Replicate(h) ==
  /\ replica' = [replica EXCEPT ![h] = cache[h]]
  /\ UNCHANGED <<valid, cache, requestVars, since>>

Forget(h) ==
  /\ cache' = [cache EXCEPT ![h] = None]
  /\ UNCHANGED <<valid, replica, requestVars, since>>

\* An entry of TTL ticks is gone after TTL ticks.
Lasts(e) == e # None /\ e.left > 1

Aged(store) ==
  [h \in Digests |-> IF Lasts(store[h]) THEN [store[h] EXCEPT !.left = @ - 1] ELSE None]

Older(x, v) ==
  IF Holds(x, v) THEN 0 ELSE IF since[x][v] = Bound + 1 THEN Bound + 1 ELSE since[x][v] + 1

Tick ==
  /\ \A r \in Requests : pc[r] = "set" => delay[r] < MaxDelay
  /\ cache' = Aged(cache)
  /\ replica' = Aged(replica)
  /\ delay' = [r \in Requests |-> IF pc[r] = "set" THEN delay[r] + 1 ELSE delay[r]]
  /\ since' = [x \in Pairs |-> [v \in BOOLEAN |-> Older(x, v)]]
  /\ UNCHANGED <<valid, pc, pair, verdict>>

-----------------------------------------------------------------------------
IsAuthenticated(r) ==
  \/ CacheHit(r) \/ CacheMiss(r) \/ Ask(r) \/ Set(r) \/ Fail(r)

Caller(r) ==
  \/ \E x \in Pairs : Request(r, x)
  \/ HangUp(r)

Surroundings ==
  \/ \E x \in Pairs : Rotate(x)
  \/ \E h \in Digests : Replicate(h) \/ Forget(h)
  \/ Tick

Next ==
  \/ \E r \in Requests : IsAuthenticated(r) \/ Caller(r)
  \/ Surroundings

Spec == Init /\ [][Next]_vars

-----------------------------------------------------------------------------
Verdicts(s) == {v \in BOOLEAN : s = IF v THEN "authed" ELSE "unauthorized"}

(* Whoever is let in, or turned away, is so on a verdict that the registry *)
(* would have given no longer ago than the lifetime of a cache entry and   *)
(* the delay of the request that fetched it, however requests overlap,     *)
(* however far the replica lags and whatever expires or is rotated         *)
(* meanwhile.  It is a verdict on their id and secret or on another pair   *)
(* of the same text, which is all that the digest tells apart              *)
(* (registry.rs).                                                          *)
VerdictFresh ==
  [][\A r \in Requests :
       pc[r] \in Busy =>
         \A v \in Verdicts(pc'[r]) :
           \E x \in Pairs : Text(x) = Text(pair[r]) /\ since[x][v] <= Bound]_vars
=============================================================================
