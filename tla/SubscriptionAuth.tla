-------------------------- MODULE SubscriptionAuth --------------------------
(***************************************************************************)
(* SubscriptionAuth::from_jwt (auth.rs): when the server takes a wallet's  *)
(* word for a subscription.                                                *)
(*                                                                         *)
(* A token is the sequence of its segments, split at the dots.  Header and *)
(* claims are the first two of them, the signature is the last, and what   *)
(* it must sign is everything before it: the two ends are found by two     *)
(* different splits of the same string.                                    *)
(*                                                                         *)
(* A segment records what it decodes to, and whether its text is "plain":  *)
(* free of the two characters in which base64url and base64 differ.        *)
(* Header and claims are decoded as base64, signatures as base64url.       *)
(***************************************************************************)
EXTENDS Naturals, Sequences

CONSTANTS
  Identities,      \* keys a well-formed did:key names
  MillisPerSecond

Sign(key, message) == [kind |-> "signature", by |-> key, over |-> message]

\* splitn(3, '.') and rsplitn(2, '.')
HeaderOf(jwt) == jwt[1]
ClaimsOf(jwt) == jwt[2]
SignatureOf(jwt) == jwt[Len(jwt)]
MessageOf(jwt) == SubSeq(jwt, 1, Len(jwt) - 1)

Decodes(segment, kind) == segment.kind = kind /\ segment.plain

\* exp and the clock are seconds; iat is compared with the clock in milliseconds.
Expired(claims, now) == claims.exp < now
NotYetValid(claims, now) == claims.iat > now * MillisPerSecond

\* Broken variant: any signature of the issuer's will do.
SignedAnything(jwt) ==
  LET s == SignatureOf(jwt) IN
  /\ s.kind = "signature"
  /\ s.by = ClaimsOf(jwt).iss

Signed(jwt) == SignatureOf(jwt) = Sign(ClaimsOf(jwt).iss, MessageOf(jwt))

FromJwt(jwt, now) ==
  /\ Len(jwt) >= 2
  /\ Decodes(HeaderOf(jwt), "header")
  /\ HeaderOf(jwt).alg = "EdDSA"
  /\ Decodes(ClaimsOf(jwt), "claims")
  /\ ~Expired(ClaimsOf(jwt), now)
  /\ ~NotYetValid(ClaimsOf(jwt), now)
  /\ ClaimsOf(jwt).act = "push_subscription"
  /\ ClaimsOf(jwt).iss \in Identities
  /\ Signed(jwt)
=============================================================================
