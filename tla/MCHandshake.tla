----------------------------- MODULE MCHandshake -----------------------------
(***************************************************************************)
(* Small instances of Handshake: bytes are single symbols, and the tokens  *)
(* are those of a genuine wallet and strings that only look like them.     *)
(***************************************************************************)
EXTENDS Handshake, TLC

CONSTANTS p1, p2, s1, s2, s3, k1, k2, k3, w1, w2, f1, f2, r1, r2, a1, a2, id1, id2, iv

MCSecretsOf == p1 :> {s1, s2} @@ p2 :> {s3}
MCKeyOf == <<p1, s1>> :> k1 @@ <<p1, s2>> :> k2 @@ <<p2, s3>> :> k3
MCPublicOf == [x \in {k1, k2, k3, w1, w2, f1, f2} |-> <<x>>]
MCBytes == {k1, k2, k3, w1, w2, f1, f2, iv}
MCIv == <<iv>>

Header == [kind |-> "header", alg |-> "EdDSA", plain |-> TRUE]

Claim(iss, sub, iat, exp) ==
  [kind |-> "claims", iss |-> iss, sub |-> sub, iat |-> iat, exp |-> exp,
   act |-> "push_subscription", plain |-> TRUE]

Signed3(claims) == <<Header, claims, Sign(claims.iss, <<Header, claims>>)>>

Good == Claim(id1, a1, 1, 2)
Late == Claim(id1, a1, 1, 1)
Early == Claim(id1, a1, 3, 3)

GoodToken == Signed3(Good)

\* Genuine, but its base64url text is not base64.
Dashed == Signed3([Good EXCEPT !.plain = FALSE])

\* No signature, another's claims under it, one segment too many.
Unsigned == <<Header, Good>>
Swapped == <<Header, Claim(id1, a2, 1, 2), Sign(id1, <<Header, Good>>)>>
Longer == <<Header, Good, Header, Sign(id1, <<Header, Good, Header>>)>>

MCTokens == {GoodToken, Signed3(Late), Swapped, Longer, Unsigned, Dashed}
MCFutureTokens == {GoodToken, Signed3(Early)}

MCSymmetry == Permutations({w1, w2}) \cup Permutations({f1, f2})
=============================================================================
