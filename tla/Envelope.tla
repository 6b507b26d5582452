------------------------------ MODULE Envelope ------------------------------
(***************************************************************************)
(* The two envelopes of types.rs as sequences of bytes.  Type 0 is for     *)
(* peers that share a key already; type 1 carries the public key its       *)
(* reader needs to derive it.                                              *)
(*                                                                         *)
(* A sealed box is one symbol that remembers what it was sealed with: it   *)
(* opens with that key and nonce and no other.  from_bytes looks at        *)
(* positions only, never at the type, and slices without a check: bytes    *)
(* that end before the box begins are a panic.                             *)
(***************************************************************************)
EXTENDS Naturals, Sequences

CONSTANTS
  IvLen,     \* bytes of a nonce
  PubkeyLen  \* bytes of a public key

ASSUME EnvelopeAssumption ==
  /\ IvLen \in Nat
  /\ PubkeyLen \in Nat

Seal(key, iv, plain) == <<[key |-> key, iv |-> iv, plain |-> plain]>>

Envelope0(key, iv, plain) ==
  [envelope_type |-> 0, iv |-> iv, sealbox |-> Seal(key, iv, plain)]

Envelope1(key, iv, plain, pubkey) ==
  [envelope_type |-> 1, pubkey |-> pubkey, iv |-> iv, sealbox |-> Seal(key, iv, plain)]

ToBytes0(e) == <<e.envelope_type>> \o e.iv \o e.sealbox
ToBytes1(e) == <<e.envelope_type>> \o e.pubkey \o e.iv \o e.sealbox

HeaderLen0 == 1 + IvLen
HeaderLen1 == 1 + PubkeyLen + IvLen

Panics0(bytes) == Len(bytes) < HeaderLen0
Panics1(bytes) == Len(bytes) < HeaderLen1

FromBytes0(bytes) ==
  [envelope_type |-> bytes[1],
   iv            |-> SubSeq(bytes, 2, HeaderLen0),
   sealbox       |-> SubSeq(bytes, HeaderLen0 + 1, Len(bytes))]

FromBytes1(bytes) ==
  [envelope_type |-> bytes[1],
   pubkey        |-> SubSeq(bytes, 2, 1 + PubkeyLen),
   iv            |-> SubSeq(bytes, 2 + PubkeyLen, HeaderLen1),
   sealbox       |-> SubSeq(bytes, HeaderLen1 + 1, Len(bytes))]

\* Broken variant: a cipher that does not authenticate.
OpensUnchecked(e, key) == Len(e.sealbox) = 1

\* decrypt_message: an incomplete box opens with nothing.
Opens(e, key) ==
  /\ Len(e.sealbox) = 1
  /\ e.sealbox[1].key = key
  /\ e.sealbox[1].iv = e.iv

Plain(e) == e.sealbox[1].plain
=============================================================================
