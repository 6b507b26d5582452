--------------------------- MODULE EnvelopeProofs ---------------------------
(***************************************************************************)
(* What from_bytes recovers from what to_bytes wrote, for envelopes whose  *)
(* parts are sequences over any set of symbols, and for headers of any     *)
(* length.                                                                 *)
(***************************************************************************)
EXTENDS Envelope, SequenceTheorems, TLAPS

USE EnvelopeAssumption

(* The middle of three concatenated sequences is a slice of the whole.     *)
LEMMA Slice ==
  ASSUME NEW S, NEW a \in Seq(S), NEW b \in Seq(S), NEW c \in Seq(S)
  PROVE  SubSeq(a \o b \o c, Len(a) + 1, Len(a) + Len(b)) = b
<1> DEFINE all == a \o b \o c
           lo == Len(a) + 1
           hi == Len(a) + Len(b)
           part == SubSeq(all, lo, hi)
<1>1. /\ Len(a) \in Nat
      /\ Len(b) \in Nat
      /\ Len(c) \in Nat
  BY LenProperties
<1>2. /\ a \o b \in Seq(S)
      /\ Len(a \o b) = Len(a) + Len(b)
      /\ \A i \in 1..Len(a) + Len(b) :
           (a \o b)[i] = IF i <= Len(a) THEN a[i] ELSE b[i - Len(a)]
  BY ConcatProperties
<1>3. /\ all \in Seq(S)
      /\ Len(all) = Len(a) + Len(b) + Len(c)
      /\ \A i \in 1..Len(a) + Len(b) : all[i] = (a \o b)[i]
  <2>1. /\ all \in Seq(S)
        /\ Len(all) = Len(a \o b) + Len(c)
        /\ \A i \in 1..Len(a \o b) + Len(c) :
             all[i] = IF i <= Len(a \o b) THEN (a \o b)[i] ELSE c[i - Len(a \o b)]
    BY <1>2, ConcatProperties
  <2> QED
    BY <2>1, <1>1, <1>2
<1> HIDE DEF all
<1>4. \A i \in lo..hi : all[i] \in S
  BY <1>1, <1>3, ElementOfSeq
<1>5. /\ part \in Seq(S)
      /\ Len(part) = IF lo <= hi THEN hi - lo + 1 ELSE 0
      /\ \A i \in 1..hi - lo + 1 : part[i] = all[lo + i - 1]
  <2>1. lo \in Int /\ hi \in Int
    BY <1>1
  <2> HIDE DEF lo, hi
  <2> QED
    BY <2>1, <1>4, SubSeqProperties
<1>6. Len(part) = Len(b)
  BY <1>1, <1>5
<1>7. \A i \in 1..Len(part) : part[i] = b[i]
  <2> SUFFICES ASSUME NEW i \in 1..Len(b) PROVE part[i] = b[i]
    BY <1>6
  <2>1. part[i] = all[Len(a) + i]
    BY <1>1, <1>5
  <2>2. all[Len(a) + i] = (a \o b)[Len(a) + i]
    <3>1. Len(a) + i \in 1..Len(a) + Len(b)
      BY <1>1
    <3> QED
      BY <1>3, <3>1, Zenon
  <2>3. (a \o b)[Len(a) + i] = b[i]
    BY <1>1, <1>2
  <2> QED
    BY <2>1, <2>2, <2>3
<1> QED
  BY <1>5, <1>6, <1>7, SeqEqual

(* So is the second of four.                                               *)
LEMMA EarlySlice ==
  ASSUME NEW S, NEW a \in Seq(S), NEW b \in Seq(S), NEW c \in Seq(S), NEW d \in Seq(S)
  PROVE  SubSeq(a \o b \o c \o d, Len(a) + 1, Len(a) + Len(b)) = b
<1>1. a \o b \in Seq(S) /\ c \o d \in Seq(S)
  BY ConcatProperties
<1>2. a \o b \o c \o d = a \o b \o (c \o d)
  <2> DEFINE ab == a \o b
  <2>1. ab \in Seq(S)
    BY <1>1
  <2> HIDE DEF ab
  <2>2. ab \o c \o d = ab \o (c \o d)
    BY <2>1, ConcatAssociative
  <2> QED
    BY <2>2 DEF ab
<1> QED
  BY <1>1, <1>2, Slice

(* Likewise what remains behind the first of two.                          *)
LEMMA Rest ==
  ASSUME NEW S, NEW a \in Seq(S), NEW b \in Seq(S)
  PROVE  SubSeq(a \o b, Len(a) + 1, Len(a \o b)) = b
<1>1. << >> \in Seq(S)
  BY EmptySeq
<1>2. a \o b \in Seq(S) /\ Len(a \o b) = Len(a) + Len(b)
  BY ConcatProperties
<1>3. a \o b \o << >> = a \o b
  BY <1>2, ConcatEmptySeq
<1> QED
  BY <1>1, <1>2, <1>3, Slice

(* from_bytes undoes to_bytes on an envelope of type 0, whatever its box:  *)
(* what the server seals with Envelope::new reaches the wallet's from_bytes *)
(* unchanged, and without a panic.                                         *)
THEOREM RoundTrip0 ==
  ASSUME NEW S, 0 \in S,
         NEW e \in [envelope_type : {0}, iv : Seq(S), sealbox : Seq(S)],
         Len(e.iv) = IvLen
  PROVE  /\ ~Panics0(ToBytes0(e))
         /\ FromBytes0(ToBytes0(e)) = e
<1> DEFINE iv == e.iv
           box == e.sealbox
           head == <<0>> \o iv
           bytes == head \o box
<1>0. iv \in Seq(S) /\ box \in Seq(S) /\ Len(iv) = IvLen /\ e.envelope_type = 0
  OBVIOUS
<1>1. ToBytes0(e) = bytes
  BY <1>0 DEF ToBytes0
<1> HIDE DEF iv, box
<1>2. <<0>> \in Seq(S) /\ Len(<<0>>) = 1
  OBVIOUS
<1>3. /\ head \in Seq(S)
      /\ Len(head) = HeaderLen0
      /\ head[1] = 0
  BY <1>0, <1>2, ConcatProperties DEF HeaderLen0
<1>4. /\ Len(bytes) = HeaderLen0 + Len(box)
      /\ bytes[1] = 0
  <2> HIDE DEF head
  <2>1. /\ Len(bytes) = Len(head) + Len(box)
        /\ \A i \in 1..Len(head) + Len(box) :
             bytes[i] = IF i <= Len(head) THEN head[i] ELSE box[i - Len(head)]
    BY <1>0, <1>3, ConcatProperties
  <2>2. Len(box) \in Nat /\ HeaderLen0 \in Nat \ {0}
    BY <1>0, LenProperties DEF HeaderLen0
  <2> QED
    BY <2>1, <2>2, <1>3
<1>5. SubSeq(bytes, 2, HeaderLen0) = iv
  <2>1. SubSeq(<<0>> \o iv \o box, Len(<<0>>) + 1, Len(<<0>>) + Len(iv)) = iv
    BY <1>0, <1>2, Slice
  <2> QED
    BY <1>0, <2>1, <1>2 DEF HeaderLen0
<1>6. SubSeq(bytes, HeaderLen0 + 1, Len(bytes)) = box
  <2> HIDE DEF head
  <2> QED
    BY <1>0, <1>3, Rest
<1>7. ~Panics0(bytes)
  BY <1>0, <1>4, LenProperties DEF Panics0, HeaderLen0
<1>8. FromBytes0(bytes) = [envelope_type |-> 0, iv |-> iv, sealbox |-> box]
  <2> HIDE DEF bytes
  <2> QED
    BY <1>4, <1>5, <1>6 DEF FromBytes0
<1>9. e = [envelope_type |-> 0, iv |-> iv, sealbox |-> box]
  BY DEF iv, box
<1> HIDE DEF bytes
<1> QED
  BY <1>1, <1>7, <1>8, <1>9

(* The same for an envelope of type 1: the public key push_subscribe reads *)
(* is the one that the wallet put there.                                   *)
THEOREM RoundTrip1 ==
  ASSUME NEW S, 1 \in S,
         NEW e \in [envelope_type : {1}, pubkey : Seq(S), iv : Seq(S), sealbox : Seq(S)],
         Len(e.pubkey) = PubkeyLen,
         Len(e.iv) = IvLen
  PROVE  /\ ~Panics1(ToBytes1(e))
         /\ FromBytes1(ToBytes1(e)) = e
         /\ ToBytes1(e) \in Seq(S)
         /\ Len(ToBytes1(e)) = HeaderLen1 + Len(e.sealbox)
<1> DEFINE pubkey == e.pubkey
           iv == e.iv
           box == e.sealbox
           front == <<1>> \o pubkey
           head == front \o iv
           bytes == head \o box
<1>0. /\ pubkey \in Seq(S) /\ Len(pubkey) = PubkeyLen
      /\ iv \in Seq(S) /\ Len(iv) = IvLen
      /\ box \in Seq(S)
      /\ e.envelope_type = 1
  OBVIOUS
<1>1. ToBytes1(e) = bytes
  BY <1>0 DEF ToBytes1
<1> HIDE DEF pubkey, iv, box
<1>2. <<1>> \in Seq(S) /\ Len(<<1>>) = 1
  OBVIOUS
<1>3. /\ front \in Seq(S)
      /\ Len(front) = 1 + PubkeyLen
      /\ front[1] = 1
  BY <1>0, <1>2, ConcatProperties
<1>4. /\ head \in Seq(S)
      /\ Len(head) = HeaderLen1
      /\ head[1] = 1
  <2> HIDE DEF front
  <2>1. /\ head \in Seq(S)
        /\ Len(head) = Len(front) + Len(iv)
        /\ \A i \in 1..Len(front) + Len(iv) :
             head[i] = IF i <= Len(front) THEN front[i] ELSE iv[i - Len(front)]
    <3>1. front \in Seq(S)
      BY <1>3
    <3> QED
      BY <1>0, <3>1, ConcatProperties, Zenon
  <2>2. Len(head) = HeaderLen1
    BY <1>0, <2>1, <1>3 DEF HeaderLen1
  <2>3. 1 \in 1..Len(front) + Len(iv) /\ 1 <= Len(front)
    BY <1>0, <1>3
  <2> HIDE DEF head
  <2> QED
    BY <2>1, <2>2, <2>3, <1>3
<1>5. /\ bytes \in Seq(S)
      /\ Len(bytes) = HeaderLen1 + Len(box)
      /\ bytes[1] = 1
  <2> HIDE DEF head
  <2>1. /\ bytes \in Seq(S)
        /\ Len(bytes) = Len(head) + Len(box)
        /\ \A i \in 1..Len(head) + Len(box) :
             bytes[i] = IF i <= Len(head) THEN head[i] ELSE box[i - Len(head)]
    BY <1>0, <1>4, ConcatProperties
  <2>2. Len(box) \in Nat /\ HeaderLen1 \in Nat \ {0}
    BY <1>0, LenProperties DEF HeaderLen1
  <2> QED
    BY <2>1, <2>2, <1>4
<1>6. SubSeq(bytes, 2, 1 + PubkeyLen) = pubkey
  <2>1. SubSeq(<<1>> \o pubkey \o iv \o box, Len(<<1>>) + 1, Len(<<1>>) + Len(pubkey)) = pubkey
    BY <1>0, <1>2, EarlySlice
  <2> QED
    BY <2>1, <1>0, <1>2
<1>7. SubSeq(bytes, 2 + PubkeyLen, HeaderLen1) = iv
  <2> HIDE DEF front
  <2>1. SubSeq(front \o iv \o box, Len(front) + 1, Len(front) + Len(iv)) = iv
    BY <1>0, <1>3, Slice
  <2>2. Len(front) + 1 = 2 + PubkeyLen /\ Len(front) + Len(iv) = HeaderLen1
    BY <1>0, <1>3 DEF HeaderLen1
  <2> QED
    BY <2>1, <2>2
<1>8. SubSeq(bytes, HeaderLen1 + 1, Len(bytes)) = box
  <2> HIDE DEF head
  <2> QED
    BY <1>0, <1>4, Rest
<1>9. ~Panics1(bytes)
  BY <1>0, <1>5, LenProperties DEF Panics1, HeaderLen1
<1>10. FromBytes1(bytes) = [envelope_type |-> 1, pubkey |-> pubkey, iv |-> iv, sealbox |-> box]
  <2> HIDE DEF bytes
  <2> QED
    BY <1>5, <1>6, <1>7, <1>8 DEF FromBytes1
<1>11. e = [envelope_type |-> 1, pubkey |-> pubkey, iv |-> iv, sealbox |-> box]
  BY DEF pubkey, iv, box
<1>12. Len(e.sealbox) = Len(box)
  BY DEF box
<1> HIDE DEF bytes
<1> QED
  BY <1>1, <1>5, <1>9, <1>10, <1>11, <1>12
=============================================================================
