----------------------------- MODULE Codec_proofs -----------------------------
(***************************************************************************)
(* What is proved of the codecs for every input: the padding of sha1_digest *)
(* for messages of any length, that base64_encode writes what RFC 4648 has  *)
(* and stays inside its buffer, that base64_decode returns what was         *)
(* encoded, that xoroshiro128_fill fills its buffer with the same bytes in  *)
(* the same second, that the machine words' sums are sums modulo 2^32 and   *)
(* 2^64, and which keys are made of the bytes drawn.                        *)
(***************************************************************************)
EXTENDS Codec, FiniteSetTheorems, SequenceTheorems, WellFoundedInduction, TLAPS

-------------------------------------------------------------------------------
(* The last blocks hold what is left of the message, the padding and the   *)
(* length, and no more than they need.                                     *)
LEMMA BlocksSuffice ==
  ASSUME NEW n \in Nat
  PROVE  /\ AlignedLength(n) \in Nat
         /\ AlignedLength(n) <= n
         /\ n - AlignedLength(n) < 64
         /\ NBlocks(n) \in {1, 2}
         /\ AlignedLength(n) + 64 * NBlocks(n) = PaddedLength(n)
<1> DEFINE q == n \div 64
           r == n % 64
<1>1. q \in Nat /\ r \in 0 .. 63 /\ n = 64 * q + r
  OBVIOUS
<1>2. AlignedLength(n) = 64 * q
  BY <1>1 DEF AlignedLength
<1>3. n - AlignedLength(n) = r /\ r % 64 = r
  BY <1>1, <1>2
<1>4. NBlocks(n) = IF 64 - r < 9 THEN 2 ELSE 1
  BY <1>1, <1>3 DEF NBlocks, sha1_require_another_block
<1>5. CASE 64 - r < 9
  <2>1. n + 8 = 64 * (q + 1) + (r - 56) /\ r - 56 \in 0 .. 63
    BY <1>1, <1>5
  <2>2. (n + 8) \div 64 = q + 1
    BY <1>1, <2>1
  <2> QED
    BY <1>1, <1>2, <1>3, <1>4, <1>5, <2>2 DEF PaddedLength
<1>6. CASE ~(64 - r < 9)
  <2>1. n + 8 = 64 * q + (r + 8) /\ r + 8 \in 0 .. 63
    BY <1>1, <1>6
  <2>2. (n + 8) \div 64 = q
    BY <1>1, <2>1
  <2> QED
    BY <1>1, <1>2, <1>3, <1>4, <1>6, <2>2 DEF PaddedLength
<1> QED
  BY <1>5, <1>6

LEMMA PaddingCorrect ==
  ASSUME NEW n \in Nat
  PROVE  Hashed(n) = Padded(n)
<1> DEFINE a == AlignedLength(n)
           p == PaddedLength(n)
<1>1. /\ a \in Nat /\ a <= n /\ n - a < 64
      /\ NBlocks(n) \in {1, 2}
      /\ a + 64 * NBlocks(n) = p
  BY BlocksSuffice
<1>2. n + 9 <= p
  BY DEF PaddedLength
<1>3. SUFFICES ASSUME NEW i \in 0 .. p - 1
               PROVE  (IF i < a THEN Message(i) ELSE TailByte(n, i - a))
                      = (IF i < n THEN Message(i)
                         ELSE IF i = n THEN One
                         ELSE IF i < p - 8 THEN Zero
                         ELSE BitLength(i - (p - 8)))
  BY <1>1, SMTT(40) DEF Hashed, Padded
<1> DEFINE lengthAt == IF NBlocks(n) = 1 THEN 56 ELSE 120
<1>4. a + lengthAt = p - 8
  BY <1>1
<1> HIDE DEF a, p
<1>5. CASE i < a
  BY <1>1, <1>5
<1>6. CASE i >= a
  <2>1. i \in Int /\ a \in Int /\ p \in Int /\ n \in Int
    BY <1>1
  <2>2. TailByte(n, i - a) =
          IF i - a \in lengthAt .. lengthAt + 7 THEN BitLength(i - a - lengthAt)
          ELSE IF i - a < n - a THEN Message(a + (i - a))
          ELSE IF i - a = n - a THEN One
          ELSE Zero
    BY DEF TailByte, a
  <2>3. (i - a \in lengthAt .. lengthAt + 7) <=> i >= p - 8
    BY <1>3, <1>4, <2>1
  <2>4. i - a - lengthAt = i - (p - 8) /\ a + (i - a) = i
    BY <1>4, <2>1
  <2>5. (i - a < n - a <=> i < n) /\ (i - a = n - a <=> i = n)
    BY <2>1
  <2> HIDE DEF lengthAt
  <2>6. CASE i >= p - 8
    BY <1>2, <1>6, <2>1, <2>2, <2>3, <2>4, <2>6
  <2>7. CASE i < p - 8
    BY <1>6, <2>1, <2>2, <2>3, <2>4, <2>5, <2>7
  <2> QED
    BY <2>1, <2>6, <2>7
<1> QED
  BY <1>1, <1>5, <1>6

(* sha1_digest hashes a message of any length with the padding of FIPS 180. *)
THEOREM StandardPadding == Spec => []PaddingIsStandard
<1> DEFINE Inv == msgLen \in Nat /\ hashed = Hashed(msgLen)
<1>1. Init => Inv
  BY DEF Init
<1>2. Inv /\ [Next]_vars => Inv'
  <2> SUFFICES ASSUME Inv, [Next]_vars
               PROVE  Inv'
    OBVIOUS
  <2>1. CASE Pad64
    BY <2>1 DEF Pad64
  <2>2. CASE UNCHANGED paddingVars
    BY <2>2 DEF paddingVars
  <2>3. CASE Encode \/ Decode \/ sha1_round \/ sha1_process_block
    BY <2>2, <2>3 DEF Encode, Decode, sha1_round, sha1_process_block
  <2>4. CASE StartFill \/ FillWord \/ FillRest
    BY <2>2, <2>4 DEF StartFill, FillWord, FillRest
  <2>5. CASE UNCHANGED vars
    BY <2>2, <2>5 DEF vars
  <2> QED
    BY <2>1, <2>3, <2>4, <2>5 DEF Next
<1>3. Inv => PaddingIsStandard
  BY PaddingCorrect DEF PaddingIsStandard
<1> QED
  BY <1>1, <1>2, <1>3, PTL DEF Spec

-------------------------------------------------------------------------------
(* The decoder's bytes of the encoder's four values are the bytes that     *)
(* were encoded.                                                           *)
THEOREM TripleSurvives ==
  ASSUME NEW b0 \in Byte, NEW b1 \in Byte, NEW b2 \in Byte
  PROVE  Tri(Quad(b0, b1, b2)) = <<b0, b1, b2>>
<1> DEFINE v == Quad(b0, b1, b2)
<1>1. v[1] \in 0 .. 63 /\ b0 = 4 * v[1] + (b0 % 4)
  BY DEF Quad, Byte
<1>2. /\ v[2] = (b0 % 4) * 16 + (b1 \div 16)
      /\ b1 \div 16 \in 0 .. 15 /\ b0 % 4 \in 0 .. 3
      /\ b1 = 16 * (b1 \div 16) + (b1 % 16)
  BY DEF Quad, Byte
<1>3. /\ v[3] = (b1 % 16) * 4 + (b2 \div 64)
      /\ b2 \div 64 \in 0 .. 3 /\ b1 % 16 \in 0 .. 15
      /\ b2 = 64 * (b2 \div 64) + (b2 % 64)
  BY DEF Quad, Byte
<1>4. v[4] = b2 % 64 /\ b2 % 64 \in 0 .. 63
  BY DEF Quad, Byte
<1>5. v[2] \div 16 = b0 % 4 /\ (v[2] * 16) % 256 = 16 * (b1 \div 16)
  BY <1>2
<1>6. (v[3] \div 4) % 16 = b1 % 16 /\ (v[3] * 64) % 256 = 64 * (b2 \div 64)
  BY <1>3
<1>7. (v[1] * 4) % 256 = v[1] * 4
  BY <1>1
<1> QED
  BY <1>1, <1>2, <1>3, <1>4, <1>5, <1>6, <1>7 DEF Tri

(* An alphabet character decodes to the value it was encoded from.         *)
THEOREM ValueSurvives ==
  ASSUME NEW v \in 0 .. 63
  PROVE  Value(_base64_value_for_data(v)) = v
BY DEF Value, _base64_value_for_data

-------------------------------------------------------------------------------
(* What base64_encode returns, index by index.                             *)

Aligned(bytes) == Len(bytes) \div 3

Triple(bytes, t) == Quad(bytes[3 * t + 1], bytes[3 * t + 2], bytes[3 * t + 3])

HeadValues(bytes) ==
  [i \in 1 .. 4 * Aligned(bytes) |-> Triple(bytes, (i - 1) \div 4)[((i - 1) % 4) + 1]]

Values(bytes) ==
  HeadValues(bytes) \o EncodeTail(SubSeq(bytes, 3 * Aligned(bytes) + 1, Len(bytes)))

Chars(bytes) == [i \in DOMAIN Values(bytes) |-> _base64_value_for_data(Values(bytes)[i])]

Pads(bytes, padded) == IF padded THEN PaddingLen(Len(Chars(bytes))) ELSE 0

LEMMA EncodeIs ==
  ASSUME NEW bytes, NEW size, NEW padded
  PROVE  base64_encode(bytes, size, padded) =
           LET chars == Chars(bytes)
               pads == Pads(bytes, padded)
           IN  IF size < EncodeRequired(Len(bytes)) THEN Failure(TOO_SMALL)
               ELSE IF Len(chars) >= size \/ Len(chars) + pads > size THEN Failure(ABORT)
               ELSE Success(chars \o [i \in 1 .. pads |-> Pad], Len(chars) + pads - 1)
BY DEF base64_encode, Chars, Pads, Values, HeadValues, Triple, Aligned

LEMMA At ==
  ASSUME NEW T, NEW s \in Seq(T), NEW i \in 1 .. Len(s)
  PROVE  s[i] \in T
OBVIOUS

LEMMA Joined ==
  ASSUME NEW s \in Seq(Int), NEW t \in Seq(Int)
  PROVE  /\ s \o t \in Seq(Int)
         /\ Len(s \o t) = Len(s) + Len(t)
         /\ \A i \in 1 .. Len(s) : (s \o t)[i] = s[i]
         /\ \A i \in 1 .. Len(t) : (s \o t)[Len(s) + i] = t[i]
OBVIOUS

(* The padding loop fills the last four characters.                        *)
LEMMA PaddingFills ==
  ASSUME NEW idx \in Nat, idx % 4 # 1
  PROVE  PaddingLen(idx) = (4 - (idx % 4)) % 4
<1> DEFINE P(n) == n >= (idx + n) % 4 /\ \A m \in 0 .. n - 1 : m < (idx + m) % 4
<1>1. PICK q \in Nat, r \in 0 .. 3 : idx = 4 * q + r /\ r = idx % 4
  OBVIOUS
<1>2. /\ r = 0 => (idx + 0) % 4 = 0
      /\ r = 2 => (idx + 0) % 4 = 2 /\ (idx + 1) % 4 = 3 /\ (idx + 2) % 4 = 0
      /\ r = 3 => (idx + 0) % 4 = 3 /\ (idx + 1) % 4 = 0
  BY <1>1
<1>3. \A n \in 0 .. 3 : P(n) <=> n = (4 - r) % 4
  <2>1. \A n \in 0 .. 3 : n = 0 \/ n = 1 \/ n = 2 \/ n = 3
    OBVIOUS
  <2>2. CASE r = 0
    <3>1. P(0) /\ \A n \in 1 .. 3 : ~P(n)
      BY <1>1, <1>2, <2>2
    <3> QED
      BY <2>2, <3>1
  <2>3. CASE r = 2
    <3>1. P(2) /\ ~P(0) /\ ~P(1) /\ ~P(3)
      BY <1>1, <1>2, <2>3
    <3> QED
      BY <2>1, <2>3, <3>1
  <2>4. CASE r = 3
    <3>1. P(1) /\ ~P(0) /\ ~P(2) /\ ~P(3)
      BY <1>1, <1>2, <2>4
    <3> QED
      BY <2>1, <2>4, <3>1
  <2> QED
    BY <1>1, <2>2, <2>3, <2>4
<1>4. (4 - r) % 4 \in 0 .. 3
  BY <1>1
<1> HIDE DEF P
<1>5. (CHOOSE n \in 0 .. 3 : P(n)) = (4 - r) % 4
  BY <1>3, <1>4
<1> QED
  BY <1>1, <1>5 DEF PaddingLen, P

(* The tail.                                                               *)
Tail3(bytes) == SubSeq(bytes, 3 * Aligned(bytes) + 1, Len(bytes))

LEMMA ValuesAre ==
  ASSUME NEW bytes \in Seq(Byte)
  PROVE  LET q == Len(bytes) \div 3
             r == Len(bytes) % 3
         IN  /\ Values(bytes) \in Seq(Int)
             /\ Len(Values(bytes)) = 4 * q + (IF r = 0 THEN 0 ELSE r + 1)
             /\ \A i \in 1 .. 4 * q :
                  Values(bytes)[i] = Triple(bytes, (i - 1) \div 4)[((i - 1) % 4) + 1]
             /\ \A i \in 1 .. (IF r = 0 THEN 0 ELSE r + 1) :
                  Values(bytes)[4 * q + i] = EncodeTail(Tail3(bytes))[i]
             /\ Len(Tail3(bytes)) = r
             /\ \A i \in 1 .. r : Tail3(bytes)[i] = bytes[3 * q + i]
<1> DEFINE q == Len(bytes) \div 3
           r == Len(bytes) % 3
           len == IF r = 0 THEN 0 ELSE r + 1
           rest == Tail3(bytes)
<1>0. \A i \in 1 .. Len(bytes) : bytes[i] \in Int
  <2>1. \A i \in 1 .. Len(bytes) : bytes[i] \in Byte
    OBVIOUS
  <2>2. Byte \subseteq Int
    BY DEF Byte
  <2> QED
    BY <2>1, <2>2
<1>1. Len(bytes) \in Nat /\ q \in Nat /\ r \in 0 .. 2 /\ Len(bytes) = 3 * q + r
  OBVIOUS
<1>2. Aligned(bytes) = q
  BY DEF Aligned
<1> HIDE DEF q, r
<1>3. rest \in Seq(Byte) /\ Len(rest) = r /\ \A i \in 1 .. r : rest[i] = bytes[3 * q + i]
  BY <1>1, <1>2 DEF Tail3
<1> HIDE DEF rest
<1>4. EncodeTail(rest) \in Seq(Int) /\ Len(EncodeTail(rest)) = len
  <2>1. CASE r = 0
    BY <1>3, <2>1 DEF EncodeTail
  <2>2. CASE r = 1
    <3>1. rest[1] \in Int
      <4>1. 1 \in 1 .. r /\ 3 * q + 1 \in 1 .. Len(bytes)
        BY <1>1, <2>2
      <4> QED
        BY <1>0, <1>3, <4>1
    <3>2. EncodeTail(rest) = << rest[1] \div 4, (rest[1] % 4) * 16 >>
      BY <1>3, <2>2 DEF EncodeTail
    <3> QED
      BY <2>2, <3>1, <3>2
  <2>3. CASE r = 2
    <3>1. rest[1] \in Int /\ rest[2] \in Int
      <4>1. 1 \in 1 .. r /\ 3 * q + 1 \in 1 .. Len(bytes)
            /\ 2 \in 1 .. r /\ 3 * q + 2 \in 1 .. Len(bytes)
        BY <1>1, <2>3
      <4> QED
        BY <1>0, <1>3, <4>1
    <3>2. EncodeTail(rest) = << rest[1] \div 4, (rest[1] % 4) * 16 + (rest[2] \div 16),
                                (rest[2] % 16) * 4 >>
      BY <1>3, <2>3 DEF EncodeTail
    <3> QED
      BY <2>3, <3>1, <3>2, SMTT(40)
  <2> QED
    BY <1>1, <2>1, <2>2, <2>3
<1>5. /\ HeadValues(bytes) \in Seq(Int) /\ Len(HeadValues(bytes)) = 4 * q
      /\ \A i \in 1 .. 4 * q :
           HeadValues(bytes)[i] = Triple(bytes, (i - 1) \div 4)[((i - 1) % 4) + 1]
  <2>1. ASSUME NEW i \in 1 .. 4 * q
        PROVE  Triple(bytes, (i - 1) \div 4)[((i - 1) % 4) + 1] \in Int
    <3> DEFINE t == (i - 1) \div 4
               k == (i - 1) % 4
    <3>1. t \in 0 .. q - 1 /\ k \in 0 .. 3
      BY <1>1
    <3> HIDE DEF t, k
    <3>2. bytes[3 * t + 1] \in Int /\ bytes[3 * t + 2] \in Int /\ bytes[3 * t + 3] \in Int
      <4>1. 3 * t + 1 \in 1 .. Len(bytes) /\ 3 * t + 2 \in 1 .. Len(bytes)
            /\ 3 * t + 3 \in 1 .. Len(bytes)
        BY <1>1, <3>1
      <4> QED
        BY <1>0, <4>1
    <3>3. Triple(bytes, t)[k + 1] \in Int
      <4>1. \A a, b, c \in Int : Quad(a, b, c) \in Seq(Int) /\ Len(Quad(a, b, c)) = 4
        BY DEF Quad
      <4>2. Triple(bytes, t) \in Seq(Int) /\ Len(Triple(bytes, t)) = 4
        BY <3>2, <4>1 DEF Triple
      <4>3. k + 1 \in 1 .. 4
        BY <3>1
      <4> DEFINE quad == Triple(bytes, t)
                 j == k + 1
      <4>4. quad \in Seq(Int) /\ j \in 1 .. Len(quad)
        BY <4>2, <4>3
      <4> HIDE DEF quad, j
      <4>5. quad[j] \in Int
        BY <4>4, At
      <4> QED
        BY <4>5 DEF quad, j
    <3> QED
      BY <3>3 DEF t, k
  <2> QED
    BY <1>1, <1>2, <2>1 DEF HeadValues
<1>6. Values(bytes) = HeadValues(bytes) \o EncodeTail(rest)
  BY DEF Values, rest, Tail3
<1>7. /\ Values(bytes) \in Seq(Int)
      /\ Len(Values(bytes)) = 4 * q + len
      /\ \A i \in 1 .. 4 * q : Values(bytes)[i] = HeadValues(bytes)[i]
      /\ \A i \in 1 .. len : Values(bytes)[4 * q + i] = EncodeTail(rest)[i]
  <2> DEFINE head == HeadValues(bytes)
             tail == EncodeTail(rest)
             m == 4 * q
  <2>1. /\ head \in Seq(Int) /\ Len(head) = m /\ m \in Nat
        /\ tail \in Seq(Int) /\ Len(tail) = len /\ len \in Nat
    BY <1>1, <1>4, <1>5
  <2> HIDE DEF head, tail, m, len
  <2>2. /\ head \o tail \in Seq(Int)
        /\ Len(head \o tail) = m + len
        /\ \A i \in 1 .. m : (head \o tail)[i] = head[i]
        /\ \A i \in 1 .. len : (head \o tail)[m + i] = tail[i]
    BY <2>1, Joined
  <2>3. Values(bytes) = head \o tail
    BY <1>6 DEF head, tail
  <2>4. /\ Values(bytes) \in Seq(Int)
        /\ Len(Values(bytes)) = m + len
        /\ \A i \in 1 .. m : Values(bytes)[i] = head[i]
        /\ \A i \in 1 .. len : Values(bytes)[m + i] = tail[i]
    BY <2>2, <2>3
  <2> QED
    BY <2>4 DEF head, tail, m
<1> QED
  BY <1>3, <1>5, <1>7 DEF q, r, rest

LEMMA By4 ==
  ASSUME NEW a \in Int, NEW l \in Int, 0 <= l, l < 4
  PROVE  (4 * a + l) \div 4 = a /\ (4 * a + l) % 4 = l
OBVIOUS

LEMMA By64 ==
  ASSUME NEW a \in Int, NEW l \in Int, 0 <= l, l < 64
  PROVE  (64 * a + l) \div 64 = a /\ (64 * a + l) % 64 = l
OBVIOUS

LEMMA By4096 ==
  ASSUME NEW a \in Int, NEW l \in Int, 0 <= l, l < 4096
  PROVE  (4096 * a + l) \div 4096 = a
OBVIOUS

LEMMA By262144 ==
  ASSUME NEW a \in Int, NEW l \in Int, 0 <= l, l < 262144
  PROVE  (262144 * a + l) \div 262144 = a
OBVIOUS

LEMMA Split ==
  ASSUME NEW b \in 0 .. 255
  PROVE  /\ b \div 4 \in 0 .. 63 /\ b % 4 \in 0 .. 3 /\ b = 4 * (b \div 4) + (b % 4)
         /\ b \div 16 \in 0 .. 15 /\ b % 16 \in 0 .. 15 /\ b = 16 * (b \div 16) + (b % 16)
         /\ b \div 64 \in 0 .. 3 /\ b % 64 \in 0 .. 63 /\ b = 64 * (b \div 64) + (b % 64)
OBVIOUS

(* Three bytes as one number, and the six-bit groups of a number.          *)
Number(b0, b1, b2) == 65536 * b0 + 256 * b1 + b2

SixBits(n, k) == (n \div 64 ^ (3 - k)) % 64

(* The four values of three bytes are the six-bit groups of their number.  *)
LEMMA QuadBits ==
  ASSUME NEW b0 \in Byte, NEW b1 \in Byte, NEW b2 \in Byte, NEW k \in 0 .. 3
  PROVE  SixBits(Number(b0, b1, b2), k) = Quad(b0, b1, b2)[k + 1]
<1> DEFINE G == 65536 * b0 + 256 * b1 + b2
           h0 == b0 \div 4
           l0 == b0 % 4
           h1 == b1 \div 16
           l1 == b1 % 16
           h2 == b2 \div 64
           l2 == b2 % 64
<1>1. /\ h0 \in 0 .. 63 /\ l0 \in 0 .. 3 /\ h1 \in 0 .. 15 /\ l1 \in 0 .. 15
      /\ h2 \in 0 .. 3 /\ l2 \in 0 .. 63
      /\ b0 = 4 * h0 + l0 /\ b1 = 16 * h1 + l1 /\ b2 = 64 * h2 + l2
  BY Split DEF Byte
<1> HIDE DEF h0, l0, h1, l1, h2, l2
<1>2. G = 65536 * (4 * h0 + l0) + 256 * (16 * h1 + l1) + (64 * h2 + l2)
  BY <1>1
<1> HIDE DEF G
<1>3. /\ (G \div 262144) % 64 = h0
      /\ (G \div 4096) % 64 = l0 * 16 + h1
      /\ (G \div 64) % 64 = l1 * 4 + h2
      /\ (G \div 1) % 64 = l2
  <2>1. G \div 262144 = h0
    <3> DEFINE l == 65536 * l0 + 4096 * h1 + 256 * l1 + 64 * h2 + l2
    <3>1. l \in Int /\ 0 <= l /\ l < 262144 /\ h0 \in Int /\ G = 262144 * h0 + l
      BY <1>1, <1>2
    <3> HIDE DEF l
    <3> QED
      BY <3>1, By262144
  <2>2. G \div 4096 = 64 * h0 + (l0 * 16 + h1)
    <3> DEFINE l == 256 * l1 + 64 * h2 + l2
               a == 64 * h0 + (l0 * 16 + h1)
    <3>1. l \in Int /\ 0 <= l /\ l < 4096 /\ a \in Int /\ G = 4096 * a + l
      BY <1>1, <1>2
    <3> HIDE DEF l, a
    <3>2. G \div 4096 = a
      BY <3>1, By4096
    <3> QED
      BY <3>2 DEF a
  <2>3. G \div 64 = 64 * (64 * h0 + 16 * l0 + h1) + (l1 * 4 + h2) /\ G % 64 = l2
    <3> DEFINE a == 64 * (64 * h0 + 16 * l0 + h1) + (l1 * 4 + h2)
    <3>1. a \in Int /\ l2 \in Int /\ 0 <= l2 /\ l2 < 64 /\ G = 64 * a + l2
      BY <1>1, <1>2
    <3> HIDE DEF a
    <3>2. G \div 64 = a /\ G % 64 = l2
      BY <3>1, By64
    <3> QED
      BY <3>2 DEF a
  <2>4. (64 * h0 + (l0 * 16 + h1)) % 64 = l0 * 16 + h1
    <3>1. l0 * 16 + h1 \in Int /\ 0 <= l0 * 16 + h1 /\ l0 * 16 + h1 < 64 /\ h0 \in Int
      BY <1>1, <1>2
    <3> QED
      BY <3>1, By64
  <2>5. (64 * (64 * h0 + 16 * l0 + h1) + (l1 * 4 + h2)) % 64 = l1 * 4 + h2
    <3> DEFINE a == 64 * h0 + 16 * l0 + h1
               l == l1 * 4 + h2
    <3>1. a \in Int /\ l \in Int /\ 0 <= l /\ l < 64
      BY <1>1, <1>2
    <3> HIDE DEF a, l
    <3>2. (64 * a + l) % 64 = l
      BY <3>1, By64
    <3> QED
      BY <3>2 DEF a, l
  <2>6. h0 % 64 = h0
    BY <1>1, <1>2
  <2>7. G \div 1 = G
    <3>1. G \in Int
      BY <1>1, <1>2
    <3> QED
      BY <3>1
  <2> QED
    BY <2>1, <2>2, <2>3, <2>4, <2>5, <2>6, <2>7
<1>4. Quad(b0, b1, b2) = << h0, l0 * 16 + h1, l1 * 4 + h2, l2 >>
  BY DEF Quad, h0, l0, h1, l1, h2, l2
<1>5. k = 0 => 64 ^ (3 - k) = 262144
  OBVIOUS
<1>6. k = 1 => 64 ^ (3 - k) = 4096
  OBVIOUS
<1>7. k = 2 => 64 ^ (3 - k) = 64
  OBVIOUS
<1>8. k = 3 => 64 ^ (3 - k) = 1
  OBVIOUS
<1>9. (G \div 64 ^ (3 - k)) % 64 = Quad(b0, b1, b2)[k + 1]
  <2>1. k = 0 \/ k = 1 \/ k = 2 \/ k = 3
    OBVIOUS
  <2> QED
    BY <1>3, <1>4, <1>5, <1>6, <1>7, <1>8, <2>1
<1> QED
  BY <1>9 DEF G, SixBits, Number

(* The length of the text without its padding, and the bytes behind it.    *)
CharLen(n) == (4 * n + 2) \div 3

ByteAt(bytes, g, k) == IF 3 * g + k <= Len(bytes) THEN bytes[3 * g + k] ELSE 0

LEMMA ByteAtByte ==
  ASSUME NEW bytes \in Seq(Byte), NEW g \in Nat, NEW x \in 1 .. 3
  PROVE  ByteAt(bytes, g, x) \in Byte
<1>1. CASE 3 * g + x <= Len(bytes)
  <2>1. 3 * g + x \in 1 .. Len(bytes)
    BY <1>1
  <2> QED
    BY <1>1, <2>1, At DEF ByteAt
<1>2. CASE ~(3 * g + x <= Len(bytes))
  BY <1>2 DEF ByteAt, Byte
<1> QED
  BY <1>1, <1>2

LEMMA Lengths3 ==
  ASSUME NEW q \in Nat, NEW r \in 0 .. 2
  PROVE  /\ CharLen(3 * q + r) = 4 * q + (IF r = 0 THEN 0 ELSE r + 1)
         /\ EncodeRequired(3 * q + r) = 4 * q + (IF r = 0 THEN 0 ELSE 4)
<1>1. CASE r = 0
  BY <1>1 DEF CharLen, EncodeRequired
<1>2. CASE r = 1
  BY <1>2 DEF CharLen, EncodeRequired
<1>3. CASE r = 2
  BY <1>3 DEF CharLen, EncodeRequired
<1> QED
  BY <1>1, <1>2, <1>3

LEMMA QuadOfRest ==
  /\ \A b \in Byte : Quad(b, 0, 0) = << b \div 4, (b % 4) * 16, 0, 0 >>
  /\ \A b0, b1 \in Byte :
       Quad(b0, b1, 0) = << b0 \div 4, (b0 % 4) * 16 + (b1 \div 16), (b1 % 16) * 4, 0 >>
BY DEF Quad, Byte

LEMMA ValuesQuad ==
  ASSUME NEW bytes \in Seq(Byte), NEW i \in 1 .. CharLen(Len(bytes))
  PROVE  LET g == (i - 1) \div 4
         IN  Values(bytes)[i] =
               Quad(ByteAt(bytes, g, 1), ByteAt(bytes, g, 2), ByteAt(bytes, g, 3))
                 [((i - 1) % 4) + 1]
<1> DEFINE q == Len(bytes) \div 3
           r == Len(bytes) % 3
           g == (i - 1) \div 4
           k == (i - 1) % 4
           rest == Tail3(bytes)
           len == IF r = 0 THEN 0 ELSE r + 1
<1>1. Len(bytes) \in Nat /\ q \in Nat /\ r \in 0 .. 2 /\ Len(bytes) = 3 * q + r
  OBVIOUS
<1>2. /\ \A x \in 1 .. 4 * q :
           Values(bytes)[x] = Triple(bytes, (x - 1) \div 4)[((x - 1) % 4) + 1]
      /\ \A x \in 1 .. len : Values(bytes)[4 * q + x] = EncodeTail(rest)[x]
      /\ Len(rest) = r
      /\ \A x \in 1 .. r : rest[x] = bytes[3 * q + x]
  BY ValuesAre
<1> HIDE DEF q, r, rest
<1>3. CharLen(Len(bytes)) = 4 * q + len
  BY <1>1, Lengths3
<1>4. CASE i <= 4 * q
  <2>1. i \in 1 .. 4 * q /\ g \in 0 .. q - 1
    BY <1>1, <1>3, <1>4
  <2>2. Values(bytes)[i] = Triple(bytes, g)[k + 1]
    BY <1>2, <2>1
  <2>3. 3 * g + 1 <= Len(bytes) /\ 3 * g + 2 <= Len(bytes) /\ 3 * g + 3 <= Len(bytes)
    BY <1>1, <2>1
  <2> HIDE DEF g, k
  <2>4. Triple(bytes, g) =
          Quad(ByteAt(bytes, g, 1), ByteAt(bytes, g, 2), ByteAt(bytes, g, 3))
    BY <2>3 DEF Triple, ByteAt
  <2> QED
    BY <2>2, <2>4 DEF g, k
<1>5. CASE ~(i <= 4 * q)
  <2> DEFINE j == i - 4 * q
  <2>1. j \in 1 .. len /\ i = 4 * q + j /\ r # 0 /\ len = r + 1
    BY <1>1, <1>3, <1>5
  <2>2. g = q /\ k + 1 = j
    BY <1>1, <2>1
  <2>3. Values(bytes)[i] = EncodeTail(rest)[j]
    BY <1>2, <2>1
  <2> HIDE DEF j, len, g, k
  <2>4. CASE r = 1
    <3>1. /\ rest[1] = ByteAt(bytes, q, 1)
          /\ ByteAt(bytes, q, 2) = 0 /\ ByteAt(bytes, q, 3) = 0
      BY <1>1, <1>2, <2>4 DEF ByteAt
    <3>2. EncodeTail(rest) = << rest[1] \div 4, (rest[1] % 4) * 16 >>
      BY <1>2, <2>4 DEF EncodeTail
    <3>3. j = 1 \/ j = 2
      BY <2>1, <2>4
    <3>4. rest[1] \in Byte
      <4>1. 3 * q + 1 \in 1 .. Len(bytes) /\ 1 \in 1 .. r
        BY <1>1, <2>4
      <4> QED
        BY <1>2, <4>1, At
    <3>5. Quad(rest[1], 0, 0) = << rest[1] \div 4, (rest[1] % 4) * 16, 0, 0 >>
      BY <3>4, QuadOfRest
    <3>6. EncodeTail(rest)[j] = Quad(rest[1], 0, 0)[j]
      BY <3>2, <3>3, <3>5
    <3> QED
      BY <2>2, <2>3, <3>1, <3>6 DEF g, k
  <2>5. CASE r = 2
    <3>1. /\ rest[1] = ByteAt(bytes, q, 1) /\ rest[2] = ByteAt(bytes, q, 2)
          /\ ByteAt(bytes, q, 3) = 0
      BY <1>1, <1>2, <2>5 DEF ByteAt
    <3>2. EncodeTail(rest) = << rest[1] \div 4, (rest[1] % 4) * 16 + (rest[2] \div 16),
                                (rest[2] % 16) * 4 >>
      BY <1>2, <2>5 DEF EncodeTail
    <3>3. j = 1 \/ j = 2 \/ j = 3
      BY <2>1, <2>5
    <3>4. rest[1] \in Byte /\ rest[2] \in Byte
      <4>1. /\ 3 * q + 1 \in 1 .. Len(bytes) /\ 1 \in 1 .. r
            /\ 3 * q + 2 \in 1 .. Len(bytes) /\ 2 \in 1 .. r
        BY <1>1, <2>5
      <4> QED
        BY <1>2, <4>1, At
    <3>5. Quad(rest[1], rest[2], 0) =
            << rest[1] \div 4, (rest[1] % 4) * 16 + (rest[2] \div 16), (rest[2] % 16) * 4, 0 >>
      BY <3>4, QuadOfRest
    <3>6. EncodeTail(rest)[j] = Quad(rest[1], rest[2], 0)[j]
      BY <3>2, <3>3, <3>5
    <3> QED
      BY <2>2, <2>3, <3>1, <3>6 DEF g, k
  <2> QED
    BY <1>1, <2>1, <2>4, <2>5
<1> QED
  BY <1>4, <1>5

LEMMA CharsAre ==
  ASSUME NEW bytes \in Seq(Byte)
  PROVE  /\ Chars(bytes) \in Seq(Int)
         /\ CharLen(Len(bytes)) \in Nat
         /\ Len(Chars(bytes)) = CharLen(Len(bytes))
         /\ \A i \in 1 .. CharLen(Len(bytes)) :
              Chars(bytes)[i] = _base64_value_for_data(Values(bytes)[i])
<1> DEFINE q == Len(bytes) \div 3
           r == Len(bytes) % 3
           len == CharLen(Len(bytes))
           vals == Values(bytes)
<1>1. Len(bytes) \in Nat /\ q \in Nat /\ r \in 0 .. 2 /\ Len(bytes) = 3 * q + r
  OBVIOUS
<1>2. vals \in Seq(Int) /\ Len(vals) = 4 * q + (IF r = 0 THEN 0 ELSE r + 1)
  BY ValuesAre
<1> HIDE DEF q, r, vals
<1>3. len = 4 * q + (IF r = 0 THEN 0 ELSE r + 1)
  BY <1>1, Lengths3
<1> HIDE DEF len
<1>4. len \in Nat /\ DOMAIN vals = 1 .. len
  BY <1>1, <1>2, <1>3
<1>5. \A v \in Int : _base64_value_for_data(v) \in Int
  BY DEF _base64_value_for_data
<1>6. \A i \in 1 .. len : _base64_value_for_data(vals[i]) \in Int
  BY <1>2, <1>4, <1>5
<1>7. Chars(bytes) = [i \in 1 .. len |-> _base64_value_for_data(vals[i])]
  BY <1>4 DEF Chars, vals
<1>8. /\ Chars(bytes) \in Seq(Int) /\ Len(Chars(bytes)) = len
      /\ \A i \in 1 .. len : Chars(bytes)[i] = _base64_value_for_data(vals[i])
  BY <1>4, <1>6, <1>7
<1> QED
  BY <1>4, <1>8 DEF len, vals

(* The padding goes up to the required size. *)
LEMMA PadsAre ==
  ASSUME NEW bytes \in Seq(Byte), NEW padded \in BOOLEAN
  PROVE  /\ Pads(bytes, padded) \in Nat
         /\ CharLen(Len(bytes)) <= EncodeRequired(Len(bytes))
         /\ CharLen(Len(bytes)) + Pads(bytes, padded) =
              IF padded THEN EncodeRequired(Len(bytes)) ELSE CharLen(Len(bytes))
<1> DEFINE q == Len(bytes) \div 3
           r == Len(bytes) % 3
           len == CharLen(Len(bytes))
<1>1. Len(bytes) \in Nat /\ q \in Nat /\ r \in 0 .. 2 /\ Len(bytes) = 3 * q + r
  OBVIOUS
<1>2. Len(Chars(bytes)) = len
  BY CharsAre
<1> HIDE DEF q, r
<1>3. /\ len = 4 * q + (IF r = 0 THEN 0 ELSE r + 1)
      /\ EncodeRequired(Len(bytes)) = 4 * q + (IF r = 0 THEN 0 ELSE 4)
  BY <1>1, Lengths3
<1> HIDE DEF len
<1>4. /\ len \in Nat /\ len % 4 # 1 /\ (4 - (len % 4)) % 4 \in Nat
      /\ EncodeRequired(Len(bytes)) = len + ((4 - (len % 4)) % 4)
  <2>1. CASE r = 0
    <3>1. len % 4 = 0 /\ len \in Nat /\ EncodeRequired(Len(bytes)) = len + 0
      BY <1>1, <1>3, <2>1
    <3>2. (4 - (len % 4)) % 4 = 0
      BY <3>1
    <3> QED
      BY <3>1, <3>2
  <2>2. CASE r = 1
    <3>1. len % 4 = 2 /\ len \in Nat /\ EncodeRequired(Len(bytes)) = len + 2
      BY <1>1, <1>3, <2>2
    <3>2. (4 - (len % 4)) % 4 = 2
      BY <3>1
    <3> QED
      BY <3>1, <3>2
  <2>3. CASE r = 2
    <3>1. len % 4 = 3 /\ len \in Nat /\ EncodeRequired(Len(bytes)) = len + 1
      BY <1>1, <1>3, <2>3
    <3>2. (4 - (len % 4)) % 4 = 1
      BY <3>1
    <3> QED
      BY <3>1, <3>2
  <2> QED
    BY <1>1, <2>1, <2>2, <2>3
<1>5. PaddingLen(len) = (4 - (len % 4)) % 4
  BY <1>4, PaddingFills
<1>6. Pads(bytes, padded) = IF padded THEN PaddingLen(len) ELSE 0
  BY <1>2 DEF Pads
<1>7. len <= EncodeRequired(Len(bytes))
  BY <1>1, <1>3
<1> QED
  BY <1>4, <1>5, <1>6, <1>7 DEF len

(* What the result of base64_encode is, from the size of the output buffer. *)
LEMMA EncodeResult ==
  ASSUME NEW bytes \in Seq(Byte), NEW padded \in BOOLEAN, NEW size \in Int
  PROVE  LET result == base64_encode(bytes, size, padded)
             required == EncodeRequired(Len(bytes))
             total == IF padded THEN required ELSE CharLen(Len(bytes))
         IN  /\ size > required => result.status = SUCCESS
             /\ result.status = SUCCESS =>
                  /\ result.top < size
                  /\ result.out \in Seq(Int)
                  /\ Len(result.out) = total
                  /\ DOMAIN result.out = 1 .. total
                  /\ \A i \in 1 .. total : result.out[i] =
                       IF i > CharLen(Len(bytes)) THEN Pad ELSE Chars(bytes)[i]
<1> DEFINE required == EncodeRequired(Len(bytes))
           len == CharLen(Len(bytes))
           pads == Pads(bytes, padded)
           total == IF padded THEN required ELSE len
           chars == Chars(bytes)
           fill == [i \in 1 .. pads |-> Pad]
           result == base64_encode(bytes, size, padded)
<1>1. chars \in Seq(Int) /\ len \in Nat /\ Len(chars) = len
  BY CharsAre
<1>2. pads \in Nat /\ len <= required /\ len + pads = total
  BY PadsAre
<1>3. Len(bytes) \in Nat /\ required \in Int
  BY DEF EncodeRequired
<1>4. result = IF size < required THEN Failure(TOO_SMALL)
               ELSE IF len >= size \/ len + pads > size THEN Failure(ABORT)
               ELSE Success(chars \o fill, len + pads - 1)
  BY <1>1, EncodeIs
<1>5. fill \in Seq(Int) /\ Len(fill) = pads /\ \A i \in 1 .. pads : fill[i] = Pad
  BY <1>2 DEF Pad
<1> HIDE DEF result, fill, chars, pads, len, required
<1>6. total <= required /\ total \in Int
  BY <1>1, <1>2, <1>3
<1> HIDE DEF total
<1>7. size > required => result.status = SUCCESS
  <2>1. size > required => ~(size < required) /\ ~(len >= size) /\ ~(len + pads > size)
    BY <1>1, <1>2, <1>3, <1>6
  <2> QED
    BY <1>4, <2>1 DEF Success
<1>8. ASSUME result.status = SUCCESS
      PROVE  result = Success(chars \o fill, len + pads - 1) /\ len + pads <= size
  <2>1. \A s \in {TOO_SMALL, ABORT} : Failure(s).status # SUCCESS
    BY DEF Failure, TOO_SMALL, ABORT, SUCCESS
  <2>2. ~(size < required) /\ ~(len >= size \/ len + pads > size)
    BY <1>4, <1>8, <2>1
  <2>3. ~(len + pads > size) => len + pads <= size
    BY <1>1, <1>2
  <2> QED
    BY <1>4, <2>2, <2>3
<1>9. ASSUME result.status = SUCCESS
      PROVE  /\ result.top < size
             /\ result.out = chars \o fill
  BY <1>1, <1>2, <1>8, <1>9 DEF Success
<1>10. /\ chars \o fill \in Seq(Int) /\ Len(chars \o fill) = total
       /\ DOMAIN (chars \o fill) = 1 .. total
       /\ \A i \in 1 .. total : (chars \o fill)[i] = IF i > len THEN Pad ELSE chars[i]
  <2>1. /\ chars \o fill \in Seq(Int)
        /\ Len(chars \o fill) = len + pads
        /\ \A i \in 1 .. len : (chars \o fill)[i] = chars[i]
        /\ \A i \in 1 .. pads : (chars \o fill)[len + i] = fill[i]
    BY <1>1, <1>5, Joined
  <2> DEFINE out == chars \o fill
  <2>2. DOMAIN out = 1 .. Len(out)
    BY <2>1
  <2> HIDE DEF out
  <2>3. ASSUME NEW i \in 1 .. total
        PROVE  out[i] = IF i > len THEN Pad ELSE chars[i]
    <3>1. CASE i > len
      <4>1. i - len \in 1 .. pads /\ len + (i - len) = i
        BY <1>1, <1>2, <1>6, <3>1
      <4> QED
        BY <1>5, <2>1, <3>1, <4>1 DEF out
    <3>2. CASE ~(i > len)
      <4>1. i \in 1 .. len
        BY <1>1, <1>2, <1>6, <3>2
      <4> QED
        BY <2>1, <3>2, <4>1 DEF out
    <3> QED
      BY <3>1, <3>2
  <2> QED
    BY <1>2, <2>1, <2>2, <2>3 DEF out
<1> QED
  BY <1>7, <1>9, <1>10 DEF result, len, required, total, chars

-------------------------------------------------------------------------------
(* The result a behaviour keeps is the result of base64_encode for the     *)
(* data and the output buffer it keeps.                                    *)
EncodeInv ==
  /\ data \in Seq(Byte)
  /\ padding \in BOOLEAN
  /\ slack \in Int
  /\ encoded # None =>
       encoded = base64_encode(data, EncodeRequired(Len(data)) + slack, padding)

LEMMA EncodeInvariant == Spec => []EncodeInv
<1>1. Init => EncodeInv
  <2> SUFFICES ASSUME Init PROVE EncodeInv
    OBVIOUS
  <2>1. data \in Seq(Byte)
    <3>1. CASE kind = "base64"
      <4>1. PICK n \in 0 .. MaxData : data \in [1 .. n -> Sample]
        BY <3>1 DEF Init
      <4>2. n \in Nat
        OBVIOUS
      <4>3. data \in [1 .. n -> Byte]
        BY <4>1, SampleAssumption
      <4> QED
        BY <4>2, <4>3
    <3>2. CASE kind # "base64"
      BY <3>2 DEF Init
    <3> QED
      BY <3>1, <3>2
  <2>2. padding = FALSE /\ slack = 0 /\ encoded = None
    BY DEF Init
  <2>3. slack \in Int
    BY <2>2
  <2>4. padding \in BOOLEAN
    BY <2>2, Zenon
  <2> QED
    BY <2>1, <2>2, <2>3, <2>4, Zenon DEF EncodeInv
<1>2. EncodeInv /\ [Next]_vars => EncodeInv'
  <2> SUFFICES ASSUME EncodeInv, [Next]_vars
               PROVE  EncodeInv'
    OBVIOUS
  <2>1. CASE Encode
    <3>1. /\ slack' \in -1 .. MaxSlack /\ padding' \in BOOLEAN /\ data' = data
          /\ encoded' = base64_encode(data, EncodeRequired(Len(data)) + slack', padding')
      BY <2>1 DEF Encode
    <3>2. slack' \in Int
      BY <3>1
    <3> QED
      BY <3>1, <3>2 DEF EncodeInv
  <2>2. CASE Decode
    BY <2>2 DEF Decode, EncodeInv
  <2>3. CASE UNCHANGED base64Vars
    BY <2>3 DEF base64Vars, EncodeInv
  <2>4. CASE Pad64 \/ sha1_round \/ sha1_process_block
    BY <2>3, <2>4 DEF Pad64, sha1_round, sha1_process_block
  <2>5. CASE StartFill \/ FillWord \/ FillRest
    BY <2>3, <2>5 DEF StartFill, FillWord, FillRest
  <2>6. CASE UNCHANGED vars
    BY <2>3, <2>6 DEF vars
  <2> QED
    BY <2>1, <2>2, <2>4, <2>5, <2>6 DEF Next
<1> QED
  BY <1>1, <1>2, PTL DEF Spec

LEMMA ResultKept ==
  ASSUME EncodeInv, encoded # None
  PROVE  LET required == EncodeRequired(Len(data))
             total == IF padding THEN required ELSE CharLen(Len(data))
         IN  /\ slack > 0 => encoded.status = SUCCESS
             /\ encoded.status = SUCCESS =>
                  /\ encoded.top < required + slack
                  /\ encoded.out \in Seq(Int)
                  /\ Len(encoded.out) = total
                  /\ DOMAIN encoded.out = 1 .. total
                  /\ \A i \in 1 .. total : encoded.out[i] =
                       IF i > CharLen(Len(data)) THEN Pad ELSE Chars(data)[i]
<1> DEFINE required == EncodeRequired(Len(data))
           size == required + slack
<1>1. required \in Int /\ slack \in Int /\ data \in Seq(Byte) /\ padding \in BOOLEAN
  BY DEF EncodeInv, EncodeRequired
<1>2. encoded = base64_encode(data, size, padding)
  BY DEF EncodeInv
<1> HIDE DEF required
<1>3. size \in Int /\ (slack > 0 => size > required)
  BY <1>1
<1> HIDE DEF size
<1> QED
  BY <1>1, <1>2, <1>3, EncodeResult DEF required, size

(* base64_encode succeeds with one byte more than required, and stays      *)
(* inside the output buffer, for data of every length.                     *)
THEOREM Fits == Spec => []EncodeFits
<1>1. EncodeInv => EncodeFits
  BY ResultKept DEF EncodeFits
<1> QED
  BY <1>1, EncodeInvariant, PTL

(* Data of every length is encoded as RFC 4648 has it. *)
THEOREM TextIsStandard == Spec => []EncodesTheBits
<1>1. EncodeInv => EncodesTheBits
  <2> SUFFICES ASSUME EncodeInv, encoded.status = SUCCESS
               PROVE  /\ Len(encoded.out) =
                            IF padding THEN EncodeRequired(Len(data))
                            ELSE (4 * Len(data) + 2) \div 3
                      /\ \A i \in DOMAIN encoded.out :
                           encoded.out[i] =
                             IF i > (4 * Len(data) + 2) \div 3 THEN Pad
                             ELSE _base64_value_for_data(
                                    (Group(data, (i - 1) \div 4)
                                       \div 64 ^ (3 - ((i - 1) % 4))) % 64)
    BY DEF EncodesTheBits
  <2> DEFINE len == CharLen(Len(data))
             total == IF padding THEN EncodeRequired(Len(data)) ELSE len
  <2>1. encoded # None
    BY DEF None, Failure, SUCCESS
  <2>2. /\ Len(encoded.out) = total
        /\ DOMAIN encoded.out = 1 .. total
        /\ \A i \in 1 .. total : encoded.out[i] = IF i > len THEN Pad ELSE Chars(data)[i]
    BY <2>1, ResultKept
  <2>3. data \in Seq(Byte)
    BY DEF EncodeInv
  <2>4. /\ len \in Nat
        /\ \A i \in 1 .. len : Chars(data)[i] = _base64_value_for_data(Values(data)[i])
    BY <2>3, CharsAre
  <2>5. ASSUME NEW i \in 1 .. len
        PROVE  Values(data)[i] =
                 (Group(data, (i - 1) \div 4) \div 64 ^ (3 - ((i - 1) % 4))) % 64
    <3> DEFINE g == (i - 1) \div 4
               k == (i - 1) % 4
               b0 == ByteAt(data, g, 1)
               b1 == ByteAt(data, g, 2)
               b2 == ByteAt(data, g, 3)
    <3>1. g \in Nat /\ k \in 0 .. 3
      BY <2>4
    <3>2. Values(data)[i] = Quad(b0, b1, b2)[k + 1]
      BY <2>3, ValuesQuad
    <3> HIDE DEF g, k
    <3>3. b0 \in Byte /\ b1 \in Byte /\ b2 \in Byte
      BY <2>3, <3>1, ByteAtByte
    <3>4. Group(data, g) = Number(b0, b1, b2)
      BY DEF Group, ByteAt, Number
    <3> HIDE DEF b0, b1, b2
    <3>5. SixBits(Number(b0, b1, b2), k) = Quad(b0, b1, b2)[k + 1]
      BY <3>1, <3>3, QuadBits
    <3>6. Values(data)[i] = SixBits(Group(data, g), k)
      BY <3>2, <3>4, <3>5
    <3> QED
      BY <3>6 DEF g, k, SixBits
  <2> HIDE DEF len
  <2>6. ASSUME NEW i \in DOMAIN encoded.out
        PROVE  encoded.out[i] =
                 IF i > len THEN Pad
                 ELSE _base64_value_for_data(
                        (Group(data, (i - 1) \div 4) \div 64 ^ (3 - ((i - 1) % 4))) % 64)
    <3>1. CASE i > len
      BY <2>2, <3>1
    <3>2. CASE ~(i > len)
      <4>1. total \in Int
        BY <2>3, <2>4 DEF EncodeRequired
      <4>2. i \in 1 .. total
        BY <2>2
      <4> HIDE DEF total
      <4>3. i \in 1 .. len
        BY <2>4, <3>2, <4>1, <4>2
      <4> QED
        BY <2>2, <2>4, <2>5, <3>2, <4>2, <4>3
    <3> QED
      BY <3>1, <3>2
  <2>7. (4 * Len(data) + 2) \div 3 = len
    BY DEF len, CharLen
  <2> QED
    BY <2>2, <2>6, <2>7
<1> QED
  BY <1>1, EncodeInvariant, PTL

-------------------------------------------------------------------------------
(* What base64_decode returns, index by index.                             *)

Quadruple(text, g) == Tri(_base64_to_data(SubSeq(text, 4 * g + 1, 4 * g + 4)))

HeadBytes(text) ==
  [i \in 1 .. 3 * (Len(text) \div 4) |-> Quadruple(text, (i - 1) \div 3)[((i - 1) % 3) + 1]]

Remaining(text) == SubSeq(text, 4 * (Len(text) \div 4) + 1, Len(text))

LEMMA DecodeIs ==
  ASSUME NEW text, NEW size
  PROVE  base64_decode(text, size) =
           LET rest == Remaining(text)
               all == HeadBytes(text) \o DecodeTail(_base64_to_data(rest))
           IN  IF size < DecodeRequired(Len(text)) THEN Failure(TOO_SMALL)
               ELSE IF Len(rest) = 1 \/ 3 * (Len(text) \div 4) >= size THEN Failure(ABORT)
               ELSE IF Len(all) >= size THEN Failure(ABORT)
               ELSE Success(all, Len(all) + 1)
BY DEF base64_decode, Remaining, HeadBytes, Quadruple

LEMMA DataIs ==
  ASSUME NEW chars \in Seq(Int)
  PROVE  /\ _base64_to_data(chars) \in Seq(Int)
         /\ Len(_base64_to_data(chars)) = Len(chars)
         /\ \A j \in 1 .. Len(chars) :
              (\A x \in 1 .. j : chars[x] # Pad) =>
                 _base64_to_data(chars)[j] = Value(chars[j])
<1>1. \A c \in Int : Value(c) \in Int
  BY DEF Value
<1> DEFINE item(i) == IF \E j \in 1 .. i : chars[j] = Pad THEN chars[i] ELSE Value(chars[i])
<1>2. _base64_to_data(chars) = [i \in 1 .. Len(chars) |-> item(i)]
  BY DEF _base64_to_data
<1>3. ASSUME NEW i \in 1 .. Len(chars)
      PROVE  item(i) \in Int
  <2>1. chars[i] \in Int
    BY At
  <2> QED
    BY <1>1, <2>1
<1>4. ASSUME NEW j \in 1 .. Len(chars), \A x \in 1 .. j : chars[x] # Pad
      PROVE  item(j) = Value(chars[j])
  BY <1>4
<1> HIDE DEF item
<1>5. Len(chars) \in Nat
  OBVIOUS
<1> QED
  BY <1>2, <1>3, <1>4, <1>5

LEMMA PiecesAre ==
  ASSUME NEW text \in Seq(Int), NEW g \in Nat, NEW n \in 0 .. 4, 4 * g + n <= Len(text)
  PROVE  LET piece == SubSeq(text, 4 * g + 1, 4 * g + n)
         IN  /\ piece \in Seq(Int)
             /\ Len(piece) = n
             /\ \A j \in 1 .. n : piece[j] = text[4 * g + j]
OBVIOUS

LEMMA QuadSmall ==
  ASSUME NEW b0 \in Byte, NEW b1 \in Byte, NEW b2 \in Byte, NEW x \in 1 .. 4
  PROVE  Quad(b0, b1, b2)[x] \in 0 .. 63
<1>1. /\ b0 \div 4 \in 0 .. 63 /\ b0 % 4 \in 0 .. 3
      /\ b1 \div 16 \in 0 .. 15 /\ b1 % 16 \in 0 .. 15
      /\ b2 \div 64 \in 0 .. 3 /\ b2 % 64 \in 0 .. 63
  BY Split DEF Byte
<1>2. /\ (b0 % 4) * 16 + (b1 \div 16) \in 0 .. 63
      /\ (b1 % 16) * 4 + (b2 \div 64) \in 0 .. 63
  BY <1>1
<1>3. x = 1 \/ x = 2 \/ x = 3 \/ x = 4
  OBVIOUS
<1> QED
  BY <1>1, <1>2, <1>3 DEF Quad

LEMMA NoPad ==
  ASSUME NEW v \in 0 .. 63
  PROVE  _base64_value_for_data(v) # Pad
BY DEF _base64_value_for_data, Pad

LEMMA IntsIn ==
  ASSUME NEW v \in Seq(Int)
  PROVE  \A x \in 1 .. Len(v) : v[x] \in Int
OBVIOUS

LEMMA PartsAreInts ==
  ASSUME NEW a \in Int, NEW b \in Int
  PROVE  /\ ((a * 4) % 256) + (b \div 16) \in Int
         /\ (a * 16) % 256 \in Int
         /\ ((a * 16) % 256) + ((b \div 4) % 16) \in Int
         /\ ((a * 16) % 256) + ((b \div 4) % 4) \in Int
         /\ (a * 64) % 256 \in Int
         /\ ((a * 64) % 256) + b \in Int
OBVIOUS

LEMMA TwoInts ==
  ASSUME NEW a \in Int, NEW b \in Int
  PROVE  /\ <<a, b>> \in Seq(Int) /\ Len(<<a, b>>) = 2
         /\ \A c \in Int : <<a, b, c>> \in Seq(Int) /\ Len(<<a, b, c>>) = 3
OBVIOUS

LEMMA QuadrupleInt ==
  ASSUME NEW text \in Seq(Int), NEW g \in Nat, 4 * g + 4 <= Len(text), NEW m \in 1 .. 3
  PROVE  Quadruple(text, g)[m] \in Int
<1> DEFINE piece == SubSeq(text, 4 * g + 1, 4 * g + 4)
           v == _base64_to_data(piece)
<1>1. piece \in Seq(Int) /\ Len(piece) = 4
  <2>1. 4 \in 0 .. 4
    OBVIOUS
  <2> QED
    BY <2>1, PiecesAre
<1> HIDE DEF piece
<1>2. v \in Seq(Int) /\ Len(v) = 4
  BY <1>1, DataIs
<1> HIDE DEF v
<1>3. v[1] \in Int /\ v[2] \in Int /\ v[3] \in Int /\ v[4] \in Int
  <2>1. \A x \in 1 .. 4 : v[x] \in Int
    BY <1>2, IntsIn
  <2> QED
    BY <2>1
<1> DEFINE a == v[1]
           b == v[2]
           c == v[3]
           d == v[4]
<1> HIDE DEF a, b, c, d
<1>4. /\ ((a * 4) % 256) + (b \div 16) \in Int
      /\ ((b * 16) % 256) + ((c \div 4) % 16) \in Int
      /\ ((c * 64) % 256) + d \in Int
  <2>1. a \in Int /\ b \in Int /\ c \in Int /\ d \in Int
    BY <1>3 DEF a, b, c, d
  <2> QED
    BY <2>1, PartsAreInts
<1>5. m = 1 \/ m = 2 \/ m = 3
  OBVIOUS
<1> QED
  BY <1>4, <1>5, SMTT(40) DEF Quadruple, Tri, v, piece, a, b, c, d

(* The decoder's values of the characters of a piece of the text are the   *)
(* encoder's.                                                              *)
LEMMA PieceBack ==
  ASSUME NEW bytes \in Seq(Byte), NEW text \in Seq(Int),
         \A i \in 1 .. CharLen(Len(bytes)) : text[i] = Chars(bytes)[i],
         NEW g \in Nat, NEW n \in 0 .. 4, 4 * g + n <= Len(text),
         NEW j \in 1 .. n, 4 * g + j <= CharLen(Len(bytes))
  PROVE  _base64_to_data(SubSeq(text, 4 * g + 1, 4 * g + n))[j] =
           Quad(ByteAt(bytes, g, 1), ByteAt(bytes, g, 2), ByteAt(bytes, g, 3))[j]
<1> DEFINE piece == SubSeq(text, 4 * g + 1, 4 * g + n)
           len == CharLen(Len(bytes))
           quad == Quad(ByteAt(bytes, g, 1), ByteAt(bytes, g, 2), ByteAt(bytes, g, 3))
<1>1. /\ piece \in Seq(Int) /\ Len(piece) = n
      /\ \A x \in 1 .. n : piece[x] = text[4 * g + x]
  BY PiecesAre
<1>2. /\ len \in Nat
      /\ \A i \in 1 .. len : Chars(bytes)[i] = _base64_value_for_data(Values(bytes)[i])
  BY CharsAre
<1>3. \A x \in 1 .. 4 : quad[x] \in 0 .. 63
  <2>1. /\ ByteAt(bytes, g, 1) \in Byte /\ ByteAt(bytes, g, 2) \in Byte
        /\ ByteAt(bytes, g, 3) \in Byte
    BY ByteAtByte
  <2> QED
    BY <2>1, QuadSmall
<1>4. ASSUME NEW x \in 1 .. j
      PROVE  piece[x] = _base64_value_for_data(quad[x]) /\ x \in 1 .. 4
  <2> DEFINE i == 4 * g + x
  <2>1. /\ x \in 1 .. n /\ x \in 1 .. 4 /\ i \in 1 .. len
        /\ (i - 1) \div 4 = g /\ ((i - 1) % 4) + 1 = x
    <3>1. len \in Nat /\ 4 * g + j <= len
      BY <1>2
    <3> HIDE DEF len
    <3> DEFINE y == x - 1
    <3>2. /\ x \in 1 .. n /\ x \in 1 .. 4 /\ i \in 1 .. len
          /\ i - 1 = 4 * g + y /\ y \in Int /\ 0 <= y /\ y < 4 /\ y + 1 = x /\ g \in Int
      BY <3>1
    <3> HIDE DEF y, i
    <3>3. (4 * g + y) \div 4 = g /\ (4 * g + y) % 4 = y
      BY <3>2, By4
    <3> QED
      BY <3>2, <3>3
  <2>2. piece[x] = text[i] /\ text[i] = Chars(bytes)[i]
    BY <1>1, <2>1
  <2> HIDE DEF i
  <2>3. Values(bytes)[i] = quad[x]
    BY <2>1, ValuesQuad
  <2> QED
    BY <1>2, <2>1, <2>2, <2>3
<1> HIDE DEF piece, quad, len
<1>5. ASSUME NEW x \in 1 .. j
      PROVE  piece[x] # Pad
  <2>1. piece[x] = _base64_value_for_data(quad[x]) /\ quad[x] \in 0 .. 63
    BY <1>3, <1>4
  <2> QED
    BY <2>1, NoPad
<1>6. _base64_to_data(piece)[j] = Value(piece[j])
  <2>1. j \in 1 .. Len(piece)
    BY <1>1
  <2> QED
    BY <1>1, <1>5, <2>1, DataIs
<1>7. j \in 1 .. j
  OBVIOUS
<1>8. piece[j] = _base64_value_for_data(quad[j]) /\ quad[j] \in 0 .. 63
  BY <1>3, <1>4, <1>7
<1> QED
  BY <1>6, <1>8, ValueSurvives DEF piece, quad

(* What a text that is decoded leaves. *)
LEMMA DecodeResult ==
  ASSUME NEW text \in Seq(Int), NEW size \in Int,
         base64_decode(text, size).status = SUCCESS
  PROVE  LET out == base64_decode(text, size).out
             quads == Len(text) \div 4
             rest == DecodeTail(_base64_to_data(Remaining(text)))
         IN  /\ Len(Remaining(text)) = Len(text) % 4
             /\ Len(text) % 4 # 1
             /\ out \in Seq(Int)
             /\ Len(out) = 3 * quads + (Len(text) % 4)
             /\ \A i \in 1 .. 3 * quads :
                  out[i] = Quadruple(text, (i - 1) \div 3)[((i - 1) % 3) + 1]
             /\ \A i \in 1 .. Len(text) % 4 : out[3 * quads + i] = rest[i]
<1> DEFINE quads == Len(text) \div 4
           r == Len(text) % 4
           piece == Remaining(text)
           vals == _base64_to_data(piece)
           rest == DecodeTail(vals)
           head == HeadBytes(text)
           result == base64_decode(text, size)
<1>1. Len(text) \in Nat /\ quads \in Nat /\ r \in 0 .. 3 /\ Len(text) = 4 * quads + r
  OBVIOUS
<1>2. piece \in Seq(Int) /\ Len(piece) = r
  <2>1. piece = SubSeq(text, 4 * quads + 1, 4 * quads + r)
    BY <1>1 DEF Remaining
  <2> HIDE DEF quads, r, piece
  <2>2. r \in 0 .. 4 /\ 4 * quads + r <= Len(text)
    BY <1>1
  <2> QED
    BY <1>1, <2>1, <2>2, PiecesAre
<1>3. vals \in Seq(Int) /\ Len(vals) = r
  BY <1>2, DataIs
<1> HIDE DEF piece, vals
<1>4. result = IF size < DecodeRequired(Len(text)) THEN Failure(TOO_SMALL)
               ELSE IF r = 1 \/ 3 * quads >= size THEN Failure(ABORT)
               ELSE IF Len(head \o rest) >= size THEN Failure(ABORT)
               ELSE Success(head \o rest, Len(head \o rest) + 1)
  BY <1>2, DecodeIs DEF piece, vals
<1> HIDE DEF result, rest, head, quads, r
<1>5. \A s \in {TOO_SMALL, ABORT} : Failure(s).status # SUCCESS
  BY DEF Failure, TOO_SMALL, ABORT, SUCCESS
<1>6. r # 1 /\ result = Success(head \o rest, Len(head \o rest) + 1)
  <2>1. result.status = SUCCESS
    BY DEF result
  <2> QED
    BY <1>4, <1>5, <2>1
<1>7. result.out = head \o rest
  BY <1>6 DEF Success
<1>8. rest \in Seq(Int) /\ Len(rest) = r
  <2>1. CASE r = 0
    BY <1>3, <2>1 DEF DecodeTail, rest
  <2> DEFINE a == vals[1]
             b == vals[2]
             c == vals[3]
  <2>2. CASE r = 2
    <3>1. \A x \in 1 .. 2 : vals[x] \in Int
      BY <1>3, <2>2, IntsIn
    <3>2. a \in Int /\ b \in Int
      BY <3>1
    <3>3. rest = << ((a * 4) % 256) + (b \div 16), (b * 16) % 256 >>
      BY <1>3, <2>2 DEF DecodeTail, rest
    <3> HIDE DEF a, b
    <3>4. ((a * 4) % 256) + (b \div 16) \in Int /\ (b * 16) % 256 \in Int
      BY <3>2, PartsAreInts
    <3> QED
      BY <2>2, <3>3, <3>4, TwoInts
  <2>3. CASE r = 3
    <3>1. \A x \in 1 .. 3 : vals[x] \in Int
      BY <1>3, <2>3, IntsIn
    <3>2. a \in Int /\ b \in Int /\ c \in Int
      BY <3>1
    <3>3. rest = << ((a * 4) % 256) + (b \div 16), ((b * 16) % 256) + ((c \div 4) % 4),
                    (c * 64) % 256 >>
      BY <1>3, <2>3 DEF DecodeTail, rest
    <3> HIDE DEF a, b, c
    <3>4. /\ ((a * 4) % 256) + (b \div 16) \in Int
          /\ ((b * 16) % 256) + ((c \div 4) % 4) \in Int
          /\ (c * 64) % 256 \in Int
      BY <3>2, PartsAreInts
    <3> QED
      BY <2>3, <3>3, <3>4, TwoInts
  <2> QED
    BY <1>1, <1>6, <2>1, <2>2, <2>3
<1>9. /\ head \in Seq(Int) /\ Len(head) = 3 * quads
      /\ \A i \in 1 .. 3 * quads :
           head[i] = Quadruple(text, (i - 1) \div 3)[((i - 1) % 3) + 1]
  <2>1. head = [i \in 1 .. 3 * quads |-> Quadruple(text, (i - 1) \div 3)[((i - 1) % 3) + 1]]
    BY DEF head, HeadBytes, quads
  <2>2. ASSUME NEW i \in 1 .. 3 * quads
        PROVE  Quadruple(text, (i - 1) \div 3)[((i - 1) % 3) + 1] \in Int
    <3> DEFINE g == (i - 1) \div 3
               m == ((i - 1) % 3) + 1
    <3>1. g \in 0 .. quads - 1 /\ m \in 1 .. 3
      BY <1>1
    <3> HIDE DEF g, m
    <3>2. g \in Nat /\ 4 \in 0 .. 4 /\ 4 * g + 4 <= Len(text)
      BY <1>1, <3>1
    <3>3. Quadruple(text, g)[m] \in Int
      BY <3>1, <3>2, QuadrupleInt
    <3> QED
      BY <3>3 DEF g, m
  <2> QED
    BY <1>1, <2>1, <2>2
<1>10. /\ head \o rest \in Seq(Int)
       /\ Len(head \o rest) = Len(head) + Len(rest)
       /\ \A i \in 1 .. Len(head) : (head \o rest)[i] = head[i]
       /\ \A i \in 1 .. Len(rest) : (head \o rest)[Len(head) + i] = rest[i]
  BY <1>8, <1>9, Joined
<1> DEFINE out == head \o rest
<1> HIDE DEF out
<1>11. /\ out \in Seq(Int) /\ Len(out) = 3 * quads + r
       /\ \A i \in 1 .. 3 * quads :
            out[i] = Quadruple(text, (i - 1) \div 3)[((i - 1) % 3) + 1]
       /\ \A i \in 1 .. r : out[3 * quads + i] = rest[i]
  BY <1>8, <1>9, <1>10 DEF out
<1>12. result.out = out
  BY <1>7 DEF out
<1> QED
  BY <1>2, <1>6, <1>11, <1>12 DEF result, quads, r, rest, vals, piece

-------------------------------------------------------------------------------
(* Decoding what was encoded.                                              *)

(* A decoded byte takes its bits from two of the four values. *)
LEMMA TriBack ==
  ASSUME NEW b0 \in Byte, NEW b1 \in Byte, NEW b2 \in Byte, NEW v, NEW m \in 1 .. 3,
         v[m] = Quad(b0, b1, b2)[m], v[m + 1] = Quad(b0, b1, b2)[m + 1]
  PROVE  Tri(v)[m] = <<b0, b1, b2>>[m]
<1> DEFINE w == Quad(b0, b1, b2)
<1>1. Tri(w) = <<b0, b1, b2>>
  BY TripleSurvives
<1> HIDE DEF w
<1>2. v[m] = w[m] /\ v[m + 1] = w[m + 1]
  BY DEF w
<1>3. CASE m = 1
  <2>1. v[1] = w[1] /\ v[2] = w[2]
    BY <1>2, <1>3
  <2>2. Tri(v)[1] = Tri(w)[1]
    BY <2>1 DEF Tri
  <2> QED
    BY <1>1, <1>3, <2>2
<1>4. CASE m = 2
  <2>1. v[2] = w[2] /\ v[3] = w[3]
    BY <1>2, <1>4
  <2>2. Tri(v)[2] = Tri(w)[2]
    BY <2>1 DEF Tri
  <2> QED
    BY <1>1, <1>4, <2>2
<1>5. CASE m = 3
  <2>1. v[3] = w[3] /\ v[4] = w[4]
    BY <1>2, <1>5
  <2>2. Tri(v)[3] = Tri(w)[3]
    BY <2>1 DEF Tri
  <2> QED
    BY <1>1, <1>5, <2>2
<1> QED
  BY <1>3, <1>4, <1>5

LEMMA TailBack ==
  ASSUME NEW b0 \in Byte, NEW b1 \in Byte, NEW b2 \in Byte, NEW v, Len(v) = 2 \/ Len(v) = 3,
         v[1] = Quad(b0, b1, b2)[1], v[2] = Quad(b0, b1, b2)[2]
  PROVE  DecodeTail(v)[1] = b0
<1> DEFINE w == Quad(b0, b1, b2)
<1>1. Tri(w) = <<b0, b1, b2>>
  BY TripleSurvives
<1> HIDE DEF w
<1>2. v[1] = w[1] /\ v[2] = w[2]
  BY DEF w
<1>3. Tri(w)[1] = ((v[1] * 4) % 256) + (v[2] \div 16)
  BY <1>2 DEF Tri
<1>4. CASE Len(v) = 2
  BY <1>1, <1>3, <1>4 DEF DecodeTail
<1>5. CASE Len(v) = 3
  BY <1>1, <1>3, <1>5 DEF DecodeTail
<1> QED
  BY <1>4, <1>5

LEMMA Thirds ==
  ASSUME NEW i \in Nat \ {0}
  PROVE  (i - 1) \div 3 \in Nat /\ ((i - 1) % 3) + 1 \in 1 .. 3
         /\ i = 3 * ((i - 1) \div 3) + (((i - 1) % 3) + 1)
OBVIOUS

(* The text of these bytes, padded or not. *)
IsText(bytes, padded, text) ==
  /\ text \in Seq(Int)
  /\ Len(text) = IF padded THEN EncodeRequired(Len(bytes)) ELSE CharLen(Len(bytes))
  /\ \A i \in 1 .. CharLen(Len(bytes)) : text[i] = Chars(bytes)[i]

(* The bytes that are decoded from a text base64_encode returned. *)
LEMMA BytesBack ==
  ASSUME NEW bytes \in Seq(Byte), NEW padded, NEW text, IsText(bytes, padded, text),
         NEW size \in Int,
         base64_decode(text, size).status = SUCCESS
  PROVE  LET out == base64_decode(text, size).out
             kept == IF Len(bytes) % 3 = 2 /\ ~padded THEN Len(bytes) - 1 ELSE Len(bytes)
         IN  /\ out \in Seq(Int)
             /\ Len(out) >= Len(bytes)
             /\ Len(bytes) % 3 = 0 => Len(out) = Len(bytes)
             /\ \A i \in 1 .. kept : out[i] = bytes[i]
<1> DEFINE q == Len(bytes) \div 3
           r == Len(bytes) % 3
           len == CharLen(Len(bytes))
           out == base64_decode(text, size).out
           quads == Len(text) \div 4
           rr == Len(text) % 4
           rest == DecodeTail(_base64_to_data(Remaining(text)))
           kept == IF r = 2 /\ ~padded THEN Len(bytes) - 1 ELSE Len(bytes)
<1>1. Len(bytes) \in Nat /\ q \in Nat /\ r \in 0 .. 2 /\ Len(bytes) = 3 * q + r
  OBVIOUS
<1>2. /\ Len(Remaining(text)) = rr /\ rr # 1
      /\ out \in Seq(Int)
      /\ Len(out) = 3 * quads + rr
      /\ \A i \in 1 .. 3 * quads : out[i] = Quadruple(text, (i - 1) \div 3)[((i - 1) % 3) + 1]
      /\ \A i \in 1 .. rr : out[3 * quads + i] = rest[i]
  BY DecodeResult DEF IsText
<1>3. Len(text) \in Nat /\ quads \in Nat /\ Len(text) = 4 * quads + rr
  <2>1. text \in Seq(Int)
    BY DEF IsText
  <2> QED
    BY <2>1
<1>4. Remaining(text) = SubSeq(text, 4 * quads + 1, 4 * quads + rr)
  BY <1>3 DEF Remaining
<1> HIDE DEF q, r, out, rest
<1>5. /\ len = 4 * q + (IF r = 0 THEN 0 ELSE r + 1)
      /\ Len(text) = 4 * q + (IF r = 0 THEN 0 ELSE IF padded THEN 4 ELSE r + 1)
  <2>1. /\ len = 4 * q + (IF r = 0 THEN 0 ELSE r + 1)
        /\ EncodeRequired(Len(bytes)) = 4 * q + (IF r = 0 THEN 0 ELSE 4)
    BY <1>1, Lengths3
  <2>2. Len(text) = IF padded THEN EncodeRequired(Len(bytes)) ELSE len
    BY DEF IsText
  <2> HIDE DEF len
  <2> QED
    BY <1>1, <2>1, <2>2
<1>6. /\ quads = IF padded /\ r # 0 THEN q + 1 ELSE q
      /\ rr = IF padded \/ r = 0 THEN 0 ELSE r + 1
  <2> DEFINE a == IF padded /\ r # 0 THEN q + 1 ELSE q
             l == IF padded \/ r = 0 THEN 0 ELSE r + 1
  <2>1. Len(text) = 4 * a + l /\ a \in Int /\ l \in Int /\ 0 <= l /\ l < 4
    <3>1. CASE r = 0
      BY <1>1, <1>5, <3>1
    <3>2. CASE r # 0 /\ padded
      BY <1>1, <1>5, <3>2
    <3>3. CASE r # 0 /\ ~padded
      BY <1>1, <1>5, <3>3
    <3> QED
      BY <3>1, <3>2, <3>3
  <2> HIDE DEF a, l
  <2>2. (4 * a + l) \div 4 = a /\ (4 * a + l) % 4 = l
    BY <2>1, By4
  <2>3. Len(text) \div 4 = a /\ Len(text) % 4 = l
    BY <2>1, <2>2
  <2> QED
    BY <2>3 DEF a, l
<1> HIDE DEF quads, rr, len, kept
<1>7. ASSUME NEW i \in 1 .. kept
      PROVE  out[i] = bytes[i]
  <2> DEFINE g == (i - 1) \div 3
             m == ((i - 1) % 3) + 1
             b0 == ByteAt(bytes, g, 1)
             b1 == ByteAt(bytes, g, 2)
             b2 == ByteAt(bytes, g, 3)
             w == Quad(b0, b1, b2)
  <2>1. /\ i \in Nat \ {0} /\ i <= Len(bytes)
        /\ ~padded => i <= 3 * q + 1 \/ r = 0
    BY <1>1 DEF kept
  <2>2. g \in Nat /\ m \in 1 .. 3 /\ i = 3 * g + m
    BY <2>1, Thirds, Zenon
  <2> HIDE DEF g, m
  <2>3. g <= q /\ (g = q => m <= r /\ r # 0)
    BY <1>1, <2>1, <2>2
  <2>4. 4 * g + m + 1 <= len
    <3>1. CASE g = q
      BY <1>1, <1>5, <2>2, <2>3, <3>1
    <3>2. CASE g # q
      <4>1. g + 1 <= q
        BY <1>1, <2>2, <2>3, <3>2
      <4>2. 4 * g + m + 1 <= 4 * (g + 1)
        BY <2>2
      <4> QED
        BY <1>1, <1>5, <2>2, <4>1, <4>2
    <3> QED
      BY <3>1, <3>2
  <2>5. b0 \in Byte /\ b1 \in Byte /\ b2 \in Byte
    BY <2>2, ByteAtByte
  <2>6. <<b0, b1, b2>>[m] = bytes[i]
    <3>1. <<b0, b1, b2>>[m] = ByteAt(bytes, g, m)
      BY <2>2
    <3>2. 3 * g + m <= Len(bytes)
      BY <2>1, <2>2
    <3> QED
      BY <2>2, <3>1, <3>2 DEF ByteAt
  <2>7. CASE i <= 3 * quads
    <3> DEFINE v == _base64_to_data(SubSeq(text, 4 * g + 1, 4 * g + 4))
    <3>1. g + 1 <= quads
      BY <1>3, <2>2, <2>7
    <3>2. 4 \in 0 .. 4 /\ 4 * g + 4 <= Len(text)
      BY <1>1, <1>3, <1>6, <2>2, <3>1
    <3>3. m \in 1 .. 4 /\ m + 1 \in 1 .. 4 /\ 4 * g + m <= len /\ 4 * g + (m + 1) <= len
      BY <1>1, <1>5, <2>2, <2>4
    <3>4. v[m] = w[m] /\ v[m + 1] = w[m + 1]
      BY <2>2, <3>2, <3>3, PieceBack DEF len, IsText
    <3> HIDE DEF v, w, b0, b1, b2
    <3>5. Tri(v)[m] = <<b0, b1, b2>>[m]
      BY <2>2, <2>5, <3>4, TriBack DEF w
    <3>6. out[i] = Quadruple(text, g)[m]
      <4>1. i \in 1 .. 3 * quads
        BY <1>3, <2>1, <2>7
      <4> QED
        BY <1>2, <4>1 DEF g, m
    <3> QED
      BY <2>6, <3>5, <3>6 DEF Quadruple, v
  <2>8. CASE ~(i <= 3 * quads)
    <3> DEFINE v == _base64_to_data(SubSeq(text, 4 * g + 1, 4 * g + rr))
    <3>1. ~padded /\ r # 0 /\ quads = q /\ rr = r + 1
      <4>1. quads = q
        BY <1>1, <1>6, <2>1, <2>8
      <4>2. r # 0
        BY <1>1, <2>1, <2>8, <4>1
      <4> QED
        BY <1>1, <1>6, <4>1, <4>2
    <3>2. i = 3 * q + 1 /\ g = q /\ m = 1
      <4>1. i = 3 * q + 1
        BY <1>1, <2>1, <2>8, <3>1
      <4> QED
        BY <1>1, <2>2, <4>1
    <3>3. /\ rr \in 0 .. 4 /\ 4 * g + rr <= Len(text)
          /\ 1 \in 1 .. rr /\ 2 \in 1 .. rr /\ rr \in {2, 3}
          /\ 4 * g + 1 <= len /\ 4 * g + 2 <= len
      BY <1>1, <1>3, <1>5, <2>2, <2>4, <3>1, <3>2
    <3>4. v[1] = w[1] /\ v[2] = w[2]
      BY <2>2, <3>3, PieceBack DEF len, IsText
    <3>5. Len(v) = 2 \/ Len(v) = 3
      BY <2>2, <3>3, PiecesAre, DataIs DEF IsText
    <3>6. rest = DecodeTail(v)
      BY <1>4, <3>1, <3>2 DEF rest
    <3> HIDE DEF v, w, b0, b1, b2
    <3>7. DecodeTail(v)[1] = b0
      <4>1. v[1] = Quad(b0, b1, b2)[1] /\ v[2] = Quad(b0, b1, b2)[2]
        BY <3>4 DEF w
      <4> QED
        BY <2>5, <3>5, <4>1, TailBack
    <3>8. out[i] = rest[1]
      BY <1>2, <3>1, <3>2, <3>3
    <3>9. <<b0, b1, b2>>[m] = b0
      BY <3>2
    <3> QED
      BY <2>6, <3>6, <3>7, <3>8, <3>9
  <2> QED
    BY <2>7, <2>8
<1>8. Len(out) >= Len(bytes) /\ (r = 0 => Len(out) = Len(bytes))
  <2>1. CASE padded
    BY <1>1, <1>2, <1>6, <2>1
  <2>2. CASE ~padded
    BY <1>1, <1>2, <1>6, <2>2
  <2> QED
    BY <2>1, <2>2
<1> QED
  BY <1>2, <1>7, <1>8 DEF out, r, kept

(* So is the decoded result, for the text that is kept. *)
DecodeInv ==
  /\ EncodeInv
  /\ slack2 \in Int
  /\ decoded # None =>
       /\ encoded.status = SUCCESS
       /\ decoded = base64_decode(encoded.out, DecodeRequired(Len(encoded.out)) + slack2)

LEMMA DecodeStep ==
  ASSUME DecodeInv, EncodeInv', Next
  PROVE  DecodeInv'
<1>1. CASE Encode
  <2>1. encoded = None /\ decoded' = decoded /\ slack2' = slack2
    BY <1>1 DEF Encode
  <2>2. None.status # SUCCESS
    BY DEF None, Failure, SUCCESS
  <2>3. decoded = None
    BY <2>1, <2>2 DEF DecodeInv
  <2> QED
    BY <2>1, <2>3 DEF DecodeInv
<1>2. CASE Decode
  <2>1. /\ encoded.status = SUCCESS /\ encoded' = encoded
        /\ slack2' \in -1 .. MaxSlack
        /\ decoded' = base64_decode(encoded.out, DecodeRequired(Len(encoded.out)) + slack2')
    BY <1>2 DEF Decode
  <2>2. slack2' \in Int
    BY <2>1
  <2> QED
    BY <2>1, <2>2 DEF DecodeInv
<1>3. CASE UNCHANGED base64Vars
  BY <1>3 DEF base64Vars, DecodeInv
<1>4. CASE Pad64 \/ sha1_round \/ sha1_process_block
  BY <1>3, <1>4 DEF Pad64, sha1_round, sha1_process_block
<1>5. CASE StartFill \/ FillWord \/ FillRest
  BY <1>3, <1>5 DEF StartFill, FillWord, FillRest
<1> QED
  BY <1>1, <1>2, <1>4, <1>5 DEF Next

LEMMA DecodeInvariant == Spec => []DecodeInv
<1>1. Init /\ EncodeInv => DecodeInv
  <2> SUFFICES ASSUME Init, EncodeInv PROVE DecodeInv
    OBVIOUS
  <2>1. slack2 = 0 /\ decoded = None
    BY DEF Init
  <2>2. slack2 \in Int
    BY <2>1
  <2> QED
    BY <2>1, <2>2, Zenon DEF DecodeInv
<1>2. DecodeInv /\ EncodeInv' /\ [Next]_vars => DecodeInv'
  <2>1. ASSUME DecodeInv, EncodeInv', UNCHANGED vars
        PROVE  DecodeInv'
    BY <2>1 DEF DecodeInv, vars, base64Vars
  <2> QED
    BY <2>1, DecodeStep
<1> QED
  BY <1>1, <1>2, EncodeInvariant, PTL DEF Spec

LEMMA RoundTripHolds ==
  ASSUME DecodeInv, decoded.status = SUCCESS
  PROVE  RoundTrip
<1> DEFINE size == DecodeRequired(Len(encoded.out)) + slack2
           text == encoded.out
           kept == IF Len(data) % 3 = 2 /\ ~padding THEN Len(data) - 1 ELSE Len(data)
<1>1. decoded # None
  BY DEF None, Failure, SUCCESS
<1>2. encoded.status = SUCCESS /\ decoded = base64_decode(text, size)
  BY <1>1 DEF DecodeInv
<1>3. encoded # None
  BY <1>2 DEF None, Failure, SUCCESS
<1>4. data \in Seq(Byte) /\ slack2 \in Int /\ EncodeInv
  BY DEF DecodeInv, EncodeInv
<1>5. IsText(data, padding, text)
  <2> DEFINE len == CharLen(Len(data))
             total == IF padding THEN EncodeRequired(Len(data)) ELSE len
  <2>1. /\ text \in Seq(Int) /\ Len(text) = total
        /\ \A i \in 1 .. total : text[i] = IF i > len THEN Pad ELSE Chars(data)[i]
    BY <1>2, <1>3, <1>4, ResultKept
  <2>2. len \in Nat /\ len <= EncodeRequired(Len(data)) /\ EncodeRequired(Len(data)) \in Int
    <3>1. padding \in BOOLEAN
      BY <1>4 DEF EncodeInv
    <3>2. len \in Nat /\ len <= EncodeRequired(Len(data))
      BY <1>4, <3>1, CharsAre, PadsAre
    <3>3. EncodeRequired(Len(data)) \in Int
      BY <1>4 DEF EncodeRequired
    <3> QED
      BY <3>2, <3>3
  <2>3. ASSUME NEW i \in 1 .. len
        PROVE  text[i] = Chars(data)[i]
    <3> HIDE DEF len, text
    <3>1. i \in 1 .. total /\ ~(i > len)
      BY <2>2
    <3> QED
      BY <2>1, <3>1
  <2> QED
    BY <2>1, <2>3 DEF IsText
<1>6. size \in Int
  <2>1. text \in Seq(Int)
    BY <1>5 DEF IsText
  <2>2. Len(text) \in Nat
    BY <2>1
  <2> HIDE DEF text
  <2>3. DecodeRequired(Len(text)) \in Int
    BY <2>2 DEF DecodeRequired
  <2> QED
    BY <1>4, <2>3 DEF text
<1> HIDE DEF text, size
<1> DEFINE out == decoded.out
<1>7. /\ out \in Seq(Int)
      /\ Len(out) >= Len(data)
      /\ Len(data) % 3 = 0 => Len(out) = Len(data)
      /\ \A i \in 1 .. kept : out[i] = data[i]
  <2>1. base64_decode(text, size).status = SUCCESS
    BY <1>2
  <2> QED
    BY <1>2, <1>4, <1>5, <1>6, <2>1, BytesBack, SMTT(40)
<1> HIDE DEF out
<1>8. kept \in Int /\ kept <= Len(data) /\ kept >= 0
  BY <1>4
<1> HIDE DEF kept
<1>9. SubSeq(out, 1, kept) = SubSeq(data, 1, kept)
  <2>1. Len(data) \in Nat /\ Len(out) \in Nat
    BY <1>4, <1>7
  <2>2. kept <= Len(out)
    BY <1>7, <1>8, <2>1
  <2>3. SubSeq(out, 1, kept) = [i \in 1 .. kept |-> out[i]]
    BY <1>7, <1>8, <2>2
  <2>4. SubSeq(data, 1, kept) = [i \in 1 .. kept |-> data[i]]
    BY <1>4, <1>8
  <2>5. [i \in 1 .. kept |-> out[i]] = [i \in 1 .. kept |-> data[i]]
    BY <1>7
  <2> QED
    BY <2>3, <2>4, <2>5
<1> QED
  BY <1>7, <1>9 DEF RoundTrip, out, kept

(* Decoding what was encoded gives back every byte, except for the second  *)
(* byte of a rest of two bytes encoded without padding.                    *)
THEOREM Returned == Spec => []RoundTrip
<1>1. DecodeInv => RoundTrip
  BY RoundTripHolds DEF RoundTrip
<1> QED
  BY <1>1, DecodeInvariant, PTL

-------------------------------------------------------------------------------
(* Machine words.                                                          *)

LEMMA Picked == ASSUME NEW s, s # {} PROVE (CHOOSE x \in s : TRUE) \in s
OBVIOUS

(* A fold over some of the numbers 1 .. 8, as a sum written out.           *)
Entry(v, s, i) == IF i \in s THEN v[i] ELSE 0

Total(v, s) ==
  Entry(v, s, 1) + Entry(v, s, 2) + Entry(v, s, 3) + Entry(v, s, 4)
    + Entry(v, s, 5) + Entry(v, s, 6) + Entry(v, s, 7) + Entry(v, s, 8)

LEMMA TotalType ==
  ASSUME NEW v, \A i \in 1 .. 8 : v[i] \in Int, NEW s
  PROVE  Total(v, s) \in Int
<1>1. \A i \in 1 .. 8 : Entry(v, s, i) \in Int
  BY DEF Entry
<1> QED
  BY <1>1 DEF Total

LEMMA TotalWithout ==
  ASSUME NEW v, \A i \in 1 .. 8 : v[i] \in Int, NEW s, NEW x \in s, x \in 1 .. 8
  PROVE  Total(v, s) = v[x] + Total(v, s \ {x})
<1>1. \A i \in 1 .. 8 : Entry(v, s, i) \in Int
  BY DEF Entry
<1>2. \A i \in 1 .. 8 : Entry(v, s \ {x}, i) = IF i = x THEN 0 ELSE Entry(v, s, i)
  BY DEF Entry
<1>3. Entry(v, s, x) = v[x]
  BY DEF Entry
<1> QED
  BY <1>1, <1>2, <1>3 DEF Total

(* A set of numbers has a least one.                                       *)
LEMMA Least ==
  ASSUME NEW T, T \subseteq Nat, T # {}
  PROVE  \E n \in T : \A m \in T : n <= m
<1> DEFINE less == OpToRel(<, Nat)
<1>1. PICK n \in T : \A m \in T : ~(<<m, n>> \in less)
  <2>1. IsWellFoundedOn(less, Nat)
    BY NatLessThanWellFounded
  <2> QED
    BY <2>1, WFMin
<1>2. \A m \in Nat : m < n => <<m, n>> \in less
  BY DEF OpToRel
<1> HIDE DEF less
<1>3. \A m \in T : ~(m < n)
  BY <1>1, <1>2
<1> QED
  BY <1>3

(* Two functions of the subsets of a finite set that sum v the same way    *)
(* agree.                                                                  *)
Sums(v, S, f) ==
  \A s \in SUBSET S :
    f[s] = IF s = {} THEN 0 ELSE v[CHOOSE x \in s : TRUE] + f[s \ {CHOOSE x \in s : TRUE}]

LEMMA SumsAgree ==
  ASSUME NEW v, NEW S, IsFiniteSet(S), NEW f, NEW g, Sums(v, S, f), Sums(v, S, g)
  PROVE  f[S] = g[S]
<1> DEFINE Bad(n) == \E s \in SUBSET S : Cardinality(s) = n /\ f[s] # g[s]
           T == {n \in Nat : Bad(n)}
<1>1. \A s \in SUBSET S : IsFiniteSet(s) /\ Cardinality(s) \in Nat
  BY FS_Subset, FS_CardinalityType
<1>2. CASE T = {}
  <2>1. Cardinality(S) \in Nat /\ S \in SUBSET S
    BY <1>1
  <2> QED
    BY <1>2, <2>1
<1>3. CASE T # {}
  <2>1. PICK n \in T : \A m \in T : n <= m
    <3>1. T \subseteq Nat
      OBVIOUS
    <3> HIDE DEF T
    <3> QED
      BY <1>3, <3>1, Least
  <2>2. PICK s \in SUBSET S : Cardinality(s) = n /\ f[s] # g[s]
    BY <2>1
  <2> DEFINE x == CHOOSE y \in s : TRUE
             r == s \ {x}
  <2>3. s # {}
    BY <2>2 DEF Sums
  <2>4. x \in s
    BY <2>3, Picked
  <2>5. f[s] = v[x] + f[r] /\ g[s] = v[x] + g[r]
    BY <2>3 DEF Sums
  <2> HIDE DEF x
  <2>6. Cardinality(r) = n - 1 /\ r \in SUBSET S /\ Cardinality(r) \in Nat
    BY <1>1, <2>2, <2>4, FS_RemoveElement
  <2>7. f[r] # g[r]
    BY <2>2, <2>5
  <2>8. Cardinality(r) \in T
    BY <2>6, <2>7
  <2> HIDE DEF r, T
  <2>9. n \in Nat /\ n <= Cardinality(r)
    BY <2>1, <2>2, <2>8, <1>1
  <2> QED
    BY <2>6, <2>9
<1> QED
  BY <1>2, <1>3

(* The sum over every subset.                                              *)
Totals(v, S) == [s \in SUBSET S |-> Total(v, s)]

LEMMA TotalsSum ==
  ASSUME NEW v, \A i \in 1 .. 8 : v[i] \in Int, NEW S, S \subseteq 1 .. 8
  PROVE  Sums(v, S, Totals(v, S))
<1> DEFINE one(s) == CHOOSE x \in s : TRUE
           g == Totals(v, S)
<1>1. ASSUME NEW s \in SUBSET S, s # {}
      PROVE  g[s] = v[one(s)] + g[s \ {one(s)}]
  <2>1. one(s) \in s
    BY <1>1, Picked
  <2>2. one(s) \in 1 .. 8 /\ s \ {one(s)} \in SUBSET S
    BY <2>1
  <2> HIDE DEF one
  <2>3. g[s \ {one(s)}] = Total(v, s \ {one(s)}) /\ g[s] = Total(v, s)
    BY <2>2 DEF Totals
  <2> QED
    BY <2>1, <2>2, <2>3, TotalWithout
<1>2. g[{}] = 0
  BY DEF Totals, Total, Entry
<1> HIDE DEF g
<1> QED
  BY <1>1, <1>2 DEF Sums, g

LEMMA SumsToTotal ==
  ASSUME NEW v, \A i \in 1 .. 8 : v[i] \in Int, NEW S, S \subseteq 1 .. 8,
         NEW f, Sums(v, S, f)
  PROVE  f[S] = Total(v, S)
<1>1. IsFiniteSet(S)
  <2>1. 1 \in Int /\ 8 \in Int
    OBVIOUS
  <2>2. IsFiniteSet(1 .. 8)
    BY <2>1, FS_Interval
  <2> QED
    BY <2>2, FS_Subset
<1>2. Totals(v, S)[S] = Total(v, S)
  BY DEF Totals
<1> QED
  BY <1>1, <1>2, TotalsSum, SumsAgree

(* A column of a sum, one of a product, and a sum of numbers.              *)
SumColumn(x, k, S) == MapThenSumSet(LAMBDA i : x[i][k], S)

ProductColumn(x, y, k) == MapThenSumSet(LAMBDA i : x[i] * y[k + 1 - i], 1 .. k)

SumOf(x, S) == MapThenSumSet(LAMBDA i : x[i], S)

OfColumn(x, k, S, v) ==
  S \subseteq 1 .. 8 /\ (\A i \in 1 .. 8 : v[i] \in Int) /\ \A i \in S : v[i] = x[i][k]

LEMMA ColumnOfSum ==
  ASSUME NEW x, NEW k, NEW S, NEW v, OfColumn(x, k, S, v)
  PROVE  SumColumn(x, k, S) = Total(v, S)
<1>0. S \subseteq 1 .. 8 /\ (\A i \in 1 .. 8 : v[i] \in Int) /\ \A i \in S : v[i] = x[i][k]
  BY DEF OfColumn
<1> DEFINE one(s) == CHOOSE y \in s : TRUE
           iter[s \in SUBSET S] == IF s = {} THEN 0 ELSE x[one(s)][k] + iter[s \ {one(s)}]
<1>1. SumColumn(x, k, S) = iter[S]
  BY DEF SumColumn, MapThenSumSet, MapThenFoldSet
<1>2. \A s \in SUBSET S : s # {} => v[one(s)] = x[one(s)][k]
  BY <1>0, Picked
<1>3. \E f : f = [s \in SUBSET S |-> IF s = {} THEN 0 ELSE x[one(s)][k] + f[s \ {one(s)}]]
  <2> DEFINE g == Totals(v, S)
  <2>1. Sums(v, S, g) /\ g = [s \in SUBSET S |-> g[s]]
    BY <1>0, TotalsSum DEF Totals
  <2> HIDE DEF g, one
  <2>2. \A s \in SUBSET S : g[s] = IF s = {} THEN 0 ELSE x[one(s)][k] + g[s \ {one(s)}]
    BY <1>2, <2>1 DEF Sums, one
  <2> QED
    BY <2>1, <2>2, Zenon
<1>4. iter = [s \in SUBSET S |-> IF s = {} THEN 0 ELSE x[one(s)][k] + iter[s \ {one(s)}]]
  BY <1>3
<1> HIDE DEF iter
<1>5. Sums(v, S, iter)
  BY <1>2, <1>4 DEF Sums
<1> QED
  BY <1>0, <1>1, <1>5, SumsToTotal

LEMMA SumOfFunction ==
  ASSUME NEW x, NEW S, S \subseteq 1 .. 8,
         NEW v, \A i \in 1 .. 8 : v[i] \in Int, \A i \in S : v[i] = x[i]
  PROVE  SumOf(x, S) = Total(v, S)
<1> DEFINE one(s) == CHOOSE y \in s : TRUE
           iter[s \in SUBSET S] == IF s = {} THEN 0 ELSE x[one(s)] + iter[s \ {one(s)}]
<1>1. SumOf(x, S) = iter[S]
  BY DEF SumOf, MapThenSumSet, MapThenFoldSet
<1>2. \A s \in SUBSET S : s # {} => v[one(s)] = x[one(s)]
  BY Picked
<1>3. \E f : f = [s \in SUBSET S |-> IF s = {} THEN 0 ELSE x[one(s)] + f[s \ {one(s)}]]
  <2> DEFINE g == Totals(v, S)
  <2>1. Sums(v, S, g) /\ g = [s \in SUBSET S |-> g[s]]
    BY TotalsSum DEF Totals
  <2> HIDE DEF g, one
  <2>2. \A s \in SUBSET S : g[s] = IF s = {} THEN 0 ELSE x[one(s)] + g[s \ {one(s)}]
    BY <1>2, <2>1 DEF Sums, one
  <2> QED
    BY <2>1, <2>2, Zenon
<1>4. iter = [s \in SUBSET S |-> IF s = {} THEN 0 ELSE x[one(s)] + iter[s \ {one(s)}]]
  BY <1>3
<1> HIDE DEF iter
<1>5. Sums(v, S, iter)
  BY <1>2, <1>4 DEF Sums
<1> QED
  BY <1>1, <1>5, SumsToTotal

Multiplied(x, y, k, v) ==
  /\ 1 .. k \subseteq 1 .. 8
  /\ \A i \in 1 .. 8 : v[i] \in Int
  /\ \A i \in 1 .. k : v[i] = x[i] * y[k + 1 - i]

LEMMA ColumnOfProduct ==
  ASSUME NEW x, NEW y, NEW k, NEW v, Multiplied(x, y, k, v)
  PROVE  ProductColumn(x, y, k) = Total(v, 1 .. k)
<1> DEFINE S == 1 .. k
<1> DEFINE one(s) == CHOOSE z \in s : TRUE
           at(i) == x[i] * y[k + 1 - i]
           iter[s \in SUBSET S] == IF s = {} THEN 0 ELSE at(one(s)) + iter[s \ {one(s)}]
<1>1. ProductColumn(x, y, k) = iter[S]
  BY DEF ProductColumn, MapThenSumSet, MapThenFoldSet
<1>0. S \subseteq 1 .. 8 /\ (\A i \in 1 .. 8 : v[i] \in Int) /\ \A i \in S : v[i] = at(i)
  BY DEF Multiplied
<1> HIDE DEF S
<1>2. \A s \in SUBSET S : s # {} => v[one(s)] = at(one(s))
  BY <1>0, Picked
<1> HIDE DEF at
<1>3. \E f : f = [s \in SUBSET S |-> IF s = {} THEN 0 ELSE at(one(s)) + f[s \ {one(s)}]]
  <2> DEFINE g == Totals(v, S)
  <2>1. Sums(v, S, g) /\ g = [s \in SUBSET S |-> g[s]]
    BY <1>0, TotalsSum DEF Totals
  <2> HIDE DEF g, one
  <2>2. \A s \in SUBSET S : g[s] = IF s = {} THEN 0 ELSE at(one(s)) + g[s \ {one(s)}]
    BY <1>2, <2>1 DEF Sums, one
  <2> QED
    BY <2>1, <2>2, Zenon
<1>4. iter = [s \in SUBSET S |-> IF s = {} THEN 0 ELSE at(one(s)) + iter[s \ {one(s)}]]
  BY <1>3
<1> HIDE DEF iter
<1>5. Sums(v, S, iter)
  BY <1>2, <1>4 DEF Sums
<1> QED
  BY <1>0, <1>1, <1>5, SumsToTotal DEF S

Carry(c, n, f) == f = [k \in 0 .. n |-> IF k = 0 THEN 0 ELSE (c[k] + f[k - 1]) \div 256]

LEMMA CarryExists ==
  ASSUME NEW c, NEW n \in Nat
  PROVE  \E f : Carry(c, n, f)
<1> DEFINE T == {m \in Nat : ~\E f : Carry(c, m, f)}
<1>1. CASE T = {}
  BY <1>1
<1>2. CASE T # {}
  <2>1. PICK m \in T : \A l \in T : m <= l
    <3>1. T \subseteq Nat
      OBVIOUS
    <3> HIDE DEF T
    <3> QED
      BY <1>2, <3>1, Least
  <2>2. m \in Nat /\ ~\E f : Carry(c, m, f)
    BY <2>1
  <2>3. m # 0
    <3> SUFFICES ASSUME m = 0 PROVE FALSE
      OBVIOUS
    <3>1. Carry(c, 0, [k \in 0 .. 0 |-> 0])
      BY DEF Carry
    <3> QED
      BY <2>2, <3>1
  <2>4. m - 1 \in Nat /\ m - 1 \notin T
    <3>1. m - 1 \in Nat /\ m - 1 < m
      BY <2>2, <2>3
    <3> HIDE DEF T
    <3> QED
      BY <2>1, <2>2, <3>1
  <2>5. PICK g : Carry(c, m - 1, g)
    BY <2>4
  <2> DEFINE f == [k \in 0 .. m |-> IF k = m THEN (c[m] + g[m - 1]) \div 256 ELSE g[k]]
  <2>6. \A k \in 0 .. m - 1 : g[k] = IF k = 0 THEN 0 ELSE (c[k] + g[k - 1]) \div 256
    BY <2>5 DEF Carry
  <2>7. ASSUME NEW k \in 0 .. m
        PROVE  f[k] = IF k = 0 THEN 0 ELSE (c[k] + f[k - 1]) \div 256
    <3>1. CASE k = m
      <4>1. m - 1 \in 0 .. m /\ m - 1 # m
        BY <2>2, <2>3
      <4>2. f[m - 1] = g[m - 1]
        BY <4>1
      <4> QED
        BY <2>3, <3>1, <4>2
    <3>2. CASE k # m
      <4>1. k \in 0 .. m - 1 /\ f[k] = g[k]
        BY <2>2, <3>2
      <4>2. k # 0 => k - 1 \in 0 .. m /\ k - 1 # m
        BY <2>2, <3>2
      <4>3. k # 0 => f[k - 1] = g[k - 1]
        BY <4>2
      <4> QED
        BY <2>6, <4>1, <4>3
    <3> QED
      BY <3>1, <3>2
  <2>8. f = [k \in 0 .. m |-> f[k]]
    OBVIOUS
  <2> HIDE DEF f
  <2>9. Carry(c, m, f)
    BY <2>7, <2>8, Zenon DEF Carry
  <2> QED
    BY <2>2, <2>9
<1> QED
  BY <1>1, <1>2

LEMMA CarryStep ==
  ASSUME NEW c, NEW n \in Nat, NEW f, Carry(c, n, f)
  PROVE  f[0] = 0 /\ \A k \in 1 .. n : f[k] = (c[k] + f[k - 1]) \div 256
<1>1. \A k \in 0 .. n : f[k] = IF k = 0 THEN 0 ELSE (c[k] + f[k - 1]) \div 256
  BY DEF Carry
<1>2. 0 \in 0 .. n /\ \A k \in 1 .. n : k \in 0 .. n /\ k # 0
  OBVIOUS
<1> QED
  BY <1>1, <1>2

LEMMA By256 ==
  ASSUME NEW x \in Nat
  PROVE  x % 256 \in 0 .. 255 /\ x = (x % 256) + 256 * (x \div 256)
OBVIOUS

(* The carries are numbers. *)
LEMMA CarryType ==
  ASSUME NEW c, NEW n \in Nat, \A k \in 1 .. n : c[k] \in Nat, NEW f, Carry(c, n, f)
  PROVE  \A k \in 0 .. n : f[k] \in Nat
<1> DEFINE T == {k \in 0 .. n : f[k] \notin Nat}
<1>1. \A k \in 0 .. n : f[k] = IF k = 0 THEN 0 ELSE (c[k] + f[k - 1]) \div 256
  BY DEF Carry
<1>2. CASE T # {}
  <2>1. PICK m \in T : \A l \in T : m <= l
    <3>1. T \subseteq Nat
      OBVIOUS
    <3> HIDE DEF T
    <3> QED
      BY <1>2, <3>1, Least
  <2>2. m \in 0 .. n /\ f[m] \notin Nat
    BY <2>1
  <2>3. m # 0
    BY <1>1, <2>2
  <2>4. m - 1 \in 0 .. n /\ m - 1 \notin T
    <3>1. m - 1 \in 0 .. n /\ ~(m <= m - 1)
      BY <2>2, <2>3
    <3> HIDE DEF T
    <3> QED
      BY <2>1, <3>1
  <2>5. f[m - 1] \in Nat /\ c[m] \in Nat
    BY <2>2, <2>3, <2>4
  <2>6. (c[m] + f[m - 1]) \div 256 \in Nat
    BY <2>5
  <2> QED
    BY <1>1, <2>2, <2>3, <2>6
<1> QED
  BY <1>2

(* The bytes of the word Carried returns, and the carries between them.    *)
Steps(c, n, d, f) ==
  /\ d \in [1 .. n -> 0 .. 255]
  /\ f[0] = 0
  /\ \A k \in 0 .. n : f[k] \in Nat
  /\ \A k \in 1 .. n : c[k] + f[k - 1] = d[k] + 256 * f[k]

LEMMA CarriedSteps ==
  ASSUME NEW n \in Nat, NEW c, c = [k \in 1 .. n |-> c[k]], \A k \in 1 .. n : c[k] \in Nat
  PROVE  \E d, f : Carried(c) = Word(d) /\ Steps(c, n, d, f)
<1>1. Len(c) = n /\ DOMAIN c = 1 .. n
  <2>1. c \in Seq(Nat)
    OBVIOUS
  <2> QED
    OBVIOUS
<1> DEFINE carry[k \in 0 .. Len(c)] ==
             IF k = 0 THEN 0 ELSE (c[k] + carry[k - 1]) \div 256
           b == [k \in DOMAIN c |-> (c[k] + carry[k - 1]) % 256]
<1>2. Carried(c) = Word(b)
  BY Zenon DEF Carried
<1>3. Carry(c, n, carry)
  <2>1. \E f : f = [k \in 0 .. Len(c) |-> IF k = 0 THEN 0 ELSE (c[k] + f[k - 1]) \div 256]
    <3>1. \E f : Carry(c, Len(c), f)
      BY <1>1, CarryExists
    <3> QED
      BY <3>1, Zenon DEF Carry
  <2>2. carry = [k \in 0 .. Len(c) |-> IF k = 0 THEN 0 ELSE (c[k] + carry[k - 1]) \div 256]
    BY <2>1
  <2> HIDE DEF carry
  <2> QED
    BY <1>1, <2>2, Zenon DEF Carry
<1> HIDE DEF carry
<1>4. \A k \in 0 .. n : carry[k] \in Nat
  BY <1>3, CarryType
<1>5. carry[0] = 0 /\ \A k \in 1 .. n : carry[k] = (c[k] + carry[k - 1]) \div 256
  BY <1>3, CarryStep
<1>6. ASSUME NEW k \in 1 .. n
      PROVE  b[k] \in 0 .. 255 /\ c[k] + carry[k - 1] = b[k] + 256 * carry[k]
  <2>1. k - 1 \in 0 .. n
    OBVIOUS
  <2>2. b[k] = (c[k] + carry[k - 1]) % 256 /\ carry[k] = (c[k] + carry[k - 1]) \div 256
    BY <1>1, <1>5
  <2>3. c[k] + carry[k - 1] \in Nat
    BY <1>4, <2>1
  <2> HIDE DEF b
  <2> QED
    <3> DEFINE x == c[k] + carry[k - 1]
    <3>1. x % 256 \in 0 .. 255 /\ x = (x % 256) + 256 * (x \div 256)
      BY <2>3, By256
    <3> HIDE DEF x
    <3>2. b[k] = x % 256 /\ carry[k] = x \div 256
      BY <2>2 DEF x
    <3> QED
      BY <3>1, <3>2 DEF x
<1>7. b \in [1 .. n -> 0 .. 255]
  BY <1>1, <1>6
<1> HIDE DEF b
<1>8. \A k \in 1 .. n : c[k] + carry[k - 1] = b[k] + 256 * carry[k]
  BY <1>6
<1>9. Steps(c, n, b, carry)
  BY <1>4, <1>5, <1>7, <1>8 DEF Steps
<1> QED
  BY <1>2, <1>9, Zenon

LEMMA Powers ==
  /\ 2 ^ 0 = 1 /\ 2 ^ 1 = 2 /\ 2 ^ 2 = 4 /\ 2 ^ 3 = 8
  /\ 2 ^ 4 = 16 /\ 2 ^ 5 = 32 /\ 2 ^ 6 = 64 /\ 2 ^ 7 = 128
OBVIOUS

LEMMA BitsOfByte ==
  ASSUME NEW d \in 0 .. 255
  PROVE  d = ((d \div 1) % 2) + 2 * ((d \div 2) % 2) + 4 * ((d \div 4) % 2)
             + 8 * ((d \div 8) % 2) + 16 * ((d \div 16) % 2)
             + 32 * ((d \div 32) % 2) + 64 * ((d \div 64) % 2)
             + 128 * ((d \div 128) % 2)
OBVIOUS

LEMMA BitIs ==
  ASSUME NEW d \in Int, NEW j \in 0 .. 7
  PROVE  (d \div 2 ^ j) % 2 \in {0, 1}
<1>1. j \in {0, 1, 2, 3, 4, 5, 6, 7}
  OBVIOUS
<1> QED
  BY <1>1, Powers

LEMMA By8 ==
  ASSUME NEW n \in Nat, NEW i \in 1 .. 8 * n
  PROVE  (i - 1) % 8 \in 0 .. 7 /\ ((i - 1) \div 8) + 1 \in 1 .. n
OBVIOUS

LEMMA By8At ==
  ASSUME NEW k \in Nat, NEW j \in 0 .. 7
  PROVE  ((8 * k + j) \div 8) = k /\ (8 * k + j) % 8 = j
OBVIOUS

(* The words of n bytes, and the sequences of n bytes.                     *)
Bits(n) == [1 .. 8 * n -> {0, 1}]
Octets(n) == [1 .. n -> 0 .. 255]

LEMMA WordType ==
  ASSUME NEW n \in Nat, NEW d \in [1 .. n -> Int]
  PROVE  /\ Word(d) \in Bits(n)
         /\ \A i \in 1 .. 8 * n :
              Word(d)[i] = (d[((i - 1) \div 8) + 1] \div 2 ^ ((i - 1) % 8)) % 2
<1>1. Len(d) = n
  <2>1. d \in Seq(Int)
    OBVIOUS
  <2> QED
    BY <2>1
<1> DEFINE bit(i) == (d[((i - 1) \div 8) + 1] \div 2 ^ ((i - 1) % 8)) % 2
<1>2. Word(d) = [i \in 1 .. 8 * n |-> bit(i)]
  BY <1>1 DEF Word
<1>3. ASSUME NEW i \in 1 .. 8 * n
      PROVE  bit(i) \in {0, 1}
  <2>1. (i - 1) % 8 \in 0 .. 7 /\ ((i - 1) \div 8) + 1 \in 1 .. n
    BY By8
  <2>2. d[((i - 1) \div 8) + 1] \in Int
    BY <2>1
  <2> QED
    BY <2>1, <2>2, BitIs
<1> HIDE DEF bit
<1>4. Word(d) \in Bits(n) /\ \A i \in 1 .. 8 * n : Word(d)[i] = bit(i)
  BY <1>2, <1>3 DEF Bits
<1> QED
  BY <1>4 DEF bit

(* The number eight bits make. *)
OctetOf(a, k) ==
  a[8 * (k - 1) + 1] + 2 * a[8 * (k - 1) + 2] + 4 * a[8 * (k - 1) + 3]
    + 8 * a[8 * (k - 1) + 4] + 16 * a[8 * (k - 1) + 5] + 32 * a[8 * (k - 1) + 6]
    + 64 * a[8 * (k - 1) + 7] + 128 * a[8 * (k - 1) + 8]

LEMMA BytesAre ==
  ASSUME NEW n \in Nat, NEW a \in Bits(n)
  PROVE  /\ Bytes(a) = [k \in 1 .. n |-> OctetOf(a, k)]
         /\ Bytes(a) \in Octets(n)
<1>1. Len(a) = 8 * n /\ (8 * n) \div 8 = n
  <2>1. a \in Seq({0, 1}) /\ 8 * n \in Nat
    BY DEF Bits
  <2> QED
    BY <2>1 DEF Bits
<1>2. Bytes(a) = [k \in 1 .. n |-> OctetOf(a, k)]
  BY <1>1 DEF Bytes, OctetOf
<1>3. ASSUME NEW k \in 1 .. n
      PROVE  OctetOf(a, k) \in 0 .. 255
  <2>1. \A j \in 1 .. 8 : 8 * (k - 1) + j \in 1 .. 8 * n
    OBVIOUS
  <2>2. \A j \in 1 .. 8 : a[8 * (k - 1) + j] \in {0, 1}
    BY <2>1 DEF Bits
  <2> DEFINE at(j) == a[8 * (k - 1) + j]
  <2>3. OctetOf(a, k) = at(1) + 2 * at(2) + 4 * at(3) + 8 * at(4)
                          + 16 * at(5) + 32 * at(6) + 64 * at(7) + 128 * at(8)
    BY DEF OctetOf
  <2>4. \A j \in 1 .. 8 : at(j) \in {0, 1}
    BY <2>2
  <2> HIDE DEF at
  <2> QED
    BY <2>3, <2>4
<1>4. [k \in 1 .. n |-> OctetOf(a, k)] \in Octets(n)
  BY <1>3 DEF Octets
<1> QED
  BY <1>2, <1>4, Zenon

(* A word made of bytes has these bytes.                                   *)
LEMMA BytesOfWord ==
  ASSUME NEW n \in Nat, NEW d \in Octets(n)
  PROVE  Word(d) \in Bits(n) /\ Bytes(Word(d)) = d
<1> DEFINE a == Word(d)
<1>1. d \in [1 .. n -> Int]
  <2>1. d = [k \in 1 .. n |-> d[k]] /\ \A k \in 1 .. n : d[k] \in 0 .. 255
    BY DEF Octets
  <2>2. ASSUME NEW k \in 1 .. n PROVE d[k] \in Int
    <3>1. d[k] \in 0 .. 255
      BY <2>1
    <3> QED
      BY <3>1
  <2> QED
    BY <2>1, <2>2
<1>2. /\ a \in Bits(n)
      /\ \A i \in 1 .. 8 * n :
           a[i] = (d[((i - 1) \div 8) + 1] \div 2 ^ ((i - 1) % 8)) % 2
  BY <1>1, WordType
<1> HIDE DEF a
<1>3. Bytes(a) = [k \in 1 .. n |-> OctetOf(a, k)]
  BY <1>2, BytesAre
<1>4. ASSUME NEW k \in 1 .. n
      PROVE  OctetOf(a, k) = d[k]
  <2>1. ASSUME NEW j \in 0 .. 7
        PROVE  a[8 * (k - 1) + (j + 1)] = (d[k] \div 2 ^ j) % 2
    <3> DEFINE i == 8 * (k - 1) + (j + 1)
    <3>1. i \in 1 .. 8 * n /\ i - 1 = 8 * (k - 1) + j /\ k - 1 \in Nat
      OBVIOUS
    <3> HIDE DEF i
    <3>2. (i - 1) \div 8 = k - 1 /\ (i - 1) % 8 = j
      BY <3>1, By8At
    <3>3. ((i - 1) \div 8) + 1 = k
      BY <3>2
    <3> QED
      BY <1>2, <3>1, <3>2, <3>3 DEF i
  <2> DEFINE v == d[k]
             at(j) == a[8 * (k - 1) + j]
  <2>2. v \in 0 .. 255
    BY DEF Octets
  <2>3. /\ at(1) = (v \div 1) % 2 /\ at(2) = (v \div 2) % 2
        /\ at(3) = (v \div 4) % 2 /\ at(4) = (v \div 8) % 2
        /\ at(5) = (v \div 16) % 2 /\ at(6) = (v \div 32) % 2
        /\ at(7) = (v \div 64) % 2 /\ at(8) = (v \div 128) % 2
    <3> DEFINE m(j) == (v \div 2 ^ j) % 2
    <3>1. \A j \in 0 .. 7 : at(j + 1) = m(j)
      BY <2>1
    <3>2. /\ at(1) = m(0) /\ at(2) = m(1) /\ at(3) = m(2) /\ at(4) = m(3)
          /\ at(5) = m(4) /\ at(6) = m(5) /\ at(7) = m(6) /\ at(8) = m(7)
      <4> HIDE DEF at, m
      <4> QED
        BY <3>1
    <3> HIDE DEF at, v
    <3> QED
      BY <3>2, Powers
  <2>4. OctetOf(a, k) = at(1) + 2 * at(2) + 4 * at(3) + 8 * at(4)
                          + 16 * at(5) + 32 * at(6) + 64 * at(7) + 128 * at(8)
    BY DEF OctetOf
  <2> HIDE DEF at, v
  <2>5. OctetOf(a, k) = v
    BY <2>2, <2>3, <2>4, BitsOfByte
  <2> QED
    BY <2>5 DEF v
<1>5. Bytes(a) = [k \in 1 .. n |-> d[k]]
  BY <1>3, <1>4
<1>6. d = [k \in 1 .. n |-> d[k]]
  BY DEF Octets
<1> QED
  BY <1>2, <1>5, <1>6 DEF a

(* The number eight bytes, or the first four of them, are in memory.       *)
Joined4(b, k) == b[k] + 256 * (b[k + 1] + 256 * (b[k + 2] + 256 * b[k + 3]))

Mod32 == 256 * (256 * (256 * 256))

Unsigned32(b) == Joined4(b, 1)
Unsigned64(b) == Joined4(b, 1) + Mod32 * Joined4(b, 5)

LEMMA Rest ==
  ASSUME NEW m \in Nat, NEW r \in Nat, r < m, NEW q \in Nat
  PROVE  (r + m * q) % m = r
OBVIOUS

(* The ith addend of a sum of words, or nothing: its bytes.                *)
Addend(words, n, i) ==
  [k \in 1 .. n |-> IF i \in DOMAIN words THEN Bytes(words[i])[k] ELSE 0]

Column(words, n) ==
  [k \in 1 .. n |-> Total([i \in 1 .. 8 |-> Addend(words, n, i)[k]], DOMAIN words)]

LEMMA AddendType ==
  ASSUME NEW n \in Nat, NEW m \in 1 .. 8, NEW words \in [1 .. m -> Bits(n)]
  PROVE  \A i \in 1 .. 8 : \A k \in 1 .. n : Addend(words, n, i)[k] \in 0 .. 255
<1> SUFFICES ASSUME NEW i \in 1 .. 8, NEW k \in 1 .. n
             PROVE  Addend(words, n, i)[k] \in 0 .. 255
  OBVIOUS
<1>1. CASE i \in DOMAIN words
  <2>1. words[i] \in Bits(n)
    BY <1>1
  <2>2. Bytes(words[i]) \in Octets(n)
    BY <2>1, BytesAre
  <2>3. Bytes(words[i])[k] \in 0 .. 255
    BY <2>2 DEF Octets
  <2> QED
    BY <1>1, <2>3 DEF Addend
<1>2. CASE i \notin DOMAIN words
  BY <1>2 DEF Addend
<1> QED
  BY <1>1, <1>2

LEMMA OctetIsNat == \A x \in 0 .. 255 : x \in Nat
OBVIOUS

LEMMA TotalNat ==
  ASSUME NEW v, \A i \in 1 .. 8 : v[i] \in Nat, NEW s
  PROVE  Total(v, s) \in Nat
<1>1. \A i \in 1 .. 8 : Entry(v, s, i) \in Nat
  BY DEF Entry
<1> QED
  BY <1>1 DEF Total

(* The columns are added, and what does not fit a byte is carried.         *)
LEMMA PlusSteps ==
  ASSUME NEW n \in Nat, NEW m \in 1 .. 8, NEW words \in [1 .. m -> Bits(n)]
  PROVE  /\ \A k \in 1 .. n :
              /\ Column(words, n)[k] \in Nat
              /\ Column(words, n)[k] =
                   Addend(words, n, 1)[k] + Addend(words, n, 2)[k]
                     + Addend(words, n, 3)[k] + Addend(words, n, 4)[k]
                     + Addend(words, n, 5)[k] + Addend(words, n, 6)[k]
                     + Addend(words, n, 7)[k] + Addend(words, n, 8)[k]
         /\ \E d, f : Plus(words) = Word(d) /\ Steps(Column(words, n), n, d, f)
<1> DEFINE x == [i \in DOMAIN words |-> Bytes(words[i])]
           c == Column(words, n)
           v(k) == [i \in 1 .. 8 |-> Addend(words, n, i)[k]]
<1>1. DOMAIN words = 1 .. m /\ 1 \in 1 .. m /\ 1 .. m \subseteq 1 .. 8
  OBVIOUS
<1>2. ASSUME NEW k \in 1 .. n, NEW i \in 1 .. 8
      PROVE  /\ Addend(words, n, i)[k] \in Nat
             /\ i \in 1 .. m => Addend(words, n, i)[k] = x[i][k]
             /\ i \notin 1 .. m => Addend(words, n, i)[k] = 0
  <2>1. Addend(words, n, i)[k] \in Nat
    BY AddendType, OctetIsNat
  <2> QED
    BY <1>1, <2>1 DEF Addend
<1>3. DOMAIN x[1] = 1 .. n
  <2>1. words[1] \in Bits(n) /\ x[1] = Bytes(words[1])
    BY <1>1
  <2> HIDE DEF x
  <2> QED
    BY <2>1, BytesAre DEF Octets
<1>4. ASSUME NEW k \in 1 .. n
      PROVE  /\ SumColumn(x, k, 1 .. m) = c[k]
             /\ c[k] = Total(v(k), 1 .. m)
  <2>1. ASSUME NEW i \in 1 .. 8 PROVE v(k)[i] \in Int
    <3>1. v(k)[i] \in Nat
      BY <1>2
    <3> QED
      BY <3>1
  <2>2. \A i \in 1 .. m : v(k)[i] = x[i][k]
    BY <1>1, <1>2
  <2>3. c[k] = Total(v(k), 1 .. m)
    BY <1>1 DEF Column
  <2> DEFINE S == 1 .. m
             u == v(k)
  <2>4. S \subseteq 1 .. 8 /\ (\A i \in 1 .. 8 : u[i] \in Int) /\ \A i \in S : u[i] = x[i][k]
    BY <1>1, <2>1, <2>2
  <2> HIDE DEF u, x, c, S
  <2>5. SumColumn(x, k, S) = Total(u, S)
    <3>1. OfColumn(x, k, S, u)
      BY <2>4 DEF OfColumn
    <3> QED
      BY <3>1, ColumnOfSum, Zenon
  <2> QED
    BY <2>3, <2>5 DEF u, S
<1>5. ASSUME NEW k \in 1 .. n
      PROVE  /\ c[k] \in Nat
             /\ c[k] = Addend(words, n, 1)[k] + Addend(words, n, 2)[k]
                         + Addend(words, n, 3)[k] + Addend(words, n, 4)[k]
                         + Addend(words, n, 5)[k] + Addend(words, n, 6)[k]
                         + Addend(words, n, 7)[k] + Addend(words, n, 8)[k]
  <2> DEFINE a(i) == Addend(words, n, i)[k]
  <2>1. \A i \in 1 .. 8 : Entry(v(k), 1 .. m, i) = a(i) /\ a(i) \in Nat
    BY <1>2 DEF Entry
  <2>2. c[k] = Total(v(k), 1 .. m)
    BY <1>4
  <2>4. c[k] \in Nat
    <3>1. \A i \in 1 .. 8 : v(k)[i] \in Nat
      BY <1>2
    <3> QED
      BY <2>2, <3>1, TotalNat, Zenon
  <2> HIDE DEF v, a, c
  <2>3. c[k] = a(1) + a(2) + a(3) + a(4) + a(5) + a(6) + a(7) + a(8)
    BY <2>1, <2>2 DEF Total
  <2> QED
    BY <2>3, <2>4 DEF a
<1>6. Plus(words) = Carried([k \in DOMAIN x[1] |-> SumColumn(x, k, DOMAIN x)])
  BY Zenon DEF Plus, SumColumn
<1>7. c = [k \in 1 .. n |-> c[k]]
  BY DEF Column
<1>8. Plus(words) = Carried(c)
  <2>1. DOMAIN x = 1 .. m
    BY <1>1
  <2> DEFINE sum(k) == SumColumn(x, k, 1 .. m)
  <2>2. Plus(words) = Carried([k \in 1 .. n |-> sum(k)])
    BY <1>3, <1>6, <2>1, Zenon
  <2>3. \A k \in 1 .. n : sum(k) = c[k]
    BY <1>4
  <2> HIDE DEF sum, c
  <2>4. [k \in 1 .. n |-> sum(k)] = c
    BY <1>7, <2>3
  <2> QED
    BY <2>2, <2>4
<1> HIDE DEF c
<1>9. \E d, f : Carried(c) = Word(d) /\ Steps(c, n, d, f)
  BY <1>5, <1>7, CarriedSteps
<1> QED
  BY <1>5, <1>8, <1>9 DEF c

(* Column k of c is the sum of the columns k of p[1], ..., p[8].           *)
AddsUp(p, c, k) ==
  /\ \A i \in 1 .. 8 : p[i][k] \in Int
  /\ c[k] = p[1][k] + p[2][k] + p[3][k] + p[4][k] + p[5][k] + p[6][k] + p[7][k] + p[8][k]

LEMMA Added ==
  ASSUME NEW p, NEW c, NEW k, AddsUp(p, c, k)
  PROVE  /\ p[1][k] \in Int /\ p[2][k] \in Int /\ p[3][k] \in Int /\ p[4][k] \in Int
         /\ p[5][k] \in Int /\ p[6][k] \in Int /\ p[7][k] \in Int /\ p[8][k] \in Int
         /\ c[k] = p[1][k] + p[2][k] + p[3][k] + p[4][k] + p[5][k] + p[6][k] + p[7][k] + p[8][k]
<1>1. /\ 1 \in 1 .. 8 /\ 2 \in 1 .. 8 /\ 3 \in 1 .. 8 /\ 4 \in 1 .. 8
      /\ 5 \in 1 .. 8 /\ 6 \in 1 .. 8 /\ 7 \in 1 .. 8 /\ 8 \in 1 .. 8
  OBVIOUS
<1> QED
  BY <1>1, Zenon DEF AddsUp

LEMMA JoinedSum ==
  ASSUME NEW p, NEW c, NEW k, AddsUp(p, c, k), AddsUp(p, c, k + 1),
         AddsUp(p, c, k + 2), AddsUp(p, c, k + 3)
  PROVE  Joined4(c, k) =
           Joined4(p[1], k) + Joined4(p[2], k) + Joined4(p[3], k) + Joined4(p[4], k)
             + Joined4(p[5], k) + Joined4(p[6], k) + Joined4(p[7], k) + Joined4(p[8], k)
<1> DEFINE q(i, j) == p[i][j]
           l == k + 1
           m == k + 2
           n == k + 3
           Listed8(j) ==
             /\ q(1, j) \in Int /\ q(2, j) \in Int /\ q(3, j) \in Int /\ q(4, j) \in Int
             /\ q(5, j) \in Int /\ q(6, j) \in Int /\ q(7, j) \in Int /\ q(8, j) \in Int
             /\ c[j] = q(1, j) + q(2, j) + q(3, j) + q(4, j)
                         + q(5, j) + q(6, j) + q(7, j) + q(8, j)
           at(j) == c[j]
           J(i) == q(i, k) + 256 * (q(i, l) + 256 * (q(i, m) + 256 * q(i, n)))
<1>1. Listed8(k) /\ Listed8(l) /\ Listed8(m) /\ Listed8(n)
  BY Added
<1>2. \A i : Joined4(p[i], k) = J(i)
  BY DEF Joined4
<1>3. Joined4(c, k) = at(k) + 256 * (at(l) + 256 * (at(m) + 256 * at(n)))
  BY DEF Joined4
<1>4. at(k) + 256 * (at(l) + 256 * (at(m) + 256 * at(n)))
        = J(1) + J(2) + J(3) + J(4) + J(5) + J(6) + J(7) + J(8)
  <2> HIDE DEF q, l, m, n, at
  <2> QED
    BY <1>1 DEF at
<1> HIDE DEF J, at
<1> QED
  BY <1>2, <1>3, <1>4

Numbers(c, n) == \A k \in 1 .. n : c[k] \in Nat

(* Four columns, from the carry into the first to the carry out of the     *)
(* last.                                                                   *)
LEMMA CarryFour ==
  ASSUME NEW n \in Nat, NEW c, Numbers(c, n), NEW d, NEW f,
         Steps(c, n, d, f), NEW k \in 1 .. n, k + 3 <= n
  PROVE  /\ Joined4(c, k) + f[k - 1] = Joined4(d, k) + Mod32 * f[k + 3]
         /\ Joined4(d, k) \in Nat /\ Joined4(d, k) < Mod32
<1> DEFINE c1 == c[k]
           c2 == c[k + 1]
           c3 == c[k + 2]
           c4 == c[k + 3]
           d1 == d[k]
           d2 == d[k + 1]
           d3 == d[k + 2]
           d4 == d[k + 3]
           f0 == f[k - 1]
           f1 == f[k]
           f2 == f[k + 1]
           f3 == f[k + 2]
           f4 == f[k + 3]
<1>1. /\ k \in 1 .. n /\ k + 1 \in 1 .. n /\ k + 2 \in 1 .. n /\ k + 3 \in 1 .. n
      /\ (k + 1) - 1 = k /\ (k + 2) - 1 = k + 1 /\ (k + 3) - 1 = k + 2
      /\ k - 1 \in 0 .. n
  OBVIOUS
<1>2. \A i \in 1 .. n : c[i] \in Nat /\ d[i] \in 0 .. 255 /\ f[i] \in Nat
                        /\ c[i] + f[i - 1] = d[i] + 256 * f[i]
  BY DEF Steps, Numbers
<1>3. f0 \in Nat
  BY <1>1 DEF Steps
<1>4. /\ c1 \in Nat /\ c2 \in Nat /\ c3 \in Nat /\ c4 \in Nat
      /\ f1 \in Nat /\ f2 \in Nat /\ f3 \in Nat /\ f4 \in Nat
      /\ d1 \in 0 .. 255 /\ d2 \in 0 .. 255 /\ d3 \in 0 .. 255 /\ d4 \in 0 .. 255
      /\ c1 + f0 = d1 + 256 * f1
      /\ c2 + f1 = d2 + 256 * f2
      /\ c3 + f2 = d3 + 256 * f3
      /\ c4 + f3 = d4 + 256 * f4
  BY <1>1, <1>2
<1>5. /\ Joined4(c, k) = c1 + 256 * (c2 + 256 * (c3 + 256 * c4))
      /\ Joined4(d, k) = d1 + 256 * (d2 + 256 * (d3 + 256 * d4))
  BY DEF Joined4
<1> HIDE DEF c1, c2, c3, c4, d1, d2, d3, d4, f0, f1, f2, f3, f4
<1>6. Joined4(d, k) \in Nat /\ Joined4(d, k) < Mod32
  BY <1>4, <1>5 DEF Mod32
<1>7. Joined4(c, k) + f0 = Joined4(d, k) + Mod32 * f4
  BY <1>3, <1>4, <1>5 DEF Mod32
<1> QED
  BY <1>6, <1>7 DEF f0, f4

Mod64 == Mod32 * Mod32

LEMMA Halves ==
  ASSUME NEW M \in Nat, NEW c1 \in Nat, NEW c2 \in Nat, NEW d1 \in Nat, NEW d2 \in Nat,
         NEW f1 \in Nat, NEW f2 \in Nat, d1 < M, d2 < M,
         c1 = d1 + M * f1, c2 + f1 = d2 + M * f2
  PROVE  /\ c1 + M * c2 = (d1 + M * d2) + (M * M) * f2
         /\ d1 + M * d2 \in Nat /\ d1 + M * d2 < M * M /\ M * M \in Nat
<1>1. M * (c2 + f1) = M * c2 + M * f1
  OBVIOUS
<1>2. M * (d2 + M * f2) = M * d2 + (M * M) * f2
  OBVIOUS
<1>3. M * (c2 + f1) = M * (d2 + M * f2)
  OBVIOUS
<1>4. M * c2 \in Nat /\ M * f1 \in Nat /\ M * d2 \in Nat /\ (M * M) * f2 \in Nat
      /\ M * M \in Nat
  OBVIOUS
<1>5. M * d2 <= M * M - M
  <2>1. d2 + 1 <= M
    OBVIOUS
  <2>2. M * (d2 + 1) <= M * M
    BY <2>1
  <2>3. M * (d2 + 1) = M * d2 + M
    OBVIOUS
  <2> QED
    BY <1>4, <2>2, <2>3
<1> QED
  BY <1>1, <1>2, <1>3, <1>4, <1>5

(* What is carried out of the fourth column is carried into the fifth.     *)
CarriesOn(c1, c2, d1, d2, f1, f2) ==
  /\ c1 \in Nat /\ c2 \in Nat /\ d1 \in Nat /\ d2 \in Nat /\ f1 \in Nat /\ f2 \in Nat
  /\ d1 < Mod32 /\ d2 < Mod32
  /\ c1 = d1 + Mod32 * f1
  /\ c2 + f1 = d2 + Mod32 * f2

LEMMA TwoHalves ==
  ASSUME NEW c1, NEW c2, NEW d1, NEW d2, NEW f1, NEW f2, CarriesOn(c1, c2, d1, d2, f1, f2)
  PROVE  d1 + Mod32 * d2 = (c1 + Mod32 * c2) % Mod64
<1> DEFINE x == d1 + Mod32 * d2
<1>1. Mod32 \in Nat
  BY DEF Mod32
<1>2. /\ c1 + Mod32 * c2 = x + Mod64 * f2
      /\ x \in Nat /\ x < Mod64 /\ Mod64 \in Nat
  BY <1>1, Halves DEF Mod64, CarriesOn
<1> HIDE DEF x
<1>3. (x + Mod64 * f2) % Mod64 = x
  BY <1>2, Rest DEF CarriesOn
<1> QED
  BY <1>2, <1>3 DEF x

LEMMA OneHalf ==
  ASSUME NEW c1 \in Nat, NEW d1 \in Nat, NEW f1 \in Nat, d1 < Mod32, c1 = d1 + Mod32 * f1
  PROVE  d1 = c1 % Mod32
<1>1. Mod32 \in Nat
  BY DEF Mod32
<1> QED
  BY <1>1, Rest

(* Eight numbers, those behind the mth nothing, and their sum.             *)
Summands(p, m) ==
  /\ \A i \in 1 .. 8 : p[i] \in Nat
  /\ \A i \in m + 1 .. 8 : p[i] = 0

Eight(p) == p[1] + p[2] + p[3] + p[4] + p[5] + p[6] + p[7] + p[8]

LEMMA EightAdded ==
  ASSUME NEW m \in 1 .. 8, NEW u, Summands(u, m), NEW x, \A i \in 1 .. m : x[i] = u[i]
  PROVE  SumOf(x, 1 .. m) = Eight(u) /\ Eight(u) \in Nat
<1> DEFINE S == 1 .. m
<1> USE DEF Summands, Eight
<1>1. S \subseteq 1 .. 8
  OBVIOUS
<1>2. \A i \in 1 .. 8 : u[i] \in Int
  OBVIOUS
<1>3. \A i \in 1 .. 8 : Entry(u, S, i) = u[i]
  BY DEF Entry
<1>4. SumOf(x, S) = Total(u, S)
  <2>1. \A i \in S : u[i] = x[i]
    OBVIOUS
  <2> HIDE DEF S
  <2> QED
    BY <1>1, <1>2, <2>1, SumOfFunction
<1>5. Total(u, S) \in Nat
  BY TotalNat
<1> HIDE DEF S
<1>6. Total(u, S) = u[1] + u[2] + u[3] + u[4] + u[5] + u[6] + u[7] + u[8]
  <2>1. /\ 1 \in 1 .. 8 /\ 2 \in 1 .. 8 /\ 3 \in 1 .. 8 /\ 4 \in 1 .. 8
        /\ 5 \in 1 .. 8 /\ 6 \in 1 .. 8 /\ 7 \in 1 .. 8 /\ 8 \in 1 .. 8
    OBVIOUS
  <2>2. /\ Entry(u, S, 1) = u[1] /\ Entry(u, S, 2) = u[2] /\ Entry(u, S, 3) = u[3] /\ Entry(u, S, 4) = u[4]
        /\ Entry(u, S, 5) = u[5] /\ Entry(u, S, 6) = u[6] /\ Entry(u, S, 7) = u[7] /\ Entry(u, S, 8) = u[8]
    BY <1>3, <2>1, Zenon
  <2> QED
    BY <2>2, Zenon DEF Total
<1> QED
  BY <1>4, <1>5, <1>6, Zenon DEF S

(* The four bytes of every addend from k on.                               *)
LEMMA AddendsJoined ==
  ASSUME NEW n \in Nat, NEW m \in 1 .. 8, NEW words \in [1 .. m -> Bits(n)],
         NEW k \in Nat, k \in 1 .. n, k + 3 <= n
  PROVE  \A i \in 1 .. 8 :
           /\ Joined4(Addend(words, n, i), k) \in Nat
           /\ i \in 1 .. m => Joined4(Addend(words, n, i), k) = Joined4(Bytes(words[i]), k)
           /\ i \in m + 1 .. 8 => Joined4(Addend(words, n, i), k) = 0
<1>1. k \in 1 .. n /\ k + 1 \in 1 .. n /\ k + 2 \in 1 .. n /\ k + 3 \in 1 .. n
  OBVIOUS
<1> TAKE i \in 1 .. 8
<1> DEFINE a(j) == Addend(words, n, i)[j]
<1>2. \A j \in 1 .. n : a(j) \in 0 .. 255
  BY AddendType
<1>3. a(k) \in 0 .. 255 /\ a(k + 1) \in 0 .. 255 /\ a(k + 2) \in 0 .. 255 /\ a(k + 3) \in 0 .. 255
  <2> HIDE DEF a
  <2> QED
    BY <1>1, <1>2
<1>4. i \in 1 .. m => \A j \in 1 .. n : a(j) = Bytes(words[i])[j]
  BY DEF Addend
<1>5. i \in m + 1 .. 8 => \A j \in 1 .. n : a(j) = 0
  BY DEF Addend
<1>6. Joined4(Addend(words, n, i), k) = a(k) + 256 * (a(k + 1) + 256 * (a(k + 2) + 256 * a(k + 3)))
  BY DEF Joined4
<1> HIDE DEF a
<1>7. Joined4(Addend(words, n, i), k) \in Nat
  <2> DEFINE a1 == a(k)
             a2 == a(k + 1)
             a3 == a(k + 2)
             a4 == a(k + 3)
  <2>1. a1 \in 0 .. 255 /\ a2 \in 0 .. 255 /\ a3 \in 0 .. 255 /\ a4 \in 0 .. 255
    BY <1>3
  <2> HIDE DEF a1, a2, a3, a4
  <2>2. a1 + 256 * (a2 + 256 * (a3 + 256 * a4)) \in Nat
    BY <2>1
  <2> QED
    BY <1>6, <2>2 DEF a1, a2, a3, a4
<1>8. ASSUME i \in 1 .. m
      PROVE  Joined4(Addend(words, n, i), k) = Joined4(Bytes(words[i]), k)
  BY <1>1, <1>4, <1>6, <1>8 DEF Joined4
<1>9. ASSUME i \in m + 1 .. 8
      PROVE  Joined4(Addend(words, n, i), k) = 0
  <2>1. a(k) = 0 /\ a(k + 1) = 0 /\ a(k + 2) = 0 /\ a(k + 3) = 0
    BY <1>1, <1>5, <1>9
  <2> QED
    BY <1>6, <2>1
<1> QED
  BY <1>7, <1>8, <1>9

LEMMA OctetIsInt == \A x \in 0 .. 255 : x \in Int
OBVIOUS

(* Four columns of the sum, from k on: with the carry into them, they are  *)
(* four bytes of the result and the carry out of them.                     *)
FourColumns(words, n, d, f, k, in, out) ==
  LET c == Joined4(Column(words, n), k)
      J(i) == Joined4(Addend(words, n, i), k)
  IN  /\ c = J(1) + J(2) + J(3) + J(4) + J(5) + J(6) + J(7) + J(8)
      /\ c + f[in] = Joined4(d, k) + Mod32 * f[out]
      /\ Joined4(d, k) \in Nat /\ Joined4(d, k) < Mod32
      /\ f[in] \in Nat /\ f[out] \in Nat

LEMMA SumFour ==
  ASSUME NEW n \in Nat, NEW m \in 1 .. 8, NEW words \in [1 .. m -> Bits(n)],
         NEW d, NEW f, Steps(Column(words, n), n, d, f),
         NEW k \in 1 .. n, k + 3 <= n, NEW in, in = k - 1, NEW out, out = k + 3
  PROVE  FourColumns(words, n, d, f, k, in, out)
<1> DEFINE c == Column(words, n)
           p == [i \in 1 .. 8 |-> Addend(words, n, i)]
<1>1. /\ k \in 1 .. n /\ k + 1 \in 1 .. n /\ k + 2 \in 1 .. n /\ k + 3 \in 1 .. n
      /\ k - 1 \in 0 .. n /\ k + 3 \in 0 .. n
  OBVIOUS
<1>2. Numbers(c, n)
  BY PlusSteps DEF Numbers
<1>3. \A i \in 1 .. 8 : p[i] = Addend(words, n, i)
  OBVIOUS
<1>4. p[1] = Addend(words, n, 1) /\ p[2] = Addend(words, n, 2) /\ p[3] = Addend(words, n, 3)
      /\ p[4] = Addend(words, n, 4) /\ p[5] = Addend(words, n, 5) /\ p[6] = Addend(words, n, 6)
      /\ p[7] = Addend(words, n, 7) /\ p[8] = Addend(words, n, 8)
  OBVIOUS
<1> HIDE DEF p, c
<1>5. ASSUME NEW j \in 1 .. n
      PROVE  AddsUp(p, c, j)
  <2>2. ASSUME NEW i \in 1 .. 8
        PROVE  p[i][j] \in Int
    <3>1. p[i] = Addend(words, n, i)
      BY <1>3, Zenon
    <3>2. Addend(words, n, i)[j] \in 0 .. 255
      BY AddendType, Zenon
    <3>3. Addend(words, n, i)[j] \in Int
      BY <3>2, OctetIsInt, Zenon
    <3> QED
      BY <3>1, <3>3, Zenon
  <2>3. c[j] = p[1][j] + p[2][j] + p[3][j] + p[4][j] + p[5][j] + p[6][j] + p[7][j] + p[8][j]
    BY <1>4, PlusSteps, Zenon DEF c
  <2> QED
    BY <2>2, <2>3, Zenon DEF AddsUp
<1>6. AddsUp(p, c, k) /\ AddsUp(p, c, k + 1) /\ AddsUp(p, c, k + 2) /\ AddsUp(p, c, k + 3)
  BY <1>1, <1>5
<1>7. Joined4(c, k) =
           Joined4(p[1], k) + Joined4(p[2], k) + Joined4(p[3], k) + Joined4(p[4], k)
             + Joined4(p[5], k) + Joined4(p[6], k) + Joined4(p[7], k) + Joined4(p[8], k)
  BY <1>6, JoinedSum, Zenon
<1>8. /\ Joined4(c, k) + f[k - 1] = Joined4(d, k) + Mod32 * f[k + 3]
      /\ Joined4(d, k) \in Nat /\ Joined4(d, k) < Mod32
  BY <1>2, CarryFour DEF c
<1>9. f[k - 1] \in Nat /\ f[k + 3] \in Nat
  BY <1>1 DEF Steps
<1> QED
  BY <1>4, <1>7, <1>8, <1>9, Zenon DEF c, FourColumns

LEMMA Weighed == \A m, a, b \in Nat : a + m * b \in Nat
OBVIOUS

LEMMA EightIsNat ==
  ASSUME NEW m \in 1 .. 8, NEW p, Summands(p, m)
  PROVE  Eight(p) \in Nat
<1>1. /\ 1 \in 1 .. 8 /\ 2 \in 1 .. 8 /\ 3 \in 1 .. 8 /\ 4 \in 1 .. 8
      /\ 5 \in 1 .. 8 /\ 6 \in 1 .. 8 /\ 7 \in 1 .. 8 /\ 8 \in 1 .. 8
  OBVIOUS
<1>2. /\ p[1] \in Nat /\ p[2] \in Nat /\ p[3] \in Nat /\ p[4] \in Nat
      /\ p[5] \in Nat /\ p[6] \in Nat /\ p[7] \in Nat /\ p[8] \in Nat
  BY <1>1, Zenon DEF Summands
<1> QED
  BY <1>2 DEF Eight

LEMMA EightDoubled ==
  ASSUME NEW m \in 1 .. 8, NEW p, NEW q, Summands(p, m), Summands(q, m),
         NEW x, \A i \in 1 .. m : x[i] = p[i] + Mod32 * q[i]
  PROVE  SumOf(x, 1 .. m) = Eight(p) + Mod32 * Eight(q)
<1> DEFINE u == [i \in 1 .. 8 |-> p[i] + Mod32 * q[i]]
<1>1. Mod32 \in Nat /\ 1 .. m \subseteq 1 .. 8 /\ m + 1 .. 8 \subseteq 1 .. 8
  <2>1. Mod32 \in Nat
    BY DEF Mod32
  <2> QED
    BY <2>1
<1>2. \A i \in 1 .. 8 : u[i] = p[i] + Mod32 * q[i]
  OBVIOUS
<1>3. ASSUME NEW i \in 1 .. 8
      PROVE  u[i] \in Nat
  <2>1. p[i] \in Nat /\ q[i] \in Nat
    BY DEF Summands
  <2> HIDE DEF u
  <2> QED
    BY <1>1, <1>2, <2>1, Weighed, Zenon
<1>4. ASSUME NEW i \in m + 1 .. 8
      PROVE  u[i] = 0
  <2>1. p[i] = 0 /\ q[i] = 0 /\ i \in 1 .. 8
    BY <1>1 DEF Summands
  <2> HIDE DEF u
  <2> QED
    BY <1>1, <1>2, <2>1
<1>5. \A i \in 1 .. m : x[i] = u[i]
  BY <1>1, <1>2, Zenon
<1> HIDE DEF u
<1>6. SumOf(x, 1 .. m) = Eight(u)
  BY <1>3, <1>4, <1>5, EightAdded, Zenon DEF Summands
<1>7. /\ 1 \in 1 .. 8 /\ 2 \in 1 .. 8 /\ 3 \in 1 .. 8 /\ 4 \in 1 .. 8
      /\ 5 \in 1 .. 8 /\ 6 \in 1 .. 8 /\ 7 \in 1 .. 8 /\ 8 \in 1 .. 8
  OBVIOUS
<1>8. /\ p[1] \in Nat /\ p[2] \in Nat /\ p[3] \in Nat /\ p[4] \in Nat
      /\ p[5] \in Nat /\ p[6] \in Nat /\ p[7] \in Nat /\ p[8] \in Nat
  BY <1>7, Zenon DEF Summands
<1>9. /\ q[1] \in Nat /\ q[2] \in Nat /\ q[3] \in Nat /\ q[4] \in Nat
      /\ q[5] \in Nat /\ q[6] \in Nat /\ q[7] \in Nat /\ q[8] \in Nat
  BY <1>7, Zenon DEF Summands
<1>10. /\ u[1] = p[1] + Mod32 * q[1] /\ u[2] = p[2] + Mod32 * q[2]
       /\ u[3] = p[3] + Mod32 * q[3] /\ u[4] = p[4] + Mod32 * q[4]
       /\ u[5] = p[5] + Mod32 * q[5] /\ u[6] = p[6] + Mod32 * q[6]
       /\ u[7] = p[7] + Mod32 * q[7] /\ u[8] = p[8] + Mod32 * q[8]
  BY <1>2, <1>7, Zenon
<1>11. Eight(u) = Eight(p) + Mod32 * Eight(q)
  <2> DEFINE M == Mod32
             p1 == p[1]
             p2 == p[2]
             p3 == p[3]
             p4 == p[4]
             p5 == p[5]
             p6 == p[6]
             p7 == p[7]
             p8 == p[8]
             q1 == q[1]
             q2 == q[2]
             q3 == q[3]
             q4 == q[4]
             q5 == q[5]
             q6 == q[6]
             q7 == q[7]
             q8 == q[8]
             z1 == M * q1
             z2 == M * q2
             z3 == M * q3
             z4 == M * q4
             z5 == M * q5
             z6 == M * q6
             z7 == M * q7
             z8 == M * q8
  <2>1. /\ M \in Nat
        /\ p1 \in Nat /\ p2 \in Nat /\ p3 \in Nat /\ p4 \in Nat
        /\ p5 \in Nat /\ p6 \in Nat /\ p7 \in Nat /\ p8 \in Nat
        /\ q1 \in Nat /\ q2 \in Nat /\ q3 \in Nat /\ q4 \in Nat
        /\ q5 \in Nat /\ q6 \in Nat /\ q7 \in Nat /\ q8 \in Nat
    BY <1>1, <1>8, <1>9, Zenon
  <2>2. Eight(u) = (p1 + z1) + (p2 + z2) + (p3 + z3) + (p4 + z4)
                     + (p5 + z5) + (p6 + z6) + (p7 + z7) + (p8 + z8)
    BY <1>10, Zenon DEF Eight
  <2>3. /\ Eight(p) = p1 + p2 + p3 + p4 + p5 + p6 + p7 + p8
        /\ Eight(q) = q1 + q2 + q3 + q4 + q5 + q6 + q7 + q8
    BY Zenon DEF Eight
  <2> HIDE DEF M, p1, p2, p3, p4, p5, p6, p7, p8, q1, q2, q3, q4, q5, q6, q7, q8
  <2>4. M * (q1 + q2 + q3 + q4 + q5 + q6 + q7 + q8) = z1 + z2 + z3 + z4 + z5 + z6 + z7 + z8
    BY <2>1
  <2>5. /\ z1 \in Nat /\ z2 \in Nat /\ z3 \in Nat /\ z4 \in Nat
        /\ z5 \in Nat /\ z6 \in Nat /\ z7 \in Nat /\ z8 \in Nat
    BY <2>1
  <2> HIDE DEF z1, z2, z3, z4, z5, z6, z7, z8
  <2>6. (p1 + z1) + (p2 + z2) + (p3 + z3) + (p4 + z4) + (p5 + z5) + (p6 + z6) + (p7 + z7) + (p8 + z8)
        = (p1 + p2 + p3 + p4 + p5 + p6 + p7 + p8) + (z1 + z2 + z3 + z4 + z5 + z6 + z7 + z8)
    BY <2>1, <2>5
  <2> QED
    BY <2>2, <2>3, <2>4, <2>6, Zenon DEF M
<1> QED
  BY <1>6, <1>11, Zenon

(* The sum of words is the sum of their numbers modulo 2^64.               *)
THEOREM Sum64 ==
  ASSUME NEW m \in 1 .. 8, NEW words \in [1 .. m -> Bits(8)]
  PROVE  /\ Plus(words) \in Bits(8)
         /\ Unsigned64(Bytes(Plus(words))) =
              SumOf([i \in 1 .. m |-> Unsigned64(Bytes(words[i]))], 1 .. m) % Mod64
<1>1. 8 \in Nat
  OBVIOUS
<1>2. PICK d, f : Plus(words) = Word(d) /\ Steps(Column(words, 8), 8, d, f)
  BY <1>1, PlusSteps, Zenon
<1>3. d \in Octets(8) /\ f[0] = 0
  BY <1>2, Zenon DEF Steps, Octets
<1>4. Plus(words) \in Bits(8) /\ Bytes(Plus(words)) = d
  BY <1>1, <1>2, <1>3, BytesOfWord, Zenon
<1>5. FourColumns(words, 8, d, f, 1, 0, 4)
  <2>1. 1 \in 1 .. 8 /\ 1 + 3 <= 8 /\ 0 = 1 - 1 /\ 4 = 1 + 3
    OBVIOUS
  <2> QED
    BY <1>1, <1>2, <2>1, SumFour, Zenon
<1>6. FourColumns(words, 8, d, f, 5, 4, 8)
  <2>1. 5 \in 1 .. 8 /\ 5 + 3 <= 8 /\ 4 = 5 - 1 /\ 8 = 5 + 3
    OBVIOUS
  <2> QED
    BY <1>1, <1>2, <2>1, SumFour, Zenon
<1> DEFINE p == [i \in 1 .. 8 |-> Joined4(Addend(words, 8, i), 1)]
           q == [i \in 1 .. 8 |-> Joined4(Addend(words, 8, i), 5)]
           x == [i \in 1 .. m |-> Unsigned64(Bytes(words[i]))]
<1>7. 1 .. m \subseteq 1 .. 8 /\ m + 1 .. 8 \subseteq 1 .. 8
  OBVIOUS
<1>8. /\ 1 \in 1 .. 8 /\ 2 \in 1 .. 8 /\ 3 \in 1 .. 8 /\ 4 \in 1 .. 8
      /\ 5 \in 1 .. 8 /\ 6 \in 1 .. 8 /\ 7 \in 1 .. 8 /\ 8 \in 1 .. 8
  OBVIOUS
<1>9. Summands(p, m) /\ \A i \in 1 .. m : p[i] = Joined4(Bytes(words[i]), 1)
  <2>1. 1 \in Nat /\ 1 \in 1 .. 8 /\ 1 + 3 <= 8
    OBVIOUS
  <2>2. \A i \in 1 .. 8 :
          LET a == Joined4(Addend(words, 8, i), 1)
          IN  /\ a \in Nat
              /\ i \in 1 .. m => a = Joined4(Bytes(words[i]), 1)
              /\ i \in m + 1 .. 8 => a = 0
    BY <1>1, <2>1, AddendsJoined, Zenon
  <2>3. \A i \in 1 .. 8 : p[i] = Joined4(Addend(words, 8, i), 1)
    BY Zenon
  <2> HIDE DEF p
  <2> QED
    BY <1>7, <2>2, <2>3, Zenon DEF Summands
<1>10. Summands(q, m) /\ \A i \in 1 .. m : q[i] = Joined4(Bytes(words[i]), 5)
  <2>1. 5 \in Nat /\ 5 \in 1 .. 8 /\ 5 + 3 <= 8
    OBVIOUS
  <2>2. \A i \in 1 .. 8 :
          LET a == Joined4(Addend(words, 8, i), 5)
          IN  /\ a \in Nat
              /\ i \in 1 .. m => a = Joined4(Bytes(words[i]), 5)
              /\ i \in m + 1 .. 8 => a = 0
    BY <1>1, <2>1, AddendsJoined, Zenon
  <2>3. \A i \in 1 .. 8 : q[i] = Joined4(Addend(words, 8, i), 5)
    BY Zenon
  <2> HIDE DEF q
  <2> QED
    BY <1>7, <2>2, <2>3, Zenon DEF Summands
<1>11. \A i \in 1 .. 8 : /\ p[i] = Joined4(Addend(words, 8, i), 1)
                         /\ q[i] = Joined4(Addend(words, 8, i), 5)
  BY Zenon
<1>12. \A i \in 1 .. m : x[i] = p[i] + Mod32 * q[i]
  BY <1>9, <1>10, Zenon DEF Unsigned64
<1> HIDE DEF p, q, x
<1>13. SumOf(x, 1 .. m) = Eight(p) + Mod32 * Eight(q)
  BY <1>9, <1>10, <1>12, EightDoubled, Zenon
<1>14. Eight(p) = Joined4(Column(words, 8), 1) /\ Eight(q) = Joined4(Column(words, 8), 5)
  BY <1>5, <1>6, <1>8, <1>11, Zenon DEF FourColumns, Eight
<1>15. Eight(p) \in Nat /\ Eight(q) \in Nat
  BY <1>9, <1>10, EightIsNat, Zenon
<1>16. /\ Eight(p) = Joined4(d, 1) + Mod32 * f[4] /\ Eight(q) + f[4] = Joined4(d, 5) + Mod32 * f[8]
       /\ Joined4(d, 1) \in Nat /\ Joined4(d, 1) < Mod32 /\ f[4] \in Nat
       /\ Joined4(d, 5) \in Nat /\ Joined4(d, 5) < Mod32 /\ f[8] \in Nat
  <2>1. Eight(p) + 0 = Joined4(d, 1) + Mod32 * f[4]
    BY <1>3, <1>5, <1>14, Zenon DEF FourColumns
  <2>2. \A z \in Nat : z + 0 = z
    OBVIOUS
  <2> QED
    BY <1>5, <1>6, <1>14, <1>15, <2>1, <2>2, Zenon DEF FourColumns
<1>17. Joined4(d, 1) + Mod32 * Joined4(d, 5) = (Eight(p) + Mod32 * Eight(q)) % Mod64
  <2>1. CarriesOn(Eight(p), Eight(q), Joined4(d, 1), Joined4(d, 5), f[4], f[8])
    BY <1>15, <1>16, Zenon DEF CarriesOn
  <2> QED
    BY ONLY <2>1, TwoHalves, SMT
<1> QED
  BY <1>4, <1>13, <1>17, Zenon DEF Unsigned64, x

(* The sum of words of 32 bits is the sum of their numbers modulo 2^32.    *)
THEOREM Sum32 ==
  ASSUME NEW m \in 1 .. 8, NEW words \in [1 .. m -> Bits(4)]
  PROVE  /\ Plus(words) \in Bits(4)
         /\ Unsigned32(Bytes(Plus(words))) =
              SumOf([i \in 1 .. m |-> Unsigned32(Bytes(words[i]))], 1 .. m) % Mod32
<1>1. 4 \in Nat
  OBVIOUS
<1>2. PICK d, f : Plus(words) = Word(d) /\ Steps(Column(words, 4), 4, d, f)
  BY <1>1, PlusSteps, Zenon
<1>3. d \in Octets(4) /\ f[0] = 0
  BY <1>2, Zenon DEF Steps, Octets
<1>4. Plus(words) \in Bits(4) /\ Bytes(Plus(words)) = d
  BY <1>1, <1>2, <1>3, BytesOfWord, Zenon
<1>5. FourColumns(words, 4, d, f, 1, 0, 4)
  <2>1. 1 \in 1 .. 4 /\ 1 + 3 <= 4 /\ 0 = 1 - 1 /\ 4 = 1 + 3
    OBVIOUS
  <2> QED
    BY <1>1, <1>2, <2>1, SumFour, Zenon
<1> DEFINE p == [i \in 1 .. 8 |-> Joined4(Addend(words, 4, i), 1)]
           x == [i \in 1 .. m |-> Unsigned32(Bytes(words[i]))]
<1>7. 1 .. m \subseteq 1 .. 8 /\ m + 1 .. 8 \subseteq 1 .. 8
  OBVIOUS
<1>8. /\ 1 \in 1 .. 8 /\ 2 \in 1 .. 8 /\ 3 \in 1 .. 8 /\ 4 \in 1 .. 8
      /\ 5 \in 1 .. 8 /\ 6 \in 1 .. 8 /\ 7 \in 1 .. 8 /\ 8 \in 1 .. 8
  OBVIOUS
<1>9. Summands(p, m) /\ \A i \in 1 .. m : x[i] = p[i]
  <2>1. 1 \in Nat /\ 1 \in 1 .. 4 /\ 1 + 3 <= 4
    OBVIOUS
  <2>2. \A i \in 1 .. 8 :
          /\ p[i] \in Nat
          /\ i \in 1 .. m => p[i] = Joined4(Bytes(words[i]), 1)
          /\ i \in m + 1 .. 8 => p[i] = 0
    BY <1>1, <2>1, AddendsJoined, Zenon
  <2> QED
    BY <1>7, <2>2, Zenon DEF Summands, Unsigned32
<1>11. \A i \in 1 .. 8 : p[i] = Joined4(Addend(words, 4, i), 1)
  BY Zenon
<1> HIDE DEF p, x
<1>13. SumOf(x, 1 .. m) = Eight(p) /\ Eight(p) \in Nat
  BY <1>9, EightAdded, Zenon
<1>14. Eight(p) = Joined4(Column(words, 4), 1)
  BY <1>5, <1>8, <1>11, Zenon DEF FourColumns, Eight
<1>16. /\ Eight(p) = Joined4(d, 1) + Mod32 * f[4]
       /\ Joined4(d, 1) \in Nat /\ Joined4(d, 1) < Mod32 /\ f[4] \in Nat
  <2>1. Eight(p) + 0 = Joined4(d, 1) + Mod32 * f[4]
    BY <1>3, <1>5, <1>14, Zenon DEF FourColumns
  <2>2. \A z \in Nat : z + 0 = z
    OBVIOUS
  <2> QED
    BY <1>5, <1>13, <2>1, <2>2, Zenon DEF FourColumns
<1>17. Joined4(d, 1) = Eight(p) % Mod32
  BY <1>13, <1>16, OneHalf, Zenon
<1> QED
  BY <1>4, <1>13, <1>17, Zenon DEF Unsigned32, x

LEMMA PlusType ==
  ASSUME NEW a \in Bits(8), NEW b \in Bits(8)
  PROVE  Plus(<<a, b>>) \in Bits(8)
<1> DEFINE words == <<a, b>>
<1>1. words \in [1 .. 2 -> Bits(8)] /\ 2 \in 1 .. 8
  OBVIOUS
<1> HIDE DEF words
<1> QED
  BY <1>1, Sum64, Zenon DEF words

LEMMA ProductsAreNat ==
  ASSUME NEW x \in Octets(8), NEW y \in Octets(8), NEW k \in 1 .. 8
  PROVE  ProductColumn(x, y, k) \in Nat
<1> DEFINE v == [i \in 1 .. 8 |-> IF i <= k THEN x[i] * y[k + 1 - i] ELSE 0]
<1>1. ASSUME NEW i \in 1 .. 8 PROVE v[i] \in Nat
  <2>1. CASE i <= k
    <3>1. k + 1 - i \in 1 .. 8
      BY <2>1
    <3>2. x[i] \in 0 .. 255 /\ y[k + 1 - i] \in 0 .. 255
      BY <3>1 DEF Octets
    <3>3. \A p, q \in 0 .. 255 : p * q \in Nat
      OBVIOUS
    <3>4. x[i] * y[k + 1 - i] \in Nat
      BY <3>2, <3>3, Zenon
    <3> QED
      BY <2>1, <3>4
  <2>2. CASE ~(i <= k)
    BY <2>2
  <2> QED
    BY <2>1, <2>2
<1>2. 1 .. k \subseteq 1 .. 8 /\ \A i \in 1 .. k : i <= k
  OBVIOUS
<1>3. \A i \in 1 .. k : v[i] = x[i] * y[k + 1 - i]
  BY <1>2
<1> HIDE DEF v
<1>4. \A i \in 1 .. 8 : v[i] \in Int
  BY <1>1
<1>5. ProductColumn(x, y, k) = Total(v, 1 .. k)
  <2>1. Multiplied(x, y, k, v)
    BY <1>2, <1>3, <1>4, Zenon DEF Multiplied
  <2> QED
    BY <2>1, ColumnOfProduct, Zenon
<1> QED
  BY <1>1, <1>5, TotalNat, Zenon

LEMMA TimesType ==
  ASSUME NEW a \in Bits(8), NEW b \in Bits(8)
  PROVE  Times(a, b) \in Bits(8)
<1> DEFINE x == Bytes(a)
           y == Bytes(b)
           c == [k \in 1 .. 8 |-> ProductColumn(x, y, k)]
<1>1. x \in Octets(8) /\ y \in Octets(8) /\ 8 \in Nat
  BY BytesAre
<1>2. DOMAIN x = 1 .. 8
  BY <1>1 DEF Octets
<1>3. Times(a, b) = Carried([k \in DOMAIN x |-> ProductColumn(x, y, k)])
  BY Zenon DEF Times, ProductColumn
<1> HIDE DEF x, y
<1>4. \A k \in 1 .. 8 : c[k] \in Nat
  BY <1>1, ProductsAreNat
<1>5. c = [k \in 1 .. 8 |-> c[k]] /\ Times(a, b) = Carried(c)
  BY <1>2, <1>3
<1> HIDE DEF c
<1>6. PICK d, f : Carried(c) = Word(d) /\ Steps(c, 8, d, f)
  BY <1>1, <1>4, <1>5, CarriedSteps, Zenon
<1>7. d \in Octets(8)
  BY <1>6, Zenon DEF Steps, Octets
<1> QED
  BY <1>1, <1>5, <1>6, <1>7, BytesOfWord, Zenon

LEMMA LenIs ==
  ASSUME NEW S, NEW n \in Nat, NEW a \in [1 .. n -> S]
  PROVE  Len(a) = n /\ a \in Seq(S)
OBVIOUS

LEMMA BitsByBit ==
  ASSUME NEW r, r = [i \in 1 .. 64 |-> r[i]], \A i \in 1 .. 64 : r[i] \in {0, 1}
  PROVE  r \in Bits(8)
BY DEF Bits

LEMMA BitwiseType ==
  ASSUME NEW a \in Bits(8), NEW b \in Bits(8), NEW n \in 0 .. 63
  PROVE  /\ Xor(a, b) \in Bits(8)
         /\ ROTL(a, n) \in Bits(8)
         /\ ShiftLeft(a, n) \in Bits(8)
         /\ ShiftRight(a, n) \in Bits(8)
<1>1. /\ DOMAIN a = 1 .. 64 /\ Len(a) = 64
      /\ \A i \in 1 .. 64 : a[i] \in {0, 1} /\ b[i] \in {0, 1}
  <2>1. a \in [1 .. 64 -> {0, 1}] /\ b \in [1 .. 64 -> {0, 1}]
    BY DEF Bits
  <2>2. 64 \in Nat
    OBVIOUS
  <2>3. Len(a) = 64
    <3> HIDE DEF Bits
    <3> QED
      BY <2>1, <2>2, LenIs
  <2> QED
    BY <2>1, <2>3
<1>3. Xor(a, b) \in Bits(8)
  <2>1. \A i \in 1 .. 64 : ((a[i] + b[i]) % 2) \in {0, 1}
    <3>1. \A p, q \in {0, 1} : ((p + q) % 2) \in {0, 1}
      OBVIOUS
    <3> QED
      BY <1>1, <3>1, Zenon
  <2>2. Xor(a, b) = [i \in 1 .. 64 |-> (a[i] + b[i]) % 2]
    BY <1>1, Zenon DEF Xor
  <2> DEFINE r == Xor(a, b)
  <2>4. r = [i \in 1 .. 64 |-> r[i]] /\ \A i \in 1 .. 64 : r[i] \in {0, 1}
    BY <2>1, <2>2
  <2> HIDE DEF r
  <2> QED
    BY <2>4, BitsByBit DEF r
<1>4. ROTL(a, n) \in Bits(8)
  <2> DEFINE at(i) == ((i - 1 - n) % 64) + 1
  <2>1. \A i \in 1 .. 64 : at(i) \in 1 .. 64
    OBVIOUS
  <2>2. ROTL(a, n) = [i \in 1 .. 64 |-> a[at(i)]]
    BY <1>1, Zenon DEF ROTL
  <2> HIDE DEF at
  <2>3. \A i \in 1 .. 64 : a[at(i)] \in {0, 1}
    BY <1>1, <2>1, Zenon
  <2> DEFINE r == ROTL(a, n)
  <2>4. r = [i \in 1 .. 64 |-> r[i]] /\ \A i \in 1 .. 64 : r[i] \in {0, 1}
    BY <2>2, <2>3
  <2> HIDE DEF r
  <2> QED
    BY <2>4, BitsByBit DEF r
<1>5. ShiftLeft(a, n) \in Bits(8)
  <2> DEFINE at(i) == IF i > n THEN a[i - n] ELSE 0
  <2>1. ASSUME NEW i \in 1 .. 64 PROVE at(i) \in {0, 1}
    <3>1. i > n => i - n \in 1 .. 64
      OBVIOUS
    <3> QED
      BY <1>1, <3>1, Zenon
  <2>2. ShiftLeft(a, n) = [i \in 1 .. 64 |-> at(i)]
    BY <1>1, Zenon DEF ShiftLeft
  <2> HIDE DEF at
  <2> DEFINE r == ShiftLeft(a, n)
  <2>4. r = [i \in 1 .. 64 |-> r[i]] /\ \A i \in 1 .. 64 : r[i] \in {0, 1}
    BY <2>1, <2>2
  <2> HIDE DEF r
  <2> QED
    BY <2>4, BitsByBit DEF r
<1>6. ShiftRight(a, n) \in Bits(8)
  <2> DEFINE at(i) == IF i + n <= Len(a) THEN a[i + n] ELSE 0
  <2>1. ASSUME NEW i \in 1 .. 64 PROVE at(i) \in {0, 1}
    <3>1. i + n <= 64 => i + n \in 1 .. 64
      OBVIOUS
    <3> QED
      BY <1>1, <3>1, Zenon
  <2>2. ShiftRight(a, n) = [i \in 1 .. 64 |-> at(i)]
    BY <1>1, Zenon DEF ShiftRight
  <2> HIDE DEF at
  <2> DEFINE r == ShiftRight(a, n)
  <2>4. r = [i \in 1 .. 64 |-> r[i]] /\ \A i \in 1 .. 64 : r[i] \in {0, 1}
    BY <2>1, <2>2
  <2> HIDE DEF r
  <2> QED
    BY <2>4, BitsByBit DEF r
<1> QED
  BY <1>3, <1>4, <1>5, <1>6

LEMMA Word64Type ==
  ASSUME NEW s \in Int
  PROVE  Word64(s) \in Bits(8)
<1> DEFINE b == [k \in 1 .. 8 |-> IF k > 4 THEN 0 ELSE (s \div 256 ^ (k - 1)) % 256]
<1>1. \A k \in 1 .. 8 : b[k] \in Int
  <2>1. \A k \in 1 .. 4 : 256 ^ (k - 1) \in {1, 256, 256 * 256, 256 * (256 * 256)}
    <3>1. 256 ^ 0 = 1 /\ 256 ^ 1 = 256 /\ 256 ^ 2 = 256 * 256 /\ 256 ^ 3 = 256 * (256 * 256)
      OBVIOUS
    <3>2. \A k \in 1 .. 4 : k - 1 \in {0, 1, 2, 3}
      OBVIOUS
    <3> DEFINE pow(j) == 256 ^ j
               c2 == 256 * 256
               c3 == 256 * (256 * 256)
    <3>3. pow(0) = 1 /\ pow(1) = 256 /\ pow(2) = c2 /\ pow(3) = c3
      BY <3>1
    <3> HIDE DEF pow, c2, c3
    <3>4. \A k \in 1 .. 4 : pow(k - 1) \in {1, 256, c2, c3}
      BY <3>2, <3>3
    <3> QED
      BY <3>4 DEF pow, c2, c3
  <2>2. \A p \in {1, 256, 256 * 256, 256 * (256 * 256)} : (s \div p) % 256 \in Int
    OBVIOUS
  <2> QED
    BY <2>1, <2>2
<1>2. b \in [1 .. 8 -> Int] /\ 8 \in Nat
  BY <1>1
<1> HIDE DEF b
<1>3. Word(b) \in Bits(8)
  BY <1>2, WordType
<1> QED
  BY <1>3, Zenon DEF Word64, b

-------------------------------------------------------------------------------
(* The bytes of the generator.                                             *)

(* A sequence of length n, as a function. *)
Listed(f, n) == f = [i \in 1 .. n |-> f[i]]

LEMMA LenOfFcn ==
  ASSUME NEW f, NEW n \in Nat, f = [i \in 1 .. n |-> f[i]]
  PROVE  f \in Seq({f[i] : i \in 1 .. n}) /\ Len(f) = n /\ DOMAIN f = 1 .. n
<1>1. f \in [1 .. n -> {f[i] : i \in 1 .. n}]
  OBVIOUS
<1> QED
  BY <1>1

(* The context of the generator: a pair of words. *)
IsContext(r) == \E a, b \in Bits(8) : r = <<a, b>>

(* xoroshiro128_next draws eight bytes and leaves a pair of words.         *)
LEMMA AdvancedIs ==
  ASSUME NEW r, IsContext(r)
  PROVE  IsContext(Advanced(r)) /\ Bytes(Drawn(r)) \in Octets(8)
<1>1. PICK a, b \in Bits(8) : r = <<a, b>>
  BY DEF IsContext
<1>2. Bytes(Drawn(r)) \in Octets(8)
  <2>1. Drawn(r) \in Bits(8) /\ 8 \in Nat
    BY <1>1, PlusType DEF Drawn
  <2> QED
    BY <2>1, BytesAre, Zenon
<1> DEFINE s1 == Xor(a, b)
           c == Xor(Xor(ROTL(a, 55), s1), ShiftLeft(s1, 14))
<1>3. Advanced(r) = <<c, ROTL(s1, 36)>>
  BY <1>1 DEF Advanced
<1>4. 55 \in 0 .. 63 /\ 14 \in 0 .. 63 /\ 36 \in 0 .. 63
  OBVIOUS
<1>5. s1 \in Bits(8) /\ ROTL(a, 55) \in Bits(8)
  BY <1>4, BitwiseType, Zenon
<1> HIDE DEF s1
<1>6. ShiftLeft(s1, 14) \in Bits(8) /\ ROTL(s1, 36) \in Bits(8)
  <2>1. ShiftLeft(s1, 14) \in Bits(8)
    BY <1>4, <1>5, BitwiseType, Zenon
  <2>2. ROTL(s1, 36) \in Bits(8)
    BY <1>4, <1>5, BitwiseType, Zenon
  <2> QED
    BY <2>1, <2>2
<1>7. Xor(ROTL(a, 55), s1) \in Bits(8)
  BY <1>4, <1>5, BitwiseType, Zenon
<1>8. c \in Bits(8)
  BY <1>4, <1>6, <1>7, BitwiseType, Zenon
<1> QED
  BY <1>2, <1>3, <1>6, <1>8, Zenon DEF IsContext

LEMMA ShiftedXor ==
  ASSUME NEW a \in Bits(8), NEW n \in 0 .. 63
  PROVE  Xor(a, ShiftRight(a, n)) \in Bits(8)
<1>1. ShiftRight(a, n) \in Bits(8)
  BY BitwiseType, Zenon
<1> QED
  BY <1>1, BitwiseType, Zenon

LEMMA ConstantsAre == Gamma \in Bits(8) /\ Mix1 \in Bits(8) /\ Mix2 \in Bits(8)
<1> DEFINE g == <<21, 124, 74, 127, 185, 121, 55, 158>>
           x == <<185, 229, 228, 28, 109, 71, 88, 191>>
           y == <<235, 17, 49, 19, 187, 73, 208, 148>>
<1>1. g \in [1 .. 8 -> Int] /\ x \in [1 .. 8 -> Int] /\ y \in [1 .. 8 -> Int] /\ 8 \in Nat
  OBVIOUS
<1>2. Gamma = Word(g) /\ Mix1 = Word(x) /\ Mix2 = Word(y)
  BY Zenon DEF Gamma, Mix1, Mix2
<1> HIDE DEF g, x, y
<1>3. Word(g) \in Bits(8)
  BY <1>1, WordType
<1>4. Word(x) \in Bits(8)
  BY <1>1, WordType
<1>5. Word(y) \in Bits(8)
  BY <1>1, WordType
<1> QED
  BY <1>2, <1>3, <1>4, <1>5, Zenon

LEMMA ValueIs ==
  ASSUME NEW seed \in Bits(8)
  PROVE  splitmix64_value(seed) \in Bits(8)
<1> DEFINE y == Times(Xor(seed, ShiftRight(seed, 30)), Mix1)
           z == Times(Xor(y, ShiftRight(y, 27)), Mix2)
<1>1. 30 \in 0 .. 63 /\ 27 \in 0 .. 63 /\ 31 \in 0 .. 63
  OBVIOUS
<1>2. y \in Bits(8)
  BY <1>1, ShiftedXor, ConstantsAre, TimesType, Zenon
<1>3. splitmix64_value(seed) = Xor(z, ShiftRight(z, 31))
  BY DEF splitmix64_value
<1> HIDE DEF y
<1>4. z \in Bits(8)
  BY <1>1, <1>2, ShiftedXor, ConstantsAre, TimesType, Zenon
<1> HIDE DEF z
<1> QED
  BY <1>1, <1>3, <1>4, ShiftedXor, Zenon

(* Seeding leaves a pair of words.                                         *)
LEMMA InitIs ==
  ASSUME NEW s \in Seconds
  PROVE  IsContext(xoroshiro128_init(Seed(s)))
<1> DEFINE seed == Seed(s)
           next == Plus(<<seed, Gamma>>)
<1>1. s \in Int
  BY SecondsAssumption
<1>2. seed \in Bits(8)
  BY <1>1, Word64Type, Zenon DEF Seed
<1> HIDE DEF seed
<1>3. next \in Bits(8)
  BY <1>2, ConstantsAre, PlusType, Zenon
<1>4. xoroshiro128_init(seed) =
        <<splitmix64_value(next), splitmix64_value(Plus(<<next, Gamma>>))>>
  BY DEF xoroshiro128_init
<1> HIDE DEF next
<1>5. splitmix64_value(next) \in Bits(8) /\ Plus(<<next, Gamma>>) \in Bits(8)
  BY <1>3, ConstantsAre, PlusType, ValueIs, Zenon
<1>6. splitmix64_value(Plus(<<next, Gamma>>)) \in Bits(8)
  BY <1>5, ValueIs, Zenon
<1> QED
  BY <1>4, <1>5, <1>6, Zenon DEF IsContext, seed

(* The contexts the generator goes through from every second, as far as    *)
(* they have been needed.                                                  *)
Chain(F, n) ==
  /\ n \in [Seconds -> Nat]
  /\ \A s \in Seconds :
       /\ F[s][0] = xoroshiro128_init(Seed(s))
       /\ \A k \in 0 .. n[s] - 1 : F[s][k + 1] = Advanced(F[s][k])
       /\ \A k \in 0 .. n[s] : IsContext(F[s][k])

(* The xth byte drawn from the contexts of second s.                       *)
FillByte(F, s, x) == Bytes(Drawn(F[s][(x - 1) \div 8]))[((x - 1) % 8) + 1]

(* These bytes are the ones of the first w contexts. *)
Holds(F, n, s, b, w) ==
  /\ w \in Nat
  /\ w <= n[s]
  /\ b = [x \in 1 .. 8 * w |-> FillByte(F, s, x)]

(* F2 goes on where F ends.                                                *)
Kept(F, n, F2, n2) ==
  \A t \in Seconds : n[t] <= n2[t] /\ \A k \in 0 .. n[t] : F2[t][k] = F[t][k]

(* One more context can be had, and those there are stay.                  *)
LEMMA ChainGrows ==
  ASSUME NEW F, NEW n, Chain(F, n), NEW s \in Seconds, NEW w \in Nat, w <= n[s]
  PROVE  \E F2, n2 : /\ Chain(F2, n2) /\ Kept(F, n, F2, n2)
                     /\ w + 1 <= n2[s]
                     /\ F2[s][w + 1] = Advanced(F[s][w])
<1> DEFINE n2 == [t \in Seconds |-> IF t = s /\ n[t] = w THEN w + 1 ELSE n[t]]
           F2 == [t \in Seconds |-> [k \in 0 .. n2[t] |->
                   IF t = s /\ k = w + 1 THEN Advanced(F[s][w]) ELSE F[t][k]]]
<1>1. /\ \A t \in Seconds : n[t] \in Nat
      /\ \A t \in Seconds : F[t][0] = xoroshiro128_init(Seed(t))
      /\ \A t \in Seconds : \A k \in 0 .. n[t] - 1 : F[t][k + 1] = Advanced(F[t][k])
  BY DEF Chain
<1>2. \A t \in Seconds : n2[t] \in Nat /\ n[t] <= n2[t]
  BY <1>1
<1>3. w + 1 <= n2[s] /\ (n2[s] = n[s] \/ (n[s] = w /\ n2[s] = w + 1))
  BY <1>1
<1>4. \A t \in Seconds : t # s => n2[t] = n[t]
  OBVIOUS
<1>5. n2 \in [Seconds -> Nat]
  BY <1>1
<1> HIDE DEF n2
<1>6. \A t \in Seconds : \A k \in 0 .. n2[t] :
        F2[t][k] = IF t = s /\ k = w + 1 THEN Advanced(F[s][w]) ELSE F[t][k]
  OBVIOUS
<1> HIDE DEF F2
<1>7. F2[s][w + 1] = Advanced(F[s][w])
  <2>1. w + 1 \in 0 .. n2[s]
    BY <1>2, <1>3
  <2> QED
    BY <1>6, <2>1
<1>8. ASSUME NEW t \in Seconds, NEW k \in 0 .. n[t]
      PROVE  F2[t][k] = F[t][k]
  <2>1. k \in 0 .. n2[t]
    BY <1>1, <1>2
  <2>2. CASE t = s /\ k = w + 1
    <3>1. w \in 0 .. n[s] - 1
      BY <1>1, <2>2
    <3> QED
      BY <1>1, <1>6, <2>1, <2>2, <3>1
  <2>3. CASE ~(t = s /\ k = w + 1)
    BY <1>6, <2>1, <2>3
  <2> QED
    BY <2>2, <2>3
<1>9. Kept(F, n, F2, n2)
  BY <1>2, <1>8 DEF Kept
<1>10. Chain(F2, n2)
  <2>1. ASSUME NEW t \in Seconds
        PROVE  F2[t][0] = xoroshiro128_init(Seed(t))
    <3>1. 0 \in 0 .. n[t]
      BY <1>1
    <3> QED
      BY <1>1, <1>8, <3>1
  <2>2. ASSUME NEW t \in Seconds, NEW k \in 0 .. n2[t] - 1
        PROVE  F2[t][k + 1] = Advanced(F2[t][k])
    <3>1. CASE k + 1 <= n[t]
      <4>1. k \in 0 .. n[t] - 1 /\ k \in 0 .. n[t] /\ k + 1 \in 0 .. n[t]
        BY <1>1, <1>2, <3>1
      <4> QED
        BY <1>1, <1>8, <4>1
    <3>2. CASE ~(k + 1 <= n[t])
      <4>1. t = s /\ k = w /\ k \in 0 .. n[t]
        BY <1>1, <1>2, <1>3, <1>4, <3>2
      <4> QED
        BY <1>7, <1>8, <4>1
    <3> QED
      BY <3>1, <3>2
  <2>3. ASSUME NEW t \in Seconds, NEW k \in 0 .. n2[t]
        PROVE  IsContext(F2[t][k])
    <3>1. CASE k <= n[t]
      <4>1. k \in 0 .. n[t]
        BY <1>1, <3>1
      <4> QED
        BY <1>8, <4>1 DEF Chain
    <3>2. CASE ~(k <= n[t])
      <4>1. t = s /\ k = w + 1 /\ w \in 0 .. n[s]
        BY <1>1, <1>2, <1>3, <1>4, <3>2
      <4>2. IsContext(F[s][w])
        BY <4>1, Zenon DEF Chain
      <4> QED
        BY <1>7, <4>1, <4>2, AdvancedIs
    <3> QED
      BY <3>1, <3>2
  <2> QED
    BY <1>5, <2>1, <2>2, <2>3, Zenon DEF Chain
<1> QED
  BY <1>3, <1>7, <1>9, <1>10

LEMMA HoldsKept ==
  ASSUME NEW F, NEW n, NEW F2, NEW n2, Chain(F, n), Chain(F2, n2), Kept(F, n, F2, n2),
         NEW s \in Seconds, NEW b, NEW w, Holds(F, n, s, b, w)
  PROVE  Holds(F2, n2, s, b, w)
<1>1. /\ n[s] \in Nat /\ n2[s] \in Nat /\ n[s] <= n2[s]
      /\ \A k \in 0 .. n[s] : F2[s][k] = F[s][k]
  BY DEF Chain, Kept
<1>2. w \in Nat /\ w <= n[s] /\ b = [x \in 1 .. 8 * w |-> FillByte(F, s, x)]
  BY DEF Holds
<1>3. ASSUME NEW x \in 1 .. 8 * w
      PROVE  FillByte(F2, s, x) = FillByte(F, s, x)
  <2>1. (x - 1) \div 8 \in 0 .. n[s]
    BY <1>1, <1>2
  <2> QED
    BY <1>1, <2>1 DEF FillByte
<1>4. w <= n2[s]
  BY <1>1, <1>2
<1>5. b = [x \in 1 .. 8 * w |-> FillByte(F2, s, x)]
  BY <1>2, <1>3
<1> QED
  BY <1>2, <1>4, <1>5 DEF Holds

(* Sequences as functions: joined, appended to, cut.                       *)
LEMMA ConcatFcn ==
  ASSUME NEW f, NEW m \in Nat, Listed(f, m),
         NEW g, NEW l \in Nat, Listed(g, l)
  PROVE  f \o g = [i \in 1 .. m + l |-> IF i <= m THEN f[i] ELSE g[i - m]]
<1> DEFINE S == {f[i] : i \in 1 .. m} \cup {g[i] : i \in 1 .. l}
<1>1. f \in [1 .. m -> S] /\ g \in [1 .. l -> S]
  BY DEF Listed
<1> HIDE DEF S
<1>2. f \in Seq(S) /\ Len(f) = m /\ g \in Seq(S) /\ Len(g) = l
  BY <1>1
<1> QED
  BY <1>2 DEF Listed

LEMMA AppendFcn ==
  ASSUME NEW f, NEW m \in Nat, f = [i \in 1 .. m |-> f[i]], NEW e
  PROVE  Append(f, e) = [i \in 1 .. m + 1 |-> IF i <= m THEN f[i] ELSE e]
<1> DEFINE S == {f[i] : i \in 1 .. m} \cup {e}
<1>1. f \in [1 .. m -> S] /\ e \in S
  OBVIOUS
<1> HIDE DEF S
<1>2. f \in Seq(S) /\ Len(f) = m
  BY <1>1
<1> QED
  BY <1>1, <1>2

LEMMA PrefixFcn ==
  ASSUME NEW l \in Nat, NEW m \in Nat, l <= m,
         NEW f, Listed(f, l), NEW g, Listed(g, m),
         \A x \in 1 .. l : f[x] = g[x]
  PROVE  f = SubSeq(g, 1, l)
<1> DEFINE S == {g[i] : i \in 1 .. m}
<1>1. g \in [1 .. m -> S]
  BY DEF Listed
<1> HIDE DEF S
<1>2. g \in Seq(S) /\ Len(g) = m
  BY <1>1
<1>3. SubSeq(g, 1, l) = [x \in 1 .. l |-> g[x]]
  BY <1>2
<1> QED
  BY <1>3 DEF Listed

LEMMA AtWord ==
  ASSUME NEW w \in Nat, NEW x \in Nat, 8 * w < x, x <= 8 * w + 8
  PROVE  (x - 1) \div 8 = w /\ ((x - 1) % 8) + 1 = x - 8 * w
OBVIOUS

(* A word drawn from the next context makes the bytes those of one more.   *)
LEMMA HoldsMore ==
  ASSUME NEW F, NEW n, NEW s \in Seconds, NEW b, NEW w, Holds(F, n, s, b, w),
         n[s] \in Nat, w + 1 <= n[s], Bytes(Drawn(F[s][w])) \in Octets(8)
  PROVE  Holds(F, n, s, b \o Bytes(Drawn(F[s][w])), w + 1)
<1> DEFINE more == Bytes(Drawn(F[s][w]))
           len == 8 * w
<1>1. w \in Nat /\ len \in Nat /\ b = [x \in 1 .. len |-> FillByte(F, s, x)]
  BY DEF Holds
<1>2. b = [x \in 1 .. len |-> b[x]] /\ \A x \in 1 .. len : b[x] = FillByte(F, s, x)
  BY <1>1
<1>3. Listed(more, 8) /\ Listed(b, len) /\ 8 \in Nat
  BY <1>2 DEF Octets, Listed
<1> HIDE DEF more, len
<1>4. b \o more = [x \in 1 .. len + 8 |-> IF x <= len THEN b[x] ELSE more[x - len]]
  BY <1>1, <1>3, ConcatFcn
<1>5. ASSUME NEW x \in 1 .. len + 8
      PROVE  (IF x <= len THEN b[x] ELSE more[x - len]) = FillByte(F, s, x)
  <2>1. CASE x <= len
    <3>1. x \in 1 .. len
      BY <1>1, <2>1
    <3> QED
      BY <1>2, <2>1, <3>1
  <2>2. CASE ~(x <= len)
    <3>1. (x - 1) \div 8 = w /\ ((x - 1) % 8) + 1 = x - len
      <4>1. x \in Nat /\ 8 * w < x /\ x <= 8 * w + 8
        BY <1>1, <2>2 DEF len
      <4> QED
        BY <1>1, <4>1, AtWord DEF len
    <3> QED
      BY <2>2, <3>1 DEF FillByte, more
  <2> QED
    BY <2>1, <2>2
<1>6. len + 8 = 8 * (w + 1) /\ w + 1 \in Nat
  BY <1>1 DEF len
<1>7. b \o more = [x \in 1 .. 8 * (w + 1) |-> FillByte(F, s, x)]
  BY <1>4, <1>5, <1>6
<1> QED
  BY <1>6, <1>7 DEF Holds, more

(* The bytes of one call that ended are those of its whole words, from the *)
(* contexts of its second, and it returned when nothing was left.          *)
FromChain(F, n, r) ==
  /\ r.second \in Seconds
  /\ r.len \in Int
  /\ Holds(F, n, r.second, r.bytes, r.len \div 8)
  /\ r.status = SUCCESS <=> r.len = 8 * (r.len \div 8)

(* A call that is being filled holds whole words, and the context is the   *)
(* one the next word is drawn from.                                        *)
Filling(F, n, s, r, b, l) ==
  /\ s \in Seconds
  /\ IsContext(r)
  /\ \E w : /\ Holds(F, n, s, b, w)
            /\ r = F[s][w]
            /\ 8 * w <= l

LEMMA FromChainKept ==
  ASSUME NEW F, NEW n, NEW F2, NEW n2, Chain(F, n), Chain(F2, n2), Kept(F, n, F2, n2),
         NEW r, FromChain(F, n, r)
  PROVE  FromChain(F2, n2, r)
<1>1. /\ r.second \in Seconds /\ r.len \in Int
      /\ Holds(F, n, r.second, r.bytes, r.len \div 8)
      /\ r.status = SUCCESS <=> r.len = 8 * (r.len \div 8)
  BY Zenon DEF FromChain
<1>2. Holds(F2, n2, r.second, r.bytes, r.len \div 8)
  BY <1>1, HoldsKept
<1> QED
  BY <1>1, <1>2, Zenon DEF FromChain

LEMMA HoldsLen ==
  ASSUME NEW F, NEW n, NEW s, NEW b, NEW w, Holds(F, n, s, b, w)
  PROVE  Len(b) = 8 * w /\ b = [x \in 1 .. 8 * w |-> b[x]]
<1>1. 8 * w \in Nat /\ b = [x \in 1 .. 8 * w |-> FillByte(F, s, x)]
  BY DEF Holds
<1>2. b = [x \in 1 .. 8 * w |-> b[x]]
  BY <1>1
<1> QED
  BY <1>1, <1>2, LenOfFcn

(* The invariant: there are contexts, one after another from the seed of   *)
(* every second, that all the bytes drawn so far come from.                *)
FillInv ==
  /\ want \in Int
  /\ \E k \in Nat : fills = [i \in 1 .. k |-> fills[i]]
  /\ \E F, n :
       /\ Chain(F, n)
       /\ \A i \in DOMAIN fills : FromChain(F, n, fills[i])
       /\ want >= 0 => Filling(F, n, second, rnd, buffer, want)

(* Every action keeps the invariant.                                       *)
LEMMA FillStart == Init => FillInv
<1> SUFFICES ASSUME Init PROVE FillInv
  OBVIOUS
<1>1. want = -1 /\ fills = <<>>
  BY DEF Init
<1> DEFINE n == [s \in Seconds |-> 0]
           F == [s \in Seconds |-> [k \in 0 .. 0 |-> xoroshiro128_init(Seed(s))]]
<1>2. Chain(F, n)
  <2>1. \A s \in Seconds : F[s][0] = xoroshiro128_init(Seed(s))
    OBVIOUS
  <2>2. \A s \in Seconds : \A k \in 0 .. n[s] - 1 : FALSE
    OBVIOUS
  <2>3. n \in [Seconds -> Nat]
    OBVIOUS
  <2>4. ASSUME NEW s \in Seconds, NEW k \in 0 .. n[s]
        PROVE  IsContext(F[s][k])
    <3>1. k = 0
      OBVIOUS
    <3> HIDE DEF F
    <3> QED
      BY <2>1, <3>1, InitIs
  <2> QED
    BY <2>1, <2>2, <2>3, <2>4, Zenon DEF Chain
<1> HIDE DEF n, F
<1>3. want \in Int /\ ~(want >= 0)
  BY <1>1
<1>4. fills = [i \in 1 .. 0 |-> fills[i]] /\ 0 \in Nat
  BY <1>1
<1>5. \A i \in DOMAIN fills : FALSE
  BY <1>1
<1> QED
  BY <1>2, <1>3, <1>4, <1>5, Zenon DEF FillInv

LEMMA StartFillKeeps ==
  ASSUME FillInv, StartFill
  PROVE  FillInv'
<1>1. PICK F, n : Chain(F, n) /\ \A i \in DOMAIN fills : FromChain(F, n, fills[i])
  BY Zenon DEF FillInv
<1>2. /\ second' \in Seconds
      /\ rnd' = xoroshiro128_init(Seed(second'))
      /\ want' \in Lengths
      /\ buffer' = <<>>
      /\ fills' = fills
  BY DEF StartFill
<1>3. want' \in Nat
  BY <1>2, LengthAssumption
<1>4. F[second'][0] = rnd' /\ n[second'] \in Nat
  BY <1>1, <1>2 DEF Chain
<1>5. Holds(F, n, second', buffer', 0)
  BY <1>2, <1>4 DEF Holds
<1>6. IsContext(rnd')
  BY <1>2, InitIs
<1>7. Filling(F, n, second', rnd', buffer', want')
  <2>1. 8 * 0 <= want'
    BY <1>3
  <2> QED
    BY <1>2, <1>4, <1>5, <1>6, <2>1, Zenon DEF Filling
<1>8. \E k \in Nat : fills' = [i \in 1 .. k |-> fills'[i]]
  BY <1>2, Zenon DEF FillInv
<1>9. want' \in Int
  BY <1>3
<1> QED
  BY <1>1, <1>2, <1>7, <1>8, <1>9, Zenon DEF FillInv

LEMMA FillWordKeeps ==
  ASSUME FillInv, FillWord
  PROVE  FillInv'
<1>1. /\ want >= 0 /\ want' = want /\ fills' = fills /\ second' = second
      /\ Len(buffer) \div 8 < want \div 8
      /\ buffer' = buffer \o Bytes(Drawn(rnd))
      /\ rnd' = Advanced(rnd)
  BY DEF FillWord, MoreWords
<1>2. PICK F, n : /\ Chain(F, n)
                  /\ \A i \in DOMAIN fills : FromChain(F, n, fills[i])
                  /\ Filling(F, n, second, rnd, buffer, want)
  BY <1>1, Zenon DEF FillInv
<1>3. PICK w : Holds(F, n, second, buffer, w) /\ rnd = F[second][w]
  BY <1>2 DEF Filling
<1>4. second \in Seconds /\ IsContext(rnd)
  BY <1>2 DEF Filling
<1>5. w \in Nat /\ w <= n[second]
  BY <1>3 DEF Holds
<1>6. PICK F2, n2 : /\ Chain(F2, n2) /\ Kept(F, n, F2, n2)
                    /\ w + 1 <= n2[second]
                    /\ F2[second][w + 1] = Advanced(F[second][w])
  BY <1>2, <1>4, <1>5, ChainGrows
<1>7. F2[second][w] = rnd
  <2>1. n[second] \in Nat
    BY <1>2, <1>4 DEF Chain
  <2>2. w \in 0 .. n[second]
    BY <1>5, <2>1
  <2> QED
    BY <1>3, <1>4, <1>6, <2>2 DEF Kept
<1>8. Holds(F2, n2, second, buffer', w + 1)
  <2>1. Holds(F2, n2, second, buffer, w)
    BY <1>2, <1>3, <1>4, <1>6, HoldsKept
  <2>2. n2[second] \in Nat
    BY <1>4, <1>6 DEF Chain
  <2>3. Bytes(Drawn(F2[second][w])) \in Octets(8)
    BY <1>4, <1>7, AdvancedIs
  <2> QED
    BY <1>1, <1>4, <1>6, <1>7, <2>1, <2>2, <2>3, HoldsMore
<1>9. 8 * (w + 1) <= want
  <2>1. Len(buffer) = 8 * w
    BY <1>3, HoldsLen
  <2>2. want \in Int
    BY DEF FillInv
  <2> QED
    BY <1>1, <1>5, <2>1, <2>2
<1>10. Filling(F2, n2, second', rnd', buffer', want')
  <2>1. IsContext(rnd')
    BY <1>1, <1>4, AdvancedIs
  <2>2. rnd' = F2[second][w + 1]
    BY <1>1, <1>3, <1>6
  <2> QED
    BY <1>1, <1>4, <1>8, <1>9, <2>1, <2>2, Zenon DEF Filling
<1>11. \A i \in DOMAIN fills' : FromChain(F2, n2, fills'[i])
  BY <1>1, <1>2, <1>6, FromChainKept
<1>12. want' \in Int /\ \E k \in Nat : fills' = [i \in 1 .. k |-> fills'[i]]
  BY <1>1, Zenon DEF FillInv
<1> QED
  BY <1>6, <1>10, <1>11, <1>12, Zenon DEF FillInv

(* The assertion behind the whole words fails whenever there is a byte.    *)
LEMMA RestFails ==
  ASSUME want \in Nat
  PROVE  RestAsserted <=> want % 8 = 0
<1>1. want % 8 \in 0 .. 7 /\ want \div 8 \in Nat /\ want = 8 * (want \div 8) + (want % 8)
  OBVIOUS
<1> DEFINE r == want % 8
           q == want \div 8
<1>2. CASE r = 0
  BY <1>2 DEF RestAsserted
<1>3. CASE r # 0
  <2>1. 0 \in 0 .. r - 1 /\ ~(8 * q + 0 > want)
    BY <1>1, <1>3
  <2> QED
    BY <1>3, <2>1 DEF RestAsserted
<1> QED
  BY <1>2, <1>3

(* The rest of no bytes adds none to the whole words.                      *)
LEMMA NoRest ==
  ASSUME NEW F, NEW n, NEW s, NEW b, NEW w, Holds(F, n, s, b, w),
         NEW d \in Octets(8)
  PROVE  b \o SubSeq(d, 1, 0) = b
<1>1. SubSeq(d, 1, 0) = << >>
  BY DEF Octets
<1>2. 8 * w \in Nat /\ b = [x \in 1 .. 8 * w |-> b[x]]
  BY HoldsLen DEF Holds
<1> DEFINE l == 8 * w
<1> HIDE DEF l
<1>3. l \in Nat /\ b = [x \in 1 .. l |-> b[x]]
  BY <1>2 DEF l
<1>4. b \in Seq({b[x] : x \in 1 .. l})
  BY <1>3
<1> QED
  BY <1>1, <1>4, ConcatEmptySeq

LEMMA FillRestKeeps ==
  ASSUME FillInv, FillRest
  PROVE  FillInv'
<1> DEFINE r == [second |-> second, len |-> want, bytes |-> buffer,
                 status |-> IF want % 8 = 0 THEN SUCCESS ELSE ABORT]
<1>1. PICK F, n : /\ Chain(F, n)
                  /\ \A i \in DOMAIN fills : FromChain(F, n, fills[i])
                  /\ Filling(F, n, second, rnd, buffer, want)
  BY Zenon DEF FillRest, FillInv
<1>2. PICK w : Holds(F, n, second, buffer, w) /\ 8 * w <= want
  BY <1>1 DEF Filling
<1>3. /\ want >= 0 /\ ~(Len(buffer) \div 8 < want \div 8)
      /\ fills' = Append(fills, r)
      /\ want' = IF want % 8 = 0 THEN -1 ELSE -2
  <2>1. want \in Nat
    BY DEF FillRest, FillInv
  <2>2. RestAsserted <=> want % 8 = 0
    BY <2>1, RestFails
  <2>3. Bytes(Drawn(rnd)) \in Octets(8)
    BY <1>1, AdvancedIs DEF Filling
  <2>4. buffer \o SubSeq(Bytes(Drawn(rnd)), 1, 0) = buffer
    BY <1>2, <2>3, NoRest
  <2>5. CASE want % 8 = 0
    BY <2>2, <2>4, <2>5, Zenon DEF FillRest, MoreWords
  <2>6. CASE want % 8 # 0
    BY <2>2, <2>6, Zenon DEF FillRest, MoreWords
  <2> QED
    BY <2>5, <2>6
<1>4. want \in Int /\ want' \in Int /\ ~(want' >= 0)
  BY <1>3 DEF FillInv
<1>5. FromChain(F, n, r)
  <2>1. Len(buffer) = 8 * w
    BY <1>2, HoldsLen
  <2>2. w \in Nat
    BY <1>2 DEF Holds
  <2>3. w = want \div 8 /\ (want % 8 = 0 <=> want = 8 * (want \div 8))
    BY <1>2, <1>3, <1>4, <2>1, <2>2
  <2>4. r.status = SUCCESS <=> r.len = 8 * (r.len \div 8)
    BY <2>3 DEF SUCCESS, ABORT
  <2>5. r.second \in Seconds /\ r.len \in Int
    BY <1>1, <1>4 DEF Filling
  <2>6. Holds(F, n, r.second, r.bytes, r.len \div 8)
    BY <1>2, <2>3
  <2> HIDE DEF r
  <2> QED
    BY <2>4, <2>5, <2>6, Zenon DEF FromChain
<1> HIDE DEF r
<1>6. PICK k \in Nat : fills = [i \in 1 .. k |-> fills[i]]
  BY DEF FillInv
<1>7. fills' = [i \in 1 .. k + 1 |-> IF i <= k THEN fills[i] ELSE r]
  BY <1>3, <1>6, AppendFcn
<1>8. fills' = [i \in 1 .. k + 1 |-> fills'[i]] /\ k + 1 \in Nat
  BY <1>7
<1>9. ASSUME NEW i \in DOMAIN fills'
      PROVE  FromChain(F, n, fills'[i])
  <2>1. i \in 1 .. k + 1
    BY <1>7
  <2>2. CASE i <= k
    <3>1. i \in DOMAIN fills /\ fills'[i] = fills[i]
      BY <1>6, <1>7, <2>1, <2>2
    <3> QED
      BY <1>1, <3>1
  <2>3. CASE ~(i <= k)
    <3>1. fills'[i] = r
      BY <1>7, <2>1, <2>3
    <3> QED
      BY <1>5, <3>1
  <2> QED
    BY <2>2, <2>3
<1> QED
  BY <1>1, <1>4, <1>8, <1>9, Zenon DEF FillInv

LEMMA FillInvariant == Spec => []FillInv
<1>1. FillInv /\ [Next]_vars => FillInv'
  <2> SUFFICES ASSUME FillInv, [Next]_vars
               PROVE  FillInv'
    OBVIOUS
  <2>1. CASE StartFill
    BY <2>1, StartFillKeeps
  <2>2. CASE FillWord
    BY <2>2, FillWordKeeps
  <2>3. CASE FillRest
    BY <2>3, FillRestKeeps
  <2>4. CASE UNCHANGED randomVars
    <3>1. /\ second' = second /\ rnd' = rnd /\ want' = want
          /\ buffer' = buffer /\ fills' = fills
      BY <2>4 DEF randomVars
    <3> QED
      BY <3>1, Zenon DEF FillInv
  <2>5. CASE Encode \/ Decode \/ Pad64 \/ sha1_round \/ sha1_process_block
    BY <2>4, <2>5 DEF Encode, Decode, Pad64, sha1_round, sha1_process_block
  <2>6. CASE UNCHANGED vars
    BY <2>4, <2>6 DEF vars
  <2> QED
    BY <2>1, <2>2, <2>3, <2>5, <2>6 DEF Next
<1> QED
  BY FillStart, <1>1, PTL DEF Spec

(* Calls of xoroshiro128_fill fill the whole words of their buffers,       *)
(* whatever lengths they are given, within a second with the same bytes,   *)
(* and return exactly when there is nothing behind the whole words.        *)
THEOREM SameSecondSameBytes == Spec => []FillsAgree
<1>1. FillInv => FillsAgree
  <2> SUFFICES ASSUME FillInv, NEW i \in DOMAIN fills, NEW j \in DOMAIN fills
               PROVE  LET whole == 8 * (fills[i].len \div 8)
                      IN  /\ fills[i].status = SUCCESS <=> fills[i].len = whole
                          /\ Len(fills[i].bytes) = whole
                          /\ fills[i].second = fills[j].second /\ fills[i].len <= fills[j].len =>
                               fills[i].bytes = SubSeq(fills[j].bytes, 1, whole)
    BY DEF FillsAgree
  <2> DEFINE w == fills[i].len \div 8
             v == fills[j].len \div 8
  <2>1. PICK F, n : FromChain(F, n, fills[i]) /\ FromChain(F, n, fills[j])
    BY Zenon DEF FillInv
  <2>2. /\ Holds(F, n, fills[i].second, fills[i].bytes, w)
        /\ fills[i].len \in Int
        /\ fills[i].status = SUCCESS <=> fills[i].len = 8 * w
    BY <2>1, Zenon DEF FromChain
  <2>3. Holds(F, n, fills[j].second, fills[j].bytes, v) /\ fills[j].len \in Int
    BY <2>1, Zenon DEF FromChain
  <2>4. Len(fills[i].bytes) = 8 * w
    BY <2>2, HoldsLen
  <2>5. ASSUME fills[i].second = fills[j].second, fills[i].len <= fills[j].len
        PROVE  fills[i].bytes = SubSeq(fills[j].bytes, 1, 8 * w)
    <3>0. w <= v
      BY <2>2, <2>3, <2>5
    <3> HIDE DEF w, v
    <3> DEFINE s == fills[j].second
               a == fills[i].bytes
               b == fills[j].bytes
               l == 8 * w
               m == 8 * v
    <3>1. w \in Nat /\ a = [x \in 1 .. 8 * w |-> FillByte(F, s, x)]
      BY <2>2, <2>5 DEF Holds
    <3>2. v \in Nat /\ b = [x \in 1 .. 8 * v |-> FillByte(F, s, x)]
      BY <2>3 DEF Holds
    <3>3. l = 8 * w /\ m = 8 * v /\ l <= m /\ l \in Nat /\ m \in Nat
      BY <3>0, <3>1, <3>2
    <3>4. a = [x \in 1 .. l |-> FillByte(F, s, x)] /\ b = [x \in 1 .. m |-> FillByte(F, s, x)]
      BY <3>1, <3>2, <3>3
    <3> HIDE DEF s, a, b, l, m
    <3>5. Listed(a, l) /\ Listed(b, m) /\ \A x \in 1 .. l : a[x] = b[x]
      BY <3>3, <3>4 DEF Listed
    <3>6. a = SubSeq(b, 1, l)
      BY <3>3, <3>5, PrefixFcn
    <3> QED
      BY <3>6 DEF a, b, l
  <2> QED
    BY <2>2, <2>4, <2>5
<1> QED
  BY <1>1, FillInvariant, PTL

-------------------------------------------------------------------------------
(* The keys.                                                               *)

(* 16 bytes fit the 24 characters of a key, with its padding.              *)
LEMMA KeyEncoded ==
  ASSUME NEW bytes \in Seq(Byte), Len(bytes) = 16
  PROVE  LET k == base64_encode(bytes, 24, TRUE)
         IN  /\ k.status = SUCCESS
             /\ Len(k.out) = 24
             /\ IsText(bytes, TRUE, k.out)
<1> DEFINE k == base64_encode(bytes, 24, TRUE)
<1>1. EncodeRequired(16) = 24 /\ CharLen(16) = 22 /\ TRUE \in BOOLEAN /\ 24 \in Int
  BY DEF EncodeRequired, CharLen
<1>2. Len(Chars(bytes)) = 22
  BY <1>1, CharsAre
<1>3. Pads(bytes, TRUE) \in Nat /\ 22 + Pads(bytes, TRUE) = 24
  BY <1>1, PadsAre
<1>4. k.status = SUCCESS
  <2> DEFINE c == Chars(bytes)
             g == Pads(bytes, TRUE)
  <2>1. ~(24 < EncodeRequired(Len(bytes))) /\ ~(Len(c) >= 24) /\ ~(Len(c) + g > 24)
    <3> DEFINE size == EncodeRequired(Len(bytes))
               length == Len(c)
    <3>1. size = 24 /\ length = 22 /\ g \in Nat /\ 22 + g = 24
      BY <1>1, <1>2, <1>3, Zenon
    <3> HIDE DEF size, length, g
    <3>2. ~(24 < size) /\ ~(length >= 24) /\ ~(length + g > 24)
      BY ONLY <3>1, SMT
    <3> QED
      BY <3>2, Zenon DEF size, length
  <2>2. k = IF 24 < EncodeRequired(Len(bytes)) THEN Failure(TOO_SMALL)
            ELSE IF Len(c) >= 24 \/ Len(c) + g > 24 THEN Failure(ABORT)
            ELSE Success(c \o [i \in 1 .. g |-> Pad], Len(c) + g - 1)
    BY EncodeIs, Zenon
  <2> HIDE DEF c, g, k
  <2>3. k = Success(c \o [i \in 1 .. g |-> Pad], Len(c) + g - 1)
    BY <2>1, <2>2, Zenon
  <2> QED
    BY <2>3, Zenon DEF Success
<1> HIDE DEF k
<1>5. /\ k.out \in Seq(Int) /\ Len(k.out) = 24
      /\ \A i \in 1 .. 24 : k.out[i] = IF i > 22 THEN Pad ELSE Chars(bytes)[i]
  <2> DEFINE total == IF TRUE THEN EncodeRequired(Len(bytes)) ELSE CharLen(Len(bytes))
  <2>1. total = 24 /\ CharLen(Len(bytes)) = 22
    BY <1>1, Zenon
  <2>2. /\ k.out \in Seq(Int) /\ Len(k.out) = total
        /\ \A i \in 1 .. total : k.out[i] =
             IF i > CharLen(Len(bytes)) THEN Pad ELSE Chars(bytes)[i]
    BY <1>1, <1>4, EncodeResult, Zenon DEF k
  <2> HIDE DEF total
  <2> QED
    BY <2>1, <2>2, Zenon
<1>6. \A i \in 1 .. 22 : k.out[i] = Chars(bytes)[i]
  <2>1. \A i \in 1 .. 22 : i \in 1 .. 24 /\ ~(i > 22)
    OBVIOUS
  <2> QED
    BY <1>5, <2>1, Zenon
<1>7. IsText(bytes, TRUE, k.out)
  BY <1>1, <1>5, <1>6, Zenon DEF IsText
<1> QED
  BY <1>4, <1>5, <1>7, Zenon DEF k

(* Bytes whose text is decoded, without a rest of two, and what they are    *)
(* decoded to.                                                             *)
IsRead(bytes, padded, text, size) ==
  /\ bytes \in Seq(Byte)
  /\ Len(bytes) % 3 # 2
  /\ IsText(bytes, padded, text)
  /\ size \in Int
  /\ base64_decode(text, size).status = SUCCESS

IsGivenBack(bytes, out) ==
  /\ out \in Seq(Int)
  /\ Len(out) >= Len(bytes)
  /\ \A i \in 1 .. Len(bytes) : out[i] = bytes[i]

LEMMA WholeBack ==
  ASSUME NEW bytes, NEW padded, NEW text, NEW size, IsRead(bytes, padded, text, size)
  PROVE  IsGivenBack(bytes, base64_decode(text, size).out)
BY BytesBack, SMTT(40) DEF IsRead, IsGivenBack

(* A key is decoded to its bytes. *)
LEMMA KeyDecoded ==
  ASSUME NEW bytes \in Seq(Byte), Len(bytes) = 16,
         NEW padded, NEW text, IsText(bytes, padded, text), Len(text) = 24
  PROVE  SubSeq(base64_decode(text, 20).out, 1, 16) = bytes
<1> DEFINE result == base64_decode(text, 20)
           rest == Remaining(text)
           head == HeadBytes(text)
           all == head \o DecodeTail(_base64_to_data(rest))
<1>1. text \in Seq(Int) /\ Len(text) = 24
  BY DEF IsText, EncodeRequired
<1>2. Len(rest) = 0 /\ DOMAIN rest = {}
  <2>1. rest = SubSeq(text, 25, 24)
    BY <1>1 DEF Remaining
  <2> QED
    BY <1>1, <2>1
<1>3. head = [i \in 1 .. 18 |-> head[i]] /\ Len(head) = 18
  <2>1. head = [i \in 1 .. 18 |-> head[i]] /\ 18 \in Nat
    BY <1>1 DEF HeadBytes
  <2> HIDE DEF head
  <2> QED
    BY <2>1, LenOfFcn
<1>4. DecodeTail(_base64_to_data(rest)) = <<>>
  <2> DEFINE v == _base64_to_data(rest)
  <2>1. v = <<>>
    BY <1>2 DEF _base64_to_data
  <2> HIDE DEF v
  <2> QED
    BY <2>1 DEF DecodeTail, v
<1>5. Len(all) = 18
  <2> HIDE DEF head, rest
  <2>1. head \in Seq({head[i] : i \in 1 .. 18})
    BY <1>3, LenOfFcn
  <2> QED
    BY <1>3, <1>4, <2>1
<1>6. result = Success(all, Len(all) + 1)
  <2>1. ~(20 < DecodeRequired(Len(text))) /\ ~(Len(rest) = 1) /\ ~(3 * (Len(text) \div 4) >= 20)
        /\ ~(Len(all) >= 20)
    BY <1>1, <1>2, <1>5 DEF DecodeRequired
  <2>2. result = IF 20 < DecodeRequired(Len(text)) THEN Failure(TOO_SMALL)
                 ELSE IF Len(rest) = 1 \/ 3 * (Len(text) \div 4) >= 20 THEN Failure(ABORT)
                 ELSE IF Len(all) >= 20 THEN Failure(ABORT)
                 ELSE Success(all, Len(all) + 1)
    BY DecodeIs, Zenon
  <2> HIDE DEF result, rest, all
  <2> QED
    BY <2>1, <2>2, Zenon
<1>7. result.status = SUCCESS
  <2> HIDE DEF result, all
  <2> QED
    BY <1>6, Zenon DEF Success
<1> DEFINE out == result.out
<1>8. out \in Seq(Int) /\ Len(out) >= 16 /\ \A i \in 1 .. 16 : out[i] = bytes[i]
  <2>1. 20 \in Int /\ Len(bytes) % 3 # 2
    <3>1. 20 \in Int /\ 16 % 3 # 2
      OBVIOUS
    <3> QED
      BY <3>1, Zenon
  <2>2. IsRead(bytes, padded, text, 20)
    BY <1>7, <2>1, Zenon DEF IsRead
  <2>3. IsGivenBack(bytes, out)
    BY <2>2, WholeBack, Zenon
  <2> HIDE DEF result
  <2> QED
    BY <2>3, Zenon DEF IsGivenBack
<1> HIDE DEF result, out
<1>9. Len(out) \in Nat /\ 16 <= Len(out) /\ 16 \in Nat
  BY <1>8
<1>10. Listed(out, Len(out)) /\ Listed(bytes, 16)
  <2>1. \A q \in Seq(Int) : q = [i \in 1 .. Len(q) |-> q[i]]
    OBVIOUS
  <2>2. \A q \in Seq(Byte) : q = [i \in 1 .. Len(q) |-> q[i]]
    OBVIOUS
  <2> QED
    BY <1>8, <2>1, <2>2, Zenon DEF Listed
<1>11. \A i \in 1 .. 16 : bytes[i] = out[i]
  BY <1>8, Zenon
<1>12. bytes = SubSeq(out, 1, 16)
  <2> DEFINE m == Len(out)
             l == 16
  <2>1. /\ l \in Nat /\ m \in Nat /\ l <= m /\ Listed(bytes, l) /\ Listed(out, m)
        /\ \A i \in 1 .. l : bytes[i] = out[i]
    BY <1>9, <1>10, <1>11, Zenon
  <2> HIDE DEF l, m
  <2>2. bytes = SubSeq(out, 1, l)
    BY ONLY <2>1, PrefixFcn, SMT
  <2> QED
    BY <2>2 DEF l
<1> QED
  BY <1>12, Zenon DEF out, result

(* The bytes of a key are those of the second it was made in. *)
LEMMA KeyBytesAre ==
  ASSUME NEW F, NEW n, Chain(F, n), NEW s \in Seconds, NEW b, Holds(F, n, s, b, 2)
  PROVE  b = KeyBytes(s) /\ b \in Seq(Byte) /\ Len(b) = 16
<1> DEFINE f == Bytes(Drawn(F[s][0]))
           g == Bytes(Drawn(F[s][1]))
<1>1. n[s] \in Nat /\ 2 <= n[s] /\ b = [x \in 1 .. 16 |-> FillByte(F, s, x)]
  BY DEF Chain, Holds
<1>2. 0 \in 0 .. n[s] /\ 1 \in 0 .. n[s] /\ 0 \in 0 .. n[s] - 1 /\ 0 + 1 = 1
  BY <1>1
<1>3. /\ F[s][0] = xoroshiro128_init(Seed(s)) /\ F[s][1] = Advanced(F[s][0])
      /\ IsContext(F[s][0]) /\ IsContext(F[s][1])
  BY <1>2, Zenon DEF Chain
<1>4. f \in Octets(8) /\ g \in Octets(8)
  BY <1>3, AdvancedIs, Zenon
<1>5. KeyBytes(s) = f \o g
  BY <1>3, Zenon DEF KeyBytes, Seed
<1>6. \A x \in 1 .. 16 : FillByte(F, s, x) = IF x <= 8 THEN f[x] ELSE g[x - 8]
  <2>1. ASSUME NEW x \in 1 .. 8
        PROVE  FillByte(F, s, x) = f[x]
    <3>1. (x - 1) \div 8 = 0 /\ ((x - 1) % 8) + 1 = x
      OBVIOUS
    <3> QED
      BY <3>1, Zenon DEF FillByte
  <2>2. ASSUME NEW x \in 9 .. 16
        PROVE  FillByte(F, s, x) = g[x - 8]
    <3>1. (x - 1) \div 8 = 1 /\ ((x - 1) % 8) + 1 = x - 8
      OBVIOUS
    <3> QED
      BY <3>1, Zenon DEF FillByte
  <2>3. \A x \in 1 .. 16 : (x <= 8 => x \in 1 .. 8) /\ (~(x <= 8) => x \in 9 .. 16)
    OBVIOUS
  <2> HIDE DEF f, g
  <2> QED
    BY <2>1, <2>2, <2>3, Zenon
<1> HIDE DEF f, g
<1>7. Listed(f, 8) /\ Listed(g, 8) /\ 8 \in Nat
  BY <1>4 DEF Octets, Listed
<1>8. f \o g = [x \in 1 .. 8 + 8 |-> IF x <= 8 THEN f[x] ELSE g[x - 8]]
  BY <1>7, ConcatFcn
<1>9. b = [x \in 1 .. 16 |-> IF x <= 8 THEN f[x] ELSE g[x - 8]]
  BY <1>1, <1>6
<1>10. b = KeyBytes(s)
  <2>1. 8 + 8 = 16
    OBVIOUS
  <2> QED
    BY <1>5, <1>8, <1>9, <2>1, Zenon
<1>11. \A x \in 1 .. 16 : (IF x <= 8 THEN f[x] ELSE g[x - 8]) \in Byte
  <2>1. \A x \in 1 .. 8 : f[x] \in Byte /\ g[x] \in Byte
    BY <1>4, Zenon DEF Octets, Byte
  <2>2. \A x \in 1 .. 16 : (x <= 8 => x \in 1 .. 8) /\ (~(x <= 8) => x - 8 \in 1 .. 8)
    OBVIOUS
  <2> QED
    BY <2>1, <2>2, Zenon
<1>12. b \in [1 .. 16 -> Byte] /\ 16 \in Nat
  BY <1>9, <1>11, Zenon
<1>13. b \in Seq(Byte) /\ Len(b) = 16
  BY <1>12, LenIs, Zenon
<1> QED
  BY <1>10, <1>13

(* The key a call makes.                                                   *)
LEMMA KeyMade ==
  ASSUME FillInv, NEW i \in DOMAIN fills, fills[i].len = 16
  PROVE  LET k == _generate_sec_websocket_key(i)
         IN  /\ fills[i].second \in Seconds
             /\ fills[i].bytes = KeyBytes(fills[i].second)
             /\ k.status = SUCCESS
             /\ Len(k.out) = 24
             /\ SubSeq(base64_decode(k.out, 20).out, 1, 16) = fills[i].bytes
<1> DEFINE b == fills[i].bytes
           s == fills[i].second
           k == base64_encode(b, 24, TRUE)
<1>1. PICK F, n : Chain(F, n) /\ FromChain(F, n, fills[i])
  BY Zenon DEF FillInv
<1>2. Holds(F, n, s, b, 16 \div 8)
  BY <1>1, Zenon DEF FromChain
<1>3. 16 \div 8 = 2
  OBVIOUS
<1>4. s \in Seconds
  BY <1>1, Zenon DEF FromChain
<1>5. b = KeyBytes(s) /\ b \in Seq(Byte) /\ Len(b) = 16
  BY <1>1, <1>2, <1>3, <1>4, KeyBytesAre, Zenon
<1>6. k.status = SUCCESS /\ Len(k.out) = 24 /\ IsText(b, TRUE, k.out)
  BY <1>5, KeyEncoded, Zenon
<1>7. SubSeq(base64_decode(k.out, 20).out, 1, 16) = b
  BY <1>5, <1>6, KeyDecoded, Zenon
<1>8. _generate_sec_websocket_key(i) = k
  BY Zenon DEF _generate_sec_websocket_key
<1> QED
  BY <1>4, <1>5, <1>6, <1>7, <1>8, Zenon

(* However many connections are made, in whatever seconds: their keys are  *)
(* 24 characters that decode to the 16 bytes drawn, and two connections    *)
(* have the same key exactly when they are made in the same second, as far *)
(* as the generator tells the seconds apart.                               *)
THEOREM KeysAreTold ==
  ASSUME GeneratorTells
  PROVE  Spec => []KeysTellSeconds
<1>1. FillInv => KeysTellSeconds
  <2> SUFFICES ASSUME FillInv,
                      NEW i \in DOMAIN fills, fills[i].len = 16,
                      NEW j \in DOMAIN fills, fills[j].len = 16
               PROVE  LET k == _generate_sec_websocket_key(i)
                      IN  /\ k.status = SUCCESS
                          /\ Len(k.out) = 24
                          /\ SubSeq(base64_decode(k.out, 20).out, 1, 16) = fills[i].bytes
                          /\ k = _generate_sec_websocket_key(j)
                               <=> fills[i].second = fills[j].second
    BY Zenon DEF KeysTellSeconds
  <2> DEFINE k == _generate_sec_websocket_key(i)
             l == _generate_sec_websocket_key(j)
             s == fills[i].second
             t == fills[j].second
  <2>1. /\ s \in Seconds /\ fills[i].bytes = KeyBytes(s) /\ k.status = SUCCESS /\ Len(k.out) = 24
        /\ SubSeq(base64_decode(k.out, 20).out, 1, 16) = fills[i].bytes
    BY KeyMade, Zenon
  <2>2. /\ t \in Seconds /\ fills[j].bytes = KeyBytes(t)
        /\ SubSeq(base64_decode(l.out, 20).out, 1, 16) = fills[j].bytes
    BY KeyMade, Zenon
  <2>3. ASSUME k = l
        PROVE  s = t
    <3>1. KeyBytes(s) = KeyBytes(t)
      BY <2>1, <2>2, <2>3, Zenon
    <3> QED
      BY <2>1, <2>2, <3>1, Zenon DEF GeneratorTells
  <2>4. ASSUME s = t
        PROVE  k = l
    <3>1. fills[i].bytes = fills[j].bytes
      BY <2>1, <2>2, <2>4, Zenon
    <3> QED
      BY <3>1, Zenon DEF _generate_sec_websocket_key
  <2> QED
    BY <2>1, <2>3, <2>4, Zenon
<1> QED
  BY <1>1, FillInvariant, PTL

===============================================================================
