--------------------------------- MODULE Codec ---------------------------------
(***************************************************************************)
(* The codecs and generators under the handshake: base64_encode, and       *)
(* base64_decode of what it returned; how sha1_digest pads messages of     *)
(* every length; sha1_digest of some messages and the Sec-WebSocket-Accept *)
(* value websocket.c derives from it; and the keys drawn from the clock by *)
(* _generate_sec_websocket_key.  The calls share nothing: a behaviour      *)
(* makes calls of one kind.                                                *)
(***************************************************************************)
EXTENDS Base64, Sha1, Random

CONSTANTS
  Sample,      \* the values of the bytes that are encoded
  MaxData,     \* bound: bytes encoded in one call
  MaxSlack,    \* bound: bytes of an output buffer beyond what is required
  MaxMessage,  \* bound: length of a message whose padding is looked at
  Digests,     \* messages with their published digests
  Accepts,     \* keys with their published Sec-WebSocket-Accept values
  Seconds,     \* what time(NULL) may return
  Seeds,       \* the published first two values of splitmix64 for some of them
  Lengths,     \* lengths passed to xoroshiro128_fill
  MaxFills     \* bound: calls of xoroshiro128_fill

ASSUME SampleAssumption == Sample \subseteq Byte
ASSUME BoundAssumption == {MaxData, MaxSlack, MaxMessage, MaxFills} \subseteq Nat
ASSUME LengthAssumption == Lengths \subseteq Nat
ASSUME SecondsAssumption == Seconds \subseteq Nat

VARIABLES
  kind,             \* the calls this behaviour makes
  data, padding,    \* the input of base64_encode
  encoded, slack,   \* its result, and the size of the output buffer
  decoded, slack2,  \* the same of base64_decode
  msgLen, hashed,   \* a message length and the bytes hashed for it
  msg,              \* the message hashed
  block,            \* blocks hashed so far
  W, regs, H,       \* of sha1_process_block
  second,           \* the last time(NULL)
  rnd,              \* the generator's context
  want, buffer,     \* length and buffer of xoroshiro128_fill (-1: not called)
  fills             \* the calls that ended

base64Vars == <<data, padding, encoded, slack, decoded, slack2>>
paddingVars == <<msgLen, hashed>>
sha1Vars == <<msg, block, W, regs, H>>
randomVars == <<second, rnd, want, buffer, fills>>
vars == <<kind, base64Vars, paddingVars, sha1Vars, randomVars>>

None == Failure("none")

-------------------------------------------------------------------------------
(* base64.                                                                 *)

Encode ==
  /\ kind = "base64"
  /\ encoded = None
  /\ slack' \in -1 .. MaxSlack
  /\ EncodeRequired(Len(data)) + slack' >= 0
  /\ padding' \in BOOLEAN
  /\ encoded' = base64_encode(data, EncodeRequired(Len(data)) + slack', padding')
  /\ UNCHANGED <<kind, data, decoded, slack2, paddingVars, sha1Vars, randomVars>>

Decode ==
  /\ encoded.status = SUCCESS
  /\ decoded = None
  /\ slack2' \in -1 .. MaxSlack
  /\ DecodeRequired(Len(encoded.out)) + slack2' >= 0
  /\ decoded' = base64_decode(encoded.out, DecodeRequired(Len(encoded.out)) + slack2')
  /\ UNCHANGED <<kind, data, padding, encoded, slack, paddingVars, sha1Vars, randomVars>>

-------------------------------------------------------------------------------
(* SHA-1.                                                                  *)

(* The padding of messages of every length, one after another.             *)
Pad64 ==
  /\ kind = "padding"
  /\ msgLen < MaxMessage
  /\ msgLen' = msgLen + 1
  /\ hashed' = Hashed(msgLen')
  /\ UNCHANGED <<kind, base64Vars, sha1Vars, randomVars>>

Blocks(m) == AlignedLength(Len(m)) \div 64 + NBlocks(Len(m))

BlockWord(m, b, t) ==
  WordBE([k \in 1 .. 4 |-> HashedByte(m, 64 * b + 4 * t + k - 1)])

(* One round of sha1_process_block, with the word W_t puts behind W: one   *)
(* of the block's, or one made of earlier ones.                            *)
sha1_round ==
  /\ kind = "sha1"
  /\ block < Blocks(msg)
  /\ Len(W) < 80
  /\ LET word == IF Len(W) < 16 THEN BlockWord(msg, block, Len(W)) ELSE W_t(W)
     IN  /\ W' = Append(W, word)
         /\ regs' = Round(Len(W), regs, word)
  /\ UNCHANGED <<kind, base64Vars, paddingVars, msg, block, H, randomVars>>

(* Its end: the sums are the next block's H.                               *)
sha1_process_block ==
  /\ Len(W) = 80
  /\ H' = [i \in 1 .. 5 |-> Plus(<<H[i], regs[i]>>)]
  /\ regs' = H'
  /\ W' = <<>>
  /\ block' = block + 1
  /\ UNCHANGED <<kind, base64Vars, paddingVars, msg, randomVars>>

DigestBytes(words) == FlattenSeq([i \in 1 .. 5 |-> Bytes(words[i])])

(* "258EAFA5-E914-47DA-95CA-C5AB0DC85B11"                                  *)
Guid == << 50, 53, 56, 69, 65, 70, 65, 53, 45, 69, 57, 49, 52, 45, 52, 55, 68, 65, 45,
           57, 53, 67, 65, 45, 67, 53, 65, 66, 48, 68, 67, 56, 53, 66, 49, 49 >>

(* The value _ws_verify_websocket_sec_key compares Sec-WebSocket-Accept    *)
(* with, from the digest of the key and the GUID.                          *)
AcceptValue(words) ==
  base64_encode(DigestBytes(sha1_to_le(words)), EncodeRequired(20 + 2), TRUE)

-------------------------------------------------------------------------------
(* Random keys.                                                            *)

\* Mutated form of Seed: a new key only every minute.
Seed_Minutes(s) == Word64(s \div 60)

Seed(s) == Word64(s)

(* The generator is seeded with the second the call is made in.            *)
StartFill ==
  /\ kind = "random"
  /\ want = -1
  /\ Len(fills) < MaxFills
  /\ second' \in {s \in Seconds : s >= second}
  /\ rnd' = xoroshiro128_init(Seed(second'))
  /\ want' \in Lengths
  /\ buffer' = <<>>
  /\ UNCHANGED <<kind, base64Vars, paddingVars, sha1Vars, fills>>

\* Mutated form of MoreWords: the last word is left to the loop over the rest.
MoreWords_Short == Len(buffer) + 8 < want

MoreWords == Len(buffer) \div 8 < want \div 8

(* One turn of the first loop of xoroshiro128_fill.                        *)
FillWord ==
  /\ want >= 0
  /\ MoreWords
  /\ buffer' = buffer \o Bytes(Drawn(rnd))
  /\ rnd' = Advanced(rnd)
  /\ UNCHANGED <<kind, base64Vars, paddingVars, sha1Vars, second, want, fills>>

(* "assert(offset + i > len)": the assertion in the loop over the bytes    *)
(* behind the whole words.  It fails at the first of them, or at none.     *)
RestAsserted == \A i \in 0 .. (want % 8) - 1 : 8 * (want \div 8) + i > want

(* Another word is drawn for the rest, and the loop stores its bytes.      *)
FillRest ==
  /\ want >= 0
  /\ ~MoreWords
  /\ rnd' = Advanced(rnd)
  /\ fills' = Append(fills, IF RestAsserted
       THEN [second |-> second, len |-> want, status |-> SUCCESS,
             bytes |-> buffer \o SubSeq(Bytes(Drawn(rnd)), 1, want % 8)]
       ELSE [second |-> second, len |-> want, status |-> ABORT, bytes |-> buffer])
  /\ want' = IF RestAsserted THEN -1 ELSE -2
  /\ UNCHANGED <<kind, base64Vars, paddingVars, sha1Vars, second, buffer>>

(* The key of the ith call, when it asked for the 16 bytes of a key: 24    *)
(* characters.                                                             *)
_generate_sec_websocket_key(i) == base64_encode(fills[i].bytes, 24, TRUE)

-------------------------------------------------------------------------------
Init ==
  /\ kind \in {"base64", "padding", "sha1", "random"}
  /\ data \in IF kind = "base64" THEN UNION {[1 .. n -> Sample] : n \in 0 .. MaxData}
                                 ELSE {<<>>}
  /\ padding = FALSE
  /\ encoded = None
  /\ slack = 0
  /\ decoded = None
  /\ slack2 = 0
  /\ msgLen = 0
  /\ hashed = Hashed(0)
  /\ msg \in IF kind = "sha1" THEN DOMAIN Digests \cup {k \o Guid : k \in DOMAIN Accepts}
                              ELSE {<<>>}
  /\ block = 0
  /\ W = <<>>
  /\ regs = H0
  /\ H = H0
  /\ second = 0
  /\ rnd = <<>>
  /\ want = -1
  /\ buffer = <<>>
  /\ fills = <<>>

Next ==
  \/ Encode \/ Decode
  \/ Pad64
  \/ sha1_round \/ sha1_process_block
  \/ StartFill \/ FillWord \/ FillRest

Spec == Init /\ [][Next]_vars

-------------------------------------------------------------------------------
(* Properties.                                                             *)

(* The six-bit groups of three bytes read as one number.                   *)
Group(bytes, g) ==
  LET b(k) == IF 3 * g + k <= Len(bytes) THEN bytes[3 * g + k] ELSE 0
  IN  65536 * b(1) + 256 * b(2) + b(3)

(* base64_encode returns the text RFC 4648 defines, padded or not, however *)
(* the length of the data leaves a rest.                                   *)
EncodesTheBits ==
  encoded.status = SUCCESS =>
    LET n == Len(data)
        chars == (4 * n + 2) \div 3
    IN  /\ Len(encoded.out) = IF padding THEN EncodeRequired(n) ELSE chars
        /\ \A i \in DOMAIN encoded.out :
             encoded.out[i] =
               IF i > chars THEN Pad
               ELSE _base64_value_for_data(
                      (Group(data, (i - 1) \div 4) \div 64 ^ (3 - ((i - 1) % 4))) % 64)

(* With one byte more than required base64_encode succeeds, and whenever   *)
(* it succeeds it stays inside the output buffer.                          *)
EncodeFits ==
  encoded # None =>
    /\ slack > 0 => encoded.status = SUCCESS
    /\ encoded.status = SUCCESS => encoded.top < EncodeRequired(Len(data)) + slack

(* What decoding gives back: every byte, except for the second byte of a   *)
(* rest of two bytes that was encoded without padding.                     *)
RoundTrip ==
  decoded.status = SUCCESS =>
    LET kept == IF Len(data) % 3 = 2 /\ ~padding THEN Len(data) - 1 ELSE Len(data)
    IN  /\ Len(decoded.out) >= Len(data)
        /\ Len(data) % 3 = 0 => Len(decoded.out) = Len(data)
        /\ SubSeq(decoded.out, 1, kept) = SubSeq(data, 1, kept)

(* sha1_digest hashes every message with the padding of FIPS 180, also     *)
(* when the padding needs a block of its own.                              *)
PaddingIsStandard == hashed = Padded(msgLen)

(* sha1_digest returns the published digest of every message that has one, *)
(* with its rest in one or in two blocks, and for a key with a published   *)
(* answer the handshake accepts that answer.                               *)
DigestIsPublished ==
  /\ msg \in DOMAIN Digests /\ block = Blocks(msg) =>
       DigestBytes(sha1_to_le(H)) = Digests[msg]
  /\ \A k \in DOMAIN Accepts :
       kind = "sha1" /\ msg = k \o Guid /\ block = Blocks(msg) =>
         /\ AcceptValue(H).status = SUCCESS
         /\ AcceptValue(H).out = Accepts[k]

(* The generator starts from the published values of splitmix64.           *)
SeedIsPublished ==
  second \in DOMAIN Seeds /\ want >= 0 /\ buffer = <<>> =>
    <<Bytes(rnd[1]), Bytes(rnd[2])>> = Seeds[second]

(* A call of xoroshiro128_fill fills the whole words of its buffer, and of *)
(* two calls in the same second with the same bytes as far as both go.     *)
(* What is behind the whole words is never filled: the assertion, which is *)
(* the wrong way round, ends the process at the first such byte, so a call *)
(* returns exactly when there is none.                                     *)
FillsAgree ==
  \A i, j \in DOMAIN fills :
    LET whole == 8 * (fills[i].len \div 8)
    IN  /\ fills[i].status = SUCCESS <=> fills[i].len = whole
        /\ Len(fills[i].bytes) = whole
        /\ fills[i].second = fills[j].second /\ fills[i].len <= fills[j].len =>
             fills[i].bytes = SubSeq(fills[j].bytes, 1, whole)

(* The bytes of a key made in a second, the first two words the generator  *)
(* draws, tell the seconds apart.  It is not known of all the seconds      *)
(* there are; KeysTellSeconds shows it of those of an instance in which    *)
(* two calls may ask for the bytes of a key.                               *)
KeyBytes(s) ==
  LET rnd0 == xoroshiro128_init(Word64(s))
  IN  Bytes(Drawn(rnd0)) \o Bytes(Drawn(Advanced(rnd0)))

GeneratorTells == \A s, t \in Seconds : KeyBytes(s) = KeyBytes(t) => s = t

(* A connection has a key of its own exactly when no other is made in the  *)
(* same second, and every key is 16 bytes in 24 characters.                *)
KeysTellSeconds ==
  \A i, j \in {n \in DOMAIN fills : fills[n].len = 16} :
    LET k == _generate_sec_websocket_key(i)
    IN  /\ k.status = SUCCESS
        /\ Len(k.out) = 24
        /\ SubSeq(base64_decode(k.out, 20).out, 1, 16) = fills[i].bytes
        /\ k = _generate_sec_websocket_key(j) <=> fills[i].second = fills[j].second

(* "BASE64_ENCODE_REQUIRED_OUTPUT_BUFFER_SIZE": an output buffer of the    *)
(* required size is enough.                                                *)
RequiredSizeSuffices ==
  encoded # None /\ data # <<>> /\ slack >= 0 => encoded.status = SUCCESS

(* "assert(output_buffer_idx < output_len)": base64_decode stores nothing  *)
(* behind the output buffer.                                               *)
DecodeStoresInside ==
  decoded.status = SUCCESS =>
    decoded.top < DecodeRequired(Len(encoded.out)) + slack2
===============================================================================
