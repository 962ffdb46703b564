--------------------------- MODULE FrameWriter_proofs ---------------------------
(***************************************************************************)
(* What is proved of FrameWriter for every byte width, every set of        *)
(* payloads and keys and every socket: its types, and that the bytes on    *)
(* the wire are the frames of the messages submitted, from which follow    *)
(* the refinement of MessageChannel and what an idle or a dead writer      *)
(* leaves on the wire.                                                     *)
(***************************************************************************)
EXTENDS FrameWriter, SequenceTheorems, TLAPS

-------------------------------------------------------------------------------
(* Arithmetic.                                                             *)

LEMMA Halves ==
  HighBit \in Nat /\ HighBit >= 8 /\ ByteMod = 2 * HighBit
<1>1. ByteMod \in Nat /\ ByteMod >= 16 /\ ByteMod % 2 = 0
  BY ByteAssumption
<1>2. ByteMod = 2 * (ByteMod \div 2)
  BY <1>1
<1> QED
  BY <1>1, <1>2 DEF HighBit

LEMMA ModBelow ==
  ASSUME NEW h \in Nat \ {0}, NEW x \in 0 .. h - 1
  PROVE  x % h = x
OBVIOUS

LEMMA ModAbove ==
  ASSUME NEW h \in Nat \ {0}, NEW x \in 0 .. h - 1
  PROVE  (h + x) % h = x
OBVIOUS

LEMMA ModRange ==
  ASSUME NEW h \in Nat \ {0}, NEW x \in Nat
  PROVE  x % h \in 0 .. h - 1
OBVIOUS

-------------------------------------------------------------------------------
(* The buffers of a frame.                                                 *)

LEMMA DataOfMessage ==
  ASSUME NEW m \in Message \cup {NoMessage}
  PROVE  m.binary \in BOOLEAN /\ m.data \in Seq(Byte)
<1>1. CASE m \in Message
  BY <1>1, PayloadAssumption DEF Message
<1>2. CASE m = NoMessage
  <2>1. m.binary = FALSE /\ m.data = <<>>
    BY <1>2 DEF NoMessage
  <2> QED
    BY <2>1, EmptySeq
<1> QED
  BY <1>1, <1>2

LEMMA HeaderBytes ==
  ASSUME NEW m \in Message \cup {NoMessage}
  PROVE  FinAndOpcode(m) \in Byte /\ PrePayloadLen(m) \in Byte
<1>1. HighBit \in Nat /\ HighBit >= 8 /\ ByteMod = 2 * HighBit
  BY Halves
<1>2. Len(m.data) \in Nat
  BY DataOfMessage
<1>3. FinAndOpcode(m) \in Byte
  BY <1>1 DEF FinAndOpcode, Byte, WS_FRAME_OP_BINARY, WS_FRAME_OP_TEXT
<1>4. ASSUME Len(m.data) <= LenMax PROVE TruncatedLen(m) = Len(m.data)
  <2>1. ByteMod \in Nat \ {0} /\ Len(m.data) \in 0 .. ByteMod - 1
    BY <1>1, <1>2, <1>4 DEF LenMax
  <2> QED
    BY <2>1, ModBelow DEF TruncatedLen
<1>5. PrePayloadLen(m) \in Byte
  BY <1>1, <1>2, <1>4 DEF PrePayloadLen, Byte, Marker16, Marker64, LenMax
<1> QED
  BY <1>3, <1>5

LEMMA KeyIndex ==
  ASSUME NEW i \in Nat \ {0}
  PROVE  ((i - 1) % 4) + 1 \in 1 .. 4
OBVIOUS

LEMMA MaskedIsBytes ==
  ASSUME NEW k \in Seq(Byte), Len(k) = 4, NEW data \in Seq(Byte)
  PROVE  /\ ws__mask_payload(k, data) \in Seq(Byte)
         /\ Len(ws__mask_payload(k, data)) = Len(data)
         /\ \A i \in 1 .. Len(data) :
              ws__mask_payload(k, data)[i] = ByteXor(data[i], k[((i - 1) % 4) + 1])
<1>1. Len(data) \in Nat
  OBVIOUS
<1>2. ASSUME NEW i \in 1 .. Len(data)
      PROVE  ByteXor(data[i], k[((i - 1) % 4) + 1]) \in Byte
  <2>1. ((i - 1) % 4) + 1 \in 1 .. Len(k)
    BY KeyIndex
  <2>2. k[((i - 1) % 4) + 1] \in Byte
    BY <2>1, ElementOfSeq
  <2>3. data[i] \in Byte
    BY ElementOfSeq
  <2> QED
    BY <2>2, <2>3, XorAssumption
<1> DEFINE e(i) == ByteXor(data[i], k[((i - 1) % 4) + 1])
<1>3. [i \in 1 .. Len(data) |-> e(i)] \in Seq(Byte)
  <2> \A i \in 1 .. Len(data) : e(i) \in Byte
    BY <1>2
  <2> HIDE DEF e
  <2> QED
    BY <1>1, IsASeq
<1> QED
  BY <1>1, <1>3 DEF ws__mask_payload

KeyOK == key \in Seq(Byte) /\ Len(key) = 4

LEMMA ChunkIsBytes ==
  ASSUME message \in Message \cup {NoMessage}, KeyOK, NEW stage \in Stage
  PROVE  /\ Chunk(stage) \in Seq(Byte)
         /\ Len(Chunk(stage)) = IF stage \in {"opcode", "length"} THEN 1
                               ELSE IF stage = "mask" THEN 4 ELSE Len(message.data)
<1>1. message.data \in Seq(Byte)
  BY DataOfMessage
<1>2. FinAndOpcode(message) \in Byte /\ PrePayloadLen(message) \in Byte
  BY HeaderBytes
<1>3. CASE stage = "opcode"
  BY <1>2, <1>3 DEF Chunk
<1>4. CASE stage = "length"
  BY <1>2, <1>4 DEF Chunk
<1>5. CASE stage = "mask"
  BY <1>5 DEF Chunk, KeyOK
<1>6. CASE stage = "payload"
  BY <1>1, <1>6, MaskedIsBytes DEF Chunk, KeyOK
<1> QED
  BY <1>3, <1>4, <1>5, <1>6 DEF Stage

-------------------------------------------------------------------------------
(* Types.  Inside a call of write_exact the message and its key are there. *)

Sending == message \in Message /\ key \in MaskKey

TInv == TypeOK /\ (pc \in Stage => Sending)

LEMMA SendingBytes ==
  ASSUME TInv, pc \in Stage
  PROVE  /\ KeyOK
         /\ message.data \in Seq(Byte)
         /\ Chunk(pc) \in Seq(Byte)
<1>1. KeyOK
  BY MaskKeyAssumption DEF TInv, Sending, KeyOK
<1> QED
  BY <1>1, ChunkIsBytes, DataOfMessage DEF TInv, Sending

LEMMA InitTypes == Init => TInv
<1> SUFFICES ASSUME Init PROVE TInv
  OBVIOUS
<1>1. \A S : <<>> \in Seq(S)
  BY EmptySeq
<1>2. /\ pc \in Stage \cup {"idle", "dead"} /\ pc \notin Stage
      /\ message \in Message \cup {NoMessage} /\ key \in MaskKey \cup {<<>>}
      /\ wrote \in Nat /\ reset \in BOOLEAN
  BY DEF Init, Stage
<1>3. /\ inflight \in Seq(Byte) /\ inbox \in Seq(Byte) /\ submitted \in Seq(Message)
      /\ received \in Seq([binary : BOOLEAN, data : Seq(Byte)])
  BY <1>1, Zenon DEF Init
<1> QED
  BY <1>2, <1>3 DEF TInv, TypeOK

LEMMA SendTypes == TInv /\ ws_send_message => TInv'
<1> SUFFICES ASSUME TInv, ws_send_message PROVE TInv'
  OBVIOUS
<1>1. PICK m \in Message : message' = m /\ submitted' = Append(submitted, m)
  BY DEF ws_send_message
<1>2. submitted' \in Seq(Message)
  BY <1>1 DEF TInv, TypeOK
<1>3. pc' \in Stage => key' \in MaskKey
  BY DEF ws_send_message, crng_next_i32, Stage
<1>4. key' \in MaskKey \cup {<<>>} /\ pc' \in Stage \cup {"idle", "dead"} /\ wrote' \in Nat
  BY DEF TInv, TypeOK, ws_send_message, crng_next_i32, Stage
<1>5. UNCHANGED <<inflight, reset, inbox, received>>
  BY DEF ws_send_message
<1> QED
  BY <1>1, <1>2, <1>3, <1>4, <1>5 DEF TInv, TypeOK, Sending

LEMMA NextStageTypes ==
  ASSUME TInv, NextStage
  PROVE  /\ pc' \in Stage \cup {"idle", "dead"}
         /\ wrote' = 0
         /\ UNCHANGED <<message, key>>
         /\ pc \in Stage
BY DEF NextStage, Stage

LEMMA WriteSomeTakes ==
  ASSUME TInv, WriteSome
  PROVE  \E n \in Nat \ {0} :
           /\ wrote + n <= Len(Chunk(pc))
           /\ inflight' = inflight \o SubSeq(Chunk(pc), wrote + 1, wrote + n)
           /\ SubSeq(Chunk(pc), wrote + 1, wrote + n) \in Seq(Byte)
           /\ Len(SubSeq(Chunk(pc), wrote + 1, wrote + n)) = n
           /\ \A t \in 1 .. n :
                SubSeq(Chunk(pc), wrote + 1, wrote + n)[t] = Chunk(pc)[wrote + t]
           /\ \/ wrote + n = Len(Chunk(pc)) /\ NextStage
              \/ /\ wrote + n < Len(Chunk(pc))
                 /\ wrote' = wrote + n
                 /\ UNCHANGED <<pc, message, key>>
<1>1. Chunk(pc) \in Seq(Byte)
  BY SendingBytes DEF WriteSome
<1>2. Len(inflight) \in Nat /\ SendBuffer \in Nat /\ wrote \in Nat
  BY SendAssumption DEF TInv, TypeOK
<1>3. PICK n \in 1 .. SendBuffer - Len(inflight) :
        /\ wrote + n <= Len(Chunk(pc))
        /\ inflight' = inflight \o SubSeq(Chunk(pc), wrote + 1, wrote + n)
        /\ \/ wrote + n = Len(Chunk(pc)) /\ NextStage
           \/ /\ wrote + n < Len(Chunk(pc))
              /\ wrote' = wrote + n
              /\ UNCHANGED <<pc, message, key>>
  BY Zenon DEF WriteSome
<1> DEFINE c == Chunk(pc)
<1> HIDE DEF c
<1>4. n \in Nat \ {0}
  BY <1>2
<1>5. c \in Seq(Byte) /\ wrote + n <= Len(c)
  BY <1>1, <1>3 DEF c
<1>6. \A i \in wrote + 1 .. wrote + n : c[i] \in Byte
  BY <1>2, <1>4, <1>5, ElementOfSeq
<1>7. /\ SubSeq(c, wrote + 1, wrote + n) \in Seq(Byte)
      /\ Len(SubSeq(c, wrote + 1, wrote + n)) = n
      /\ \A t \in 1 .. n : SubSeq(c, wrote + 1, wrote + n)[t] = c[wrote + t]
  <2> DEFINE a == wrote + 1
             b == wrote + n
  <2>1. a \in Int /\ b \in Int /\ a <= b /\ b - a + 1 = n
    BY <1>2, <1>4
  <2>2. \A t \in 1 .. n : a + t - 1 = wrote + t
    BY <1>2, <1>4
  <2>3. \A i \in a .. b : c[i] \in Byte
    BY <1>6
  <2> HIDE DEF a, b
  <2>4. /\ SubSeq(c, a, b) \in Seq(Byte)
        /\ Len(SubSeq(c, a, b)) = n
        /\ \A t \in 1 .. n : SubSeq(c, a, b)[t] = c[a + t - 1]
    BY <2>1, <2>3, SubSeqProperties
  <2> QED
    BY <2>2, <2>4 DEF a, b
<1> QED
  BY <1>3, <1>4, <1>7 DEF c

LEMMA WriterTypes == TInv /\ Writer => TInv'
<1> SUFFICES ASSUME TInv, Writer PROVE TInv'
  OBVIOUS
<1>1. pc \in Stage /\ UNCHANGED <<reset, inbox, submitted, received>>
  BY DEF Writer, WriteSome, WriteNothing, WriteFails
<1>2. /\ pc' \in Stage \cup {"idle", "dead"}
      /\ wrote' \in Nat
      /\ UNCHANGED <<message, key>>
  <2>1. CASE WriteSome
    BY <2>1, WriteSomeTakes, NextStageTypes, <1>1 DEF TInv, TypeOK
  <2>2. CASE WriteNothing
    BY <2>2, NextStageTypes DEF WriteNothing
  <2>3. CASE WriteFails
    BY <2>3, NextStageTypes DEF WriteFails, TInv, TypeOK
  <2> QED
    BY <2>1, <2>2, <2>3 DEF Writer
<1>3. inflight' \in Seq(Byte)
  <2>1. CASE WriteSome
    <3>1. PICK bytes \in Seq(Byte) : inflight' = inflight \o bytes
      BY <2>1, WriteSomeTakes
    <3> QED
      BY <3>1 DEF TInv, TypeOK
  <2>2. CASE WriteNothing \/ WriteFails
    BY <2>2 DEF WriteNothing, WriteFails, TInv, TypeOK
  <2> QED
    BY <2>1, <2>2 DEF Writer
<1> QED
  BY <1>1, <1>2, <1>3 DEF TInv, TypeOK, Sending

LEMMA DecodableLengths ==
  ASSUME TypeOK, Decodable
  PROVE  /\ HeaderLen \in {6, 8}
         /\ PayloadLen \in Nat
         /\ Len(inbox) \in Nat
         /\ HeaderLen + PayloadLen <= Len(inbox)
<1>1. inbox \in Seq(Byte) /\ Len(inbox) \in Nat
  BY DEF TypeOK
<1>2. ExtLen \in {0, 2} /\ HeaderLen \in {6, 8}
  BY DEF ExtLen, HeaderLen
<1>3. Len(inbox) >= HeaderLen /\ HeaderLen + PayloadLen <= Len(inbox)
  BY DEF Decodable
<1>4. \A i \in 2 .. 4 : inbox[i] \in Nat
  <2> SUFFICES ASSUME NEW i \in 2 .. 4 PROVE inbox[i] \in Nat
    OBVIOUS
  <2>1. i \in 1 .. Len(inbox)
    BY <1>1, <1>2, <1>3
  <2>2. inbox[i] \in Byte
    BY <1>1, <2>1, ElementOfSeq
  <2> QED
    BY <2>2, ByteAssumption DEF Byte
<1>5. PayloadLen \in Nat
  <2>1. inbox[2] \in Nat /\ inbox[3] \in Nat /\ inbox[4] \in Nat
    BY <1>4
  <2>2. inbox[3] * ByteMod + inbox[4] \in Nat
    BY <2>1, ByteAssumption
  <2>3. inbox[2] % HighBit \in Nat
    <3>1. HighBit \in Nat \ {0}
      BY Halves
    <3>2. inbox[2] % HighBit \in 0 .. HighBit - 1
      BY <2>1, <3>1, ModRange
    <3> QED
      BY <3>1, <3>2
  <2> QED
    BY <2>2, <2>3 DEF PayloadLen
<1> QED
  BY <1>1, <1>2, <1>3, <1>5

(* What the peer makes of the bytes of a frame. *)
LEMMA DecodedParts ==
  ASSUME TypeOK, Decodable
  PROVE  /\ SubSeq(inbox, HeaderLen - 3, HeaderLen) \in Seq(Byte)
         /\ Len(SubSeq(inbox, HeaderLen - 3, HeaderLen)) = 4
         /\ \A i \in 1 .. 4 :
              SubSeq(inbox, HeaderLen - 3, HeaderLen)[i] = inbox[HeaderLen - 4 + i]
         /\ SubSeq(inbox, HeaderLen + 1, HeaderLen + PayloadLen) \in Seq(Byte)
         /\ Len(SubSeq(inbox, HeaderLen + 1, HeaderLen + PayloadLen)) = PayloadLen
         /\ \A i \in 1 .. PayloadLen :
              SubSeq(inbox, HeaderLen + 1, HeaderLen + PayloadLen)[i] = inbox[HeaderLen + i]
         /\ SubSeq(inbox, HeaderLen + PayloadLen + 1, Len(inbox)) \in Seq(Byte)
         /\ Len(SubSeq(inbox, HeaderLen + PayloadLen + 1, Len(inbox)))
              = Len(inbox) - (HeaderLen + PayloadLen)
         /\ \A i \in 1 .. Len(inbox) - (HeaderLen + PayloadLen) :
              SubSeq(inbox, HeaderLen + PayloadLen + 1, Len(inbox))[i]
                = inbox[HeaderLen + PayloadLen + i]
<1> DEFINE h == HeaderLen
           p == PayloadLen
<1>1. /\ h \in {6, 8} /\ p \in Nat /\ Len(inbox) \in Nat /\ h + p <= Len(inbox)
      /\ inbox \in Seq(Byte)
  BY DecodableLengths DEF TypeOK
<1> HIDE DEF h, p
<1>2. ASSUME NEW a \in Nat \ {0}, NEW b \in Nat, b <= Len(inbox), a <= b + 1
      PROVE  /\ SubSeq(inbox, a, b) \in Seq(Byte)
             /\ Len(SubSeq(inbox, a, b)) = b - a + 1
             /\ \A i \in 1 .. b - a + 1 : SubSeq(inbox, a, b)[i] = inbox[(a - 1) + i]
  <2>1. \A i \in a .. b : inbox[i] \in Byte
    BY <1>1, <1>2, ElementOfSeq
  <2>2. /\ SubSeq(inbox, a, b) \in Seq(Byte)
        /\ Len(SubSeq(inbox, a, b)) = IF a <= b THEN b - a + 1 ELSE 0
        /\ \A i \in 1 .. b - a + 1 : SubSeq(inbox, a, b)[i] = inbox[a + i - 1]
    BY <2>1, SubSeqProperties
  <2> QED
    BY <1>2, <2>2
<1>3. /\ SubSeq(inbox, h - 3, h) \in Seq(Byte)
      /\ Len(SubSeq(inbox, h - 3, h)) = 4
      /\ \A i \in 1 .. 4 : SubSeq(inbox, h - 3, h)[i] = inbox[h - 4 + i]
  <2>1. h - 3 \in Nat \ {0} /\ h \in Nat /\ h <= Len(inbox) /\ h - 3 <= h + 1
    BY <1>1
  <2>2. h - (h - 3) + 1 = 4 /\ (h - 3) - 1 = h - 4
    BY <1>1
  <2> QED
    BY <1>2, <2>1, <2>2
<1>4. /\ SubSeq(inbox, h + 1, h + p) \in Seq(Byte)
      /\ Len(SubSeq(inbox, h + 1, h + p)) = p
      /\ \A i \in 1 .. p : SubSeq(inbox, h + 1, h + p)[i] = inbox[h + i]
  <2> DEFINE a == h + 1
             b == h + p
  <2>1. a \in Nat \ {0} /\ b \in Nat /\ b <= Len(inbox) /\ a <= b + 1
    BY <1>1
  <2>2. b - a + 1 = p /\ a - 1 = h
    BY <1>1
  <2> HIDE DEF a, b
  <2>3. /\ SubSeq(inbox, a, b) \in Seq(Byte)
        /\ Len(SubSeq(inbox, a, b)) = b - a + 1
        /\ \A i \in 1 .. b - a + 1 : SubSeq(inbox, a, b)[i] = inbox[(a - 1) + i]
    BY <1>2, <2>1
  <2> QED
    BY <2>2, <2>3 DEF a, b
<1>5. /\ SubSeq(inbox, h + p + 1, Len(inbox)) \in Seq(Byte)
      /\ Len(SubSeq(inbox, h + p + 1, Len(inbox))) = Len(inbox) - (h + p)
      /\ \A i \in 1 .. Len(inbox) - (h + p) :
           SubSeq(inbox, h + p + 1, Len(inbox))[i] = inbox[h + p + i]
  <2> DEFINE a == h + p + 1
             b == Len(inbox)
  <2>1. a \in Nat \ {0} /\ b \in Nat /\ b <= Len(inbox) /\ a <= b + 1
    BY <1>1
  <2>2. b - a + 1 = Len(inbox) - (h + p) /\ a - 1 = h + p
    BY <1>1
  <2> HIDE DEF a, b
  <2>3. /\ SubSeq(inbox, a, b) \in Seq(Byte)
        /\ Len(SubSeq(inbox, a, b)) = b - a + 1
        /\ \A i \in 1 .. b - a + 1 : SubSeq(inbox, a, b)[i] = inbox[(a - 1) + i]
    BY <1>2, <2>1
  <2> QED
    BY <2>2, <2>3 DEF a, b
<1> QED
  BY <1>3, <1>4, <1>5 DEF h, p

(* The message the peer reads out of its inbox. *)
Decoded ==
  [binary |-> inbox[1] % HighBit = WS_FRAME_OP_BINARY,
   data |-> ws__mask_payload(SubSeq(inbox, HeaderLen - 3, HeaderLen),
                             SubSeq(inbox, HeaderLen + 1, HeaderLen + PayloadLen))]

LEMMA PeerDecodesDecoded ==
  ASSUME TypeOK, PeerDecodes
  PROVE  /\ received' = Append(received, Decoded)
         /\ Decoded \in [binary : BOOLEAN, data : Seq(Byte)]
         /\ inbox' = SubSeq(inbox, HeaderLen + PayloadLen + 1, Len(inbox))
         /\ UNCHANGED <<writerVars, inflight, reset, submitted>>
<1> DEFINE k == SubSeq(inbox, HeaderLen - 3, HeaderLen)
           body == SubSeq(inbox, HeaderLen + 1, HeaderLen + PayloadLen)
           binary == inbox[1] % HighBit = WS_FRAME_OP_BINARY
<1>1. k \in Seq(Byte) /\ Len(k) = 4 /\ body \in Seq(Byte) /\ Len(body) = PayloadLen
  BY DecodedParts DEF PeerDecodes
<1>2. ws__mask_payload(k, body) \in Seq(Byte)
  BY <1>1, MaskedIsBytes
<1>3. ws__mask_payload(k, body)
        = [i \in 1 .. PayloadLen |-> ByteXor(body[i], k[((i - 1) % 4) + 1])]
  BY <1>1 DEF ws__mask_payload
<1>4. received' = Append(received,
        [binary |-> binary,
         data |-> [i \in 1 .. PayloadLen |-> ByteXor(body[i], k[((i - 1) % 4) + 1])]])
  BY Zenon DEF PeerDecodes
<1>5. binary \in BOOLEAN
  OBVIOUS
<1> HIDE DEF k, body, binary
<1>6. received' = Append(received, [binary |-> binary, data |-> ws__mask_payload(k, body)])
  BY <1>3, <1>4, Zenon
<1>7. [binary |-> binary, data |-> ws__mask_payload(k, body)]
        \in [binary : BOOLEAN, data : Seq(Byte)]
  BY <1>2, <1>5
<1> QED
  BY <1>6, <1>7, Zenon DEF Decoded, k, body, binary, PeerDecodes

LEMMA PeerTypes == TInv /\ Peer => TInv'
<1>1. ASSUME TInv, PeerReads PROVE TInv'
  <2>1. inbox' \in Seq(Byte) /\ inflight' \in Seq(Byte)
    BY <1>1, EmptySeq DEF PeerReads, TInv, TypeOK
  <2> QED
    BY <1>1, <2>1 DEF PeerReads, TInv, TypeOK, Sending, writerVars
<1>2. ASSUME TInv, PeerDecodes PROVE TInv'
  <2>1. /\ received' = Append(received, Decoded)
        /\ Decoded \in [binary : BOOLEAN, data : Seq(Byte)]
        /\ inbox' = SubSeq(inbox, HeaderLen + PayloadLen + 1, Len(inbox))
        /\ UNCHANGED <<writerVars, inflight, reset, submitted>>
    BY <1>2, PeerDecodesDecoded DEF TInv
  <2>2. inbox' \in Seq(Byte)
    BY <1>2, <2>1, DecodedParts DEF PeerDecodes, TInv
  <2> DEFINE M == [binary : BOOLEAN, data : Seq(Byte)]
             d == Decoded
  <2>3. received \in Seq(M)
    BY <1>2 DEF TInv, TypeOK
  <2>4. d \in M
    BY <2>1
  <2> HIDE DEF M, d
  <2>5. Append(received, d) \in Seq(M)
    BY <2>3, <2>4, AppendProperties
  <2>6. received' \in Seq([binary : BOOLEAN, data : Seq(Byte)])
    BY <2>1, <2>5, Zenon DEF M, d
  <2> QED
    BY <1>2, <2>1, <2>2, <2>6 DEF TInv, TypeOK, Sending, writerVars
<1> QED
  BY <1>1, <1>2 DEF Peer

LEMMA ResetTypes == TInv /\ PeerResets => TInv'
BY EmptySeq DEF TInv, TypeOK, PeerResets, Sending, writerVars

LEMMA StutterTypes == TInv /\ UNCHANGED vars => TInv'
BY DEF TInv, TypeOK, Sending, vars, writerVars

(* The message sent, its key, the counters of write_exact and the bytes on *)
(* their way always have their types.                                      *)
THEOREM TypeCorrect == Spec => []TypeOK
<1>1. TInv /\ [Next]_vars => TInv'
  BY SendTypes, WriterTypes, PeerTypes, ResetTypes, StutterTypes DEF Next
<1>2. TInv => TypeOK
  BY DEF TInv
<1> QED
  BY InitTypes, <1>1, <1>2, PTL DEF Spec

-------------------------------------------------------------------------------
(* The frames on the wire.  The bytes the peer has and those on their way  *)
(* to it are the frames of the messages it has not decoded, up to the byte *)
(* write(2) took last.                                                     *)

Stream == inbox \o inflight

FrameLen(m) == 6 + Len(m.data)

(* The j-th byte of the frame of m under key k. *)
FrameByte(m, k, j) ==
  IF j = 1 THEN FinAndOpcode(m)
  ELSE IF j = 2 THEN PrePayloadLen(m)
  ELSE IF j <= 6 THEN k[j - 2]
  ELSE ws__mask_payload(k, m.data)[j - 6]

Short(m) == Len(m.data) < LenMax

Last == Len(submitted)

(* The frame of the i-th message begins behind byte pos[i - 1] of the      *)
(* stream and has the key ks[i]; positions below 0 were decoded.           *)
Places(pos, ks) ==
  /\ ks \in [1 .. Last -> MaskKey]
  /\ pos \in [0 .. Last -> Int]
  /\ \A i \in 1 .. Last : pos[i] = pos[i - 1] + FrameLen(submitted[i])
  /\ \A i, j \in 0 .. Last : i <= j => pos[i] <= pos[j]
  /\ pos[Len(received)] = 0

(* What has been written is made of these frames, and no more than the     *)
(* first byte of a message whose length does not fit its second one.       *)
Filled(pos, ks) ==
  /\ Len(Stream) <= pos[Last]
  /\ \A i \in Len(received) + 1 .. Last :
       /\ pos[i - 1] + 1 < Len(Stream) => Short(submitted[i])
       /\ \A j \in 1 .. FrameLen(submitted[i]) :
            pos[i - 1] + j <= Len(Stream) =>
              Stream[pos[i - 1] + j] = FrameByte(submitted[i], ks[i], j)

(* The bytes of a frame in front of a buffer. *)
Before(stage) ==
  IF stage = "opcode" THEN 0 ELSE IF stage = "length" THEN 1
  ELSE IF stage = "mask" THEN 2 ELSE 6

(* How far the writer has come. *)
Idle(pos) == Len(Stream) = pos[Last]

Writing(pos, ks) ==
  /\ Last > 0
  /\ message = submitted[Last]
  /\ key = ks[Last]
  /\ pc # "opcode" => Short(message)
  /\ wrote <= Len(Chunk(pc))
  /\ Len(Stream) = pos[Last] - FrameLen(message) + Before(pc) + wrote

Died(pos) ==
  /\ Last > 0
  /\ \E b \in {0, 1, 6} :
       /\ Len(Stream) = pos[Last] - FrameLen(submitted[Last]) + b
       /\ b = 6 => submitted[Last].data # <<>>

Progress(pos, ks) ==
  ~reset => /\ pc = "idle" => Idle(pos)
            /\ pc \in Stage => Writing(pos, ks)
            /\ pc = "dead" => Died(pos)

Framed(pos, ks) == Places(pos, ks) /\ Filled(pos, ks) /\ Progress(pos, ks)

(* What was received are the first messages submitted. *)
Delivered ==
  /\ Len(received) <= Last
  /\ \A i \in 1 .. Len(received) : received[i] = submitted[i]

FInv == TInv /\ Delivered /\ \E pos, ks : Framed(pos, ks)

LEMMA StreamIsBytes ==
  ASSUME TypeOK
  PROVE  /\ Stream \in Seq(Byte)
         /\ Len(Stream) = Len(inbox) + Len(inflight)
         /\ Len(inbox) \in Nat /\ Len(inflight) \in Nat
         /\ \A i \in 1 .. Len(inbox) : Stream[i] = inbox[i]
BY DEF TypeOK, Stream

LEMMA Counts ==
  ASSUME TypeOK
  PROVE  /\ Last \in Nat
         /\ Len(received) \in Nat
         /\ wrote \in Nat
         /\ \A i \in 1 .. Last : /\ submitted[i] \in Message
                                 /\ submitted[i].data \in Seq(Byte)
                                 /\ FrameLen(submitted[i]) \in Nat
                                 /\ FrameLen(submitted[i]) >= 6
<1>1. submitted \in Seq(Message) /\ Last \in Nat /\ Len(received) \in Nat /\ wrote \in Nat
  BY DEF TypeOK, Last
<1>2. ASSUME NEW i \in 1 .. Last
      PROVE  /\ submitted[i] \in Message
             /\ submitted[i].data \in Seq(Byte)
             /\ FrameLen(submitted[i]) \in Nat
             /\ FrameLen(submitted[i]) >= 6
  <2>1. submitted[i] \in Message
    BY <1>1, ElementOfSeq DEF Last
  <2>2. submitted[i].data \in Seq(Byte)
    BY <2>1, DataOfMessage
  <2>3. Len(submitted[i].data) \in Nat
    BY <2>2
  <2> QED
    BY <2>1, <2>2, <2>3 DEF FrameLen
<1> QED
  BY <1>1, <1>2

(* The bytes of a buffer are those of the frame at its place. *)
LEMMA ChunkInFrame ==
  ASSUME TInv, pc \in Stage, NEW q \in 1 .. Len(Chunk(pc))
  PROVE  Chunk(pc)[q] = FrameByte(message, key, Before(pc) + q)
<1>1. KeyOK /\ message.data \in Seq(Byte)
  BY SendingBytes
<1>2. Len(Chunk(pc)) = IF pc \in {"opcode", "length"} THEN 1
                       ELSE IF pc = "mask" THEN 4 ELSE Len(message.data)
  BY <1>1, ChunkIsBytes DEF TInv, TypeOK
<1>3. Len(message.data) \in Nat
  BY <1>1
<1>4. CASE pc = "opcode"
  BY <1>2, <1>4 DEF Chunk, FrameByte, Before
<1>5. CASE pc = "length"
  BY <1>2, <1>5 DEF Chunk, FrameByte, Before
<1>6. CASE pc = "mask"
  <2>1. Chunk(pc) = key /\ Before(pc) = 2
    BY <1>6 DEF Chunk, Before
  <2>2. q \in 1 .. 4
    BY <1>2, <1>6
  <2>3. (2 + q) - 2 = q /\ 2 + q > 2 /\ 2 + q <= 6
    BY <2>2
  <2> QED
    BY <2>1, <2>3 DEF FrameByte
<1>7. CASE pc = "payload"
  <2>1. Chunk(pc) = ws__mask_payload(key, message.data)
    BY <1>7 DEF Chunk
  <2>2. Before(pc) + q - 6 = q /\ Before(pc) + q > 6
    BY <1>2, <1>3, <1>7 DEF Before
  <2> QED
    BY <2>1, <2>2, <1>2, <1>3, <1>7 DEF FrameByte, Before
<1> QED
  BY <1>4, <1>5, <1>6, <1>7 DEF Stage

-------------------------------------------------------------------------------
(* The steps of the writer.                                                *)

LEMMA SendFrames ==
  ASSUME FInv, ws_send_message
  PROVE  FInv'
<1>1. TInv /\ TInv'
  BY SendTypes DEF FInv
<1>2. PICK m \in Message : message' = m /\ submitted' = Append(submitted, m)
  BY DEF ws_send_message
<1>3. /\ pc = "idle" /\ wrote' = 0 /\ UNCHANGED <<inflight, reset, inbox, received>>
      /\ (crng_next_i32 /\ pc' = "opcode") \/ pc' = "dead"
  BY DEF ws_send_message
<1>4. /\ submitted' \in Seq(Message) /\ Last \in Nat /\ Last' = Last + 1
      /\ \A i \in 1 .. Last : submitted'[i] = submitted[i]
      /\ submitted'[Last + 1] = m
  BY <1>1, <1>2, AppendProperties DEF TInv, TypeOK, Last
<1>5. Stream' = Stream /\ Len(received') = Len(received) /\ received' = received
  BY <1>3 DEF Stream
<1>6. Delivered'
  <2>1. Len(received) \in Nat /\ Len(received) <= Last
    BY <1>1, Counts DEF FInv, Delivered, TInv
  <2>2. ASSUME NEW i \in 1 .. Len(received) PROVE received[i] = submitted'[i]
    <3>1. i \in 1 .. Last
      BY <1>4, <2>1
    <3> QED
      BY <1>4, <3>1 DEF FInv, Delivered
  <2>3. Len(received) <= Last'
    BY <1>4, <2>1
  <2> QED
    BY <1>5, <2>2, <2>3, Zenon DEF Delivered
<1>7. PICK pos, ks : Framed(pos, ks)
  BY DEF FInv
<1>8. PICK k \in MaskKey : pc' = "opcode" => k = key'
  BY <1>3, MaskKeyAssumption DEF crng_next_i32
<1> DEFINE n == Last + 1
<1>9. FrameLen(m) \in Nat /\ FrameLen(m) >= 6
  <2>1. Len(m.data) \in Nat
    BY DataOfMessage
  <2> QED
    BY <2>1 DEF FrameLen
<1>10. Places(pos, ks) /\ Filled(pos, ks) /\ Progress(pos, ks)
  BY <1>7 DEF Framed
<1>11. /\ pos \in [0 .. Last -> Int] /\ pos[Last] \in Int
       /\ Len(received) \in Nat /\ Len(received) <= Last
  BY <1>1, <1>4, <1>10, Counts DEF Places, FInv, Delivered, TInv
<1>12. PICK pos2 \in [0 .. n -> Int] :
         /\ pos2[n] = pos[Last] + FrameLen(m)
         /\ \A i \in 0 .. Last : pos2[i] = pos[i]
  <2> DEFINE p == [i \in 0 .. n |-> IF i = n THEN pos[Last] + FrameLen(m) ELSE pos[i]]
  <2>1. /\ p \in [0 .. n -> Int]
        /\ p[n] = pos[Last] + FrameLen(m)
        /\ \A i \in 0 .. Last : p[i] = pos[i]
    BY <1>4, <1>9, <1>11
  <2> HIDE DEF p
  <2> QED
    BY <2>1
<1>13. PICK ks2 \in [1 .. n -> MaskKey] :
         ks2[n] = k /\ \A i \in 1 .. Last : ks2[i] = ks[i]
  <2> DEFINE q == [i \in 1 .. n |-> IF i = n THEN k ELSE ks[i]]
  <2>1. /\ q \in [1 .. n -> MaskKey] /\ q[n] = k
        /\ \A i \in 1 .. Last : q[i] = ks[i]
    BY <1>4, <1>10 DEF Places
  <2> HIDE DEF q
  <2> QED
    BY <2>1
<1>14. /\ \A i \in 1 .. Last : pos[i] = pos[i - 1] + FrameLen(submitted[i])
       /\ \A i, j \in 0 .. Last : i <= j => pos[i] <= pos[j]
       /\ pos[Len(received)] = 0
  BY <1>10 DEF Places
<1>15. Places(pos2, ks2)'
  <2>1. \A i \in 1 .. n : pos2[i] = pos2[i - 1] + FrameLen(submitted'[i])
    <3> SUFFICES ASSUME NEW i \in 1 .. n
                 PROVE  pos2[i] = pos2[i - 1] + FrameLen(submitted'[i])
      OBVIOUS
    <3>1. CASE i = n
      BY <1>4, <1>12, <3>1
    <3>2. CASE i # n
      <4>1. i \in 1 .. Last /\ i - 1 \in 0 .. Last /\ i \in 0 .. Last
        BY <1>4, <3>2
      <4> QED
        BY <1>4, <1>12, <1>14, <4>1
    <3> QED
      BY <3>1, <3>2
  <2>2. \A i, j \in 0 .. n : i <= j => pos2[i] <= pos2[j]
    <3> SUFFICES ASSUME NEW i \in 0 .. n, NEW j \in 0 .. n, i <= j
                 PROVE  pos2[i] <= pos2[j]
      OBVIOUS
    <3>1. CASE i = n
      BY <1>4, <1>12, <3>1
    <3>2. CASE i # n /\ j # n
      <4>1. i \in 0 .. Last /\ j \in 0 .. Last
        BY <1>4, <3>2
      <4> QED
        BY <1>12, <1>14, <4>1
    <3>3. CASE i # n /\ j = n
      <4>1. i \in 0 .. Last /\ Last \in 0 .. Last /\ i <= Last
        BY <1>4, <3>3
      <4>2. pos[i] <= pos[Last] /\ pos[i] \in Int
        BY <1>11, <1>14, <4>1
      <4> QED
        BY <1>9, <1>11, <1>12, <3>3, <4>1, <4>2
    <3> QED
      BY <3>1, <3>2, <3>3
  <2>3. pos2[Len(received)] = 0
    <3>1. Len(received) \in 0 .. Last
      BY <1>4, <1>11
    <3> QED
      BY <1>12, <1>14, <3>1
  <2> QED
    BY <1>4, <1>5, <1>12, <1>13, <2>1, <2>2, <2>3, Zenon DEF Places
<1>16. Len(Stream) \in Nat /\ Len(Stream) <= pos[Last]
  BY <1>1, <1>10, StreamIsBytes DEF Filled, TInv
<1>17. Filled(pos2, ks2)'
  <2>1. Len(Stream) <= pos2[n]
    BY <1>9, <1>11, <1>12, <1>16
  <2>2. ASSUME NEW i \in Len(received) + 1 .. n
        PROVE  /\ pos2[i - 1] + 1 < Len(Stream) => Short(submitted'[i])
               /\ \A j \in 1 .. FrameLen(submitted'[i]) :
                    pos2[i - 1] + j <= Len(Stream) =>
                      Stream[pos2[i - 1] + j] = FrameByte(submitted'[i], ks2[i], j)
    <3>1. CASE i = n
      <4>1. pos2[i - 1] = pos[Last]
        <5>1. i - 1 = Last /\ Last \in 0 .. Last
          BY <1>4, <3>1
        <5> QED
          BY <1>12, <5>1
      <4>2. ~(pos2[i - 1] + 1 < Len(Stream))
        BY <1>11, <1>16, <4>1
      <4>3. \A j \in 1 .. FrameLen(submitted'[i]) : ~(pos2[i - 1] + j <= Len(Stream))
        BY <1>11, <1>16, <4>1, <1>4, <1>9, <3>1, SMTT(40)
      <4> QED
        BY <4>2, <4>3
    <3>2. CASE i # n
      <4>1. i \in Len(received) + 1 .. Last /\ i \in 1 .. Last /\ i - 1 \in 0 .. Last
        BY <1>4, <1>11, <3>2
      <4>2. submitted'[i] = submitted[i] /\ pos2[i - 1] = pos[i - 1] /\ ks2[i] = ks[i]
        BY <1>4, <1>12, <1>13, <4>1
      <4> QED
        BY <1>10, <4>1, <4>2 DEF Filled
    <3> QED
      BY <3>1, <3>2
  <2> QED
    BY <1>4, <1>5, <2>1, <2>2, Zenon DEF Filled
<1>18. Progress(pos2, ks2)'
  <2> SUFFICES ASSUME ~reset
               PROVE  /\ pc' \in Stage => Writing(pos2, ks2)'
                      /\ pc' = "dead" => Died(pos2)'
    BY <1>3 DEF Progress
  <2>1. Len(Stream) = pos[Last]
    BY <1>3, <1>10 DEF Progress, Idle
  <2>2. pos2[n] - FrameLen(m) = Len(Stream) /\ Len(Stream) \in Nat
    BY <1>9, <1>11, <1>12, <1>16, <2>1
  <2>3. ASSUME pc' \in Stage PROVE Writing(pos2, ks2)'
    <3>1. pc' = "opcode"
      BY <1>3, <2>3 DEF Stage
    <3>2. Len(Chunk(pc))' = 1
      BY <3>1 DEF Chunk
    <3>3. key' = k
      BY <1>8, <3>1
    <3>4. Before(pc)' = 0
      BY <3>1 DEF Before
    <3>5. Len(Stream') = pos2[Last'] - FrameLen(message') + Before(pc') + wrote'
      BY <1>2, <1>3, <1>4, <1>5, <2>2, <3>4, <1>9, <1>11, <1>12, SMTT(40)
    <3> QED
      BY <1>2, <1>3, <1>4, <1>13, <3>1, <3>2, <3>3, <3>5 DEF Writing
  <2>4. Died(pos2)'
    <3>1. Len(Stream') = pos2[Last'] - FrameLen(submitted'[Last']) + 0
      BY <1>2, <1>4, <1>5, <2>2, <1>9, <1>11, <1>12, SMTT(40)
    <3>2. Last' > 0
      BY <1>4
    <3> QED
      BY <3>1, <3>2 DEF Died
  <2> QED
    BY <2>3, <2>4
<1> QED
  BY <1>1, <1>6, <1>15, <1>17, <1>18 DEF FInv, Framed

LEMMA ChunkInLength ==
  ASSUME TInv, pc \in Stage
  PROVE  /\ Len(Chunk(pc)) \in Nat
         /\ Before(pc) \in Nat
         /\ Len(message.data) \in Nat
         /\ Before(pc) + Len(Chunk(pc)) <= FrameLen(message)
         /\ pc = "opcode" => Before(pc) = 0 /\ Len(Chunk(pc)) = 1
         /\ pc = "length" => Before(pc) = 1 /\ Len(Chunk(pc)) = 1
         /\ pc = "mask" => Before(pc) = 2 /\ Len(Chunk(pc)) = 4
         /\ pc = "payload" => Before(pc) = 6 /\ Len(Chunk(pc)) = Len(message.data)
<1>1. KeyOK /\ message.data \in Seq(Byte)
  BY SendingBytes
<1>2. Len(Chunk(pc)) = IF pc \in {"opcode", "length"} THEN 1
                       ELSE IF pc = "mask" THEN 4 ELSE Len(message.data)
  BY <1>1, ChunkIsBytes DEF TInv, TypeOK
<1>3. Len(message.data) \in Nat
  BY <1>1
<1>4. FrameLen(message) = 6 + Len(message.data)
  BY DEF FrameLen
<1>5. CASE pc = "opcode"
  BY <1>2, <1>3, <1>4, <1>5 DEF Before
<1>6. CASE pc = "length"
  BY <1>2, <1>3, <1>4, <1>6 DEF Before
<1>7. CASE pc = "mask"
  BY <1>2, <1>3, <1>4, <1>7 DEF Before
<1>8. CASE pc = "payload"
  BY <1>2, <1>3, <1>4, <1>8 DEF Before
<1> QED
  BY <1>5, <1>6, <1>7, <1>8 DEF Stage

(* The bytes are the next ones of the buffer, and are written. *)
Continues(bytes) ==
  /\ bytes \in Seq(Byte) /\ Len(bytes) > 0
  /\ wrote + Len(bytes) <= Len(Chunk(pc))
  /\ \A t \in 1 .. Len(bytes) : bytes[t] = Chunk(pc)[wrote + t]
  /\ inflight' = inflight \o bytes
  /\ UNCHANGED <<inbox, submitted, received>>

LEMMA ByteBehind ==
  ASSUME NEW base \in Int, NEW j \in Int, NEW len \in Int, NEW t \in Int, NEW b \in Int,
         NEW q \in Int, NEW w \in Int,
         len = base + b + w, j = b + q, q = w + t
  PROVE  base + j = len + t
OBVIOUS

(* Writing more of a buffer continues the last frame. *)
LEMMA ExtendFrames ==
  ASSUME TInv, Delivered, pc \in Stage,
         NEW pos, NEW ks, Places(pos, ks), Filled(pos, ks), Writing(pos, ks),
         NEW bytes, Continues(bytes)
  PROVE  /\ Places(pos, ks)'
         /\ Filled(pos, ks)'
         /\ Len(Stream') = Len(Stream) + Len(bytes)
<1> DEFINE n == Len(bytes)
           len == Len(Stream)
           base == pos[Last - 1]
<1>1. /\ n \in Nat \ {0} /\ wrote \in Nat /\ len \in Nat /\ Last \in Nat \ {0}
      /\ Len(received) \in Nat /\ Len(received) <= Last
  BY StreamIsBytes, Counts DEF TInv, Delivered, Writing, Continues
<1>2. /\ Stream' = Stream \o bytes
      /\ Len(Stream') = len + n
      /\ \A i \in 1 .. len : Stream'[i] = Stream[i]
      /\ \A t \in 1 .. n : Stream'[len + t] = bytes[t]
  <2>1. inbox \in Seq(Byte) /\ inflight \in Seq(Byte) /\ Stream \in Seq(Byte)
        /\ bytes \in Seq(Byte)
    BY StreamIsBytes DEF TInv, TypeOK, Continues
  <2>2. Stream' = Stream \o bytes
    BY <2>1, ConcatAssociative, SMTT(40) DEF Stream, Continues
  <2> HIDE DEF len, n
  <2>3. /\ Len(Stream \o bytes) = Len(Stream) + Len(bytes)
        /\ \A i \in 1 .. Len(Stream) + Len(bytes) : (Stream \o bytes)[i] =
             IF i <= Len(Stream) THEN Stream[i] ELSE bytes[i - Len(Stream)]
    BY <2>1, ConcatProperties
  <2>4. \A t \in 1 .. n : len + t \in 1 .. len + n /\ ~(len + t <= len) /\ (len + t) - len = t
    BY <1>1
  <2> QED
    BY <1>1, <2>2, <2>3, <2>4 DEF len, n
<1>3. /\ \A i \in 0 .. Last : pos[i] \in Int
      /\ \A i \in 1 .. Last : pos[i] = pos[i - 1] + FrameLen(submitted[i])
      /\ \A i, j \in 0 .. Last : i <= j => pos[i] <= pos[j]
  BY <1>1 DEF Places
<1>4. /\ base \in Int /\ pos[Last] = base + FrameLen(message)
      /\ len = base + Before(pc) + wrote
      /\ FrameLen(message) \in Nat
  <2>1. Last - 1 \in 0 .. Last /\ Last \in 1 .. Last
    BY <1>1
  <2>2. FrameLen(message) \in Nat
    BY <2>1, Counts DEF Writing, TInv
  <2>3. pos[Last] = base + FrameLen(message) /\ base \in Int
    BY <1>3, <2>1 DEF Writing
  <2>4. len = pos[Last] - FrameLen(message) + Before(pc) + wrote
    BY DEF Writing
  <2> QED
    BY <2>2, <2>3, <2>4, <1>1, ChunkInLength
<1>5. Places(pos, ks)'
  BY DEF Places, Last, Continues
<1> HIDE DEF n, len, base
<1>6. len + n <= pos[Last]
  <2>1. Before(pc) + Len(Chunk(pc)) <= FrameLen(message)
        /\ Before(pc) \in Nat /\ Len(Chunk(pc)) \in Nat
    BY ChunkInLength
  <2>2. wrote + n <= Len(Chunk(pc))
    BY DEF n, Continues
  <2> QED
    BY <1>1, <1>4, <2>1, <2>2, SMTT(40)
<1>7. ASSUME NEW i \in Len(received) + 1 .. Last
      PROVE  /\ pos[i - 1] + 1 < len + n => Short(submitted[i])
             /\ \A j \in 1 .. FrameLen(submitted[i]) :
                  pos[i - 1] + j <= len + n =>
                    Stream'[pos[i - 1] + j] = FrameByte(submitted[i], ks[i], j)
  <2>1. /\ i \in 1 .. Last /\ i - 1 \in 0 .. Last /\ pos[i - 1] \in Int
        /\ FrameLen(submitted[i]) \in Nat /\ FrameLen(submitted[i]) >= 6
        /\ pos[i] = pos[i - 1] + FrameLen(submitted[i])
    BY <1>1, <1>3, Counts DEF TInv
  <2>2. /\ pos[i - 1] + 1 < len => Short(submitted[i])
        /\ \A j \in 1 .. FrameLen(submitted[i]) :
             pos[i - 1] + j <= len =>
               Stream[pos[i - 1] + j] = FrameByte(submitted[i], ks[i], j)
    BY DEF Filled, len
  <2>3. pos[i - 1] >= 0
    <3>1. Len(received) \in 0 .. Last /\ Len(received) <= i - 1
      BY <1>1
    <3>2. pos[Len(received)] = 0
      BY DEF Places
    <3> QED
      BY <1>3, <2>1, <3>1, <3>2
  <2>4. CASE i # Last
    <3>1. i \in 0 .. Last /\ Last - 1 \in 0 .. Last /\ i <= Last - 1
      BY <1>1, <2>4
    <3>2. pos[i] <= base /\ base <= len
      <4>1. pos[i] <= base
        BY <1>3, <3>1 DEF base
      <4>2. Before(pc) \in Nat
        BY ChunkInLength
      <4> QED
        BY <1>1, <1>4, <4>1, <4>2
    <3>3. pos[i - 1] + 1 < len
      BY <1>1, <1>4, <2>1, <3>2, SMTT(40)
    <3>4. ASSUME NEW j \in 1 .. FrameLen(submitted[i])
          PROVE  Stream'[pos[i - 1] + j] = FrameByte(submitted[i], ks[i], j)
      <4>1. pos[i - 1] + j <= len /\ pos[i - 1] + j \in 1 .. len
        <5>1. j \in Nat \ {0} /\ j <= FrameLen(submitted[i])
          BY <2>1
        <5>2. pos[i - 1] + j <= pos[i] /\ pos[i - 1] + j \in Nat \ {0} /\ pos[i] \in Int
          BY <2>1, <2>3, <5>1
        <5> QED
          BY <1>1, <1>4, <3>2, <5>2
      <4> QED
        BY <1>2, <2>2, <4>1
    <3> QED
      BY <2>2, <3>3, <3>4
  <2>5. CASE i = Last
    <3>1. pos[i - 1] = base /\ submitted[i] = message /\ ks[i] = key
      BY <2>5 DEF base, Writing
    <3>2. base + 1 < len + n => Short(submitted[i])
      <4>1. pc # "opcode" => Short(message)
        BY DEF Writing
      <4>2. CASE pc = "opcode"
        <5>1. Before(pc) = 0 /\ wrote + n <= 1
          BY <4>2, ChunkInLength DEF n, Continues
        <5> QED
          BY <1>1, <1>4, <5>1
      <4> QED
        BY <3>1, <4>1, <4>2
    <3>3. ASSUME NEW j \in 1 .. FrameLen(submitted[i]), base + j <= len + n
          PROVE  Stream'[base + j] = FrameByte(submitted[i], ks[i], j)
      <4>1. CASE base + j <= len
        <5>1. base + j \in 1 .. len
          BY <1>1, <1>4, <2>1, <2>3, <3>1, <4>1
        <5> QED
          BY <1>2, <2>2, <3>1, <4>1, <5>1
      <4>2. CASE ~(base + j <= len)
        <5> DEFINE q == j - Before(pc)
                   t == q - wrote
        <5>1. Before(pc) \in Nat /\ Len(Chunk(pc)) \in Nat
          BY ChunkInLength
        <5>2. t \in 1 .. n /\ base + j = len + t /\ j = Before(pc) + q /\ q = wrote + t
          <6>1. j \in Nat
            BY <2>1
          <6>2. /\ base \in Int /\ len \in Nat /\ n \in Nat /\ wrote \in Nat
                /\ len = base + Before(pc) + wrote
            BY <1>1, <1>4
          <6>3. q \in Int /\ j = Before(pc) + q
            BY <5>1, <6>1
          <6> HIDE DEF q
          <6>4. t \in Int /\ q = wrote + t
            BY <6>2, <6>3
          <6> HIDE DEF t, base, len
          <6>5. {j, len, Before(pc), wrote} \subseteq Int
            BY <5>1, <6>1, <6>2
          <6>6. base + j = len + t
            BY <5>1, <6>2, <6>3, <6>4, <6>5, ByteBehind, SMTT(30)
          <6> QED
            BY <3>3, <4>2, <6>2, <6>3, <6>4, <6>6, SMTT(40)
        <5>3. q \in 1 .. Len(Chunk(pc))
          BY <1>1, <5>1, <5>2, SMTT(40) DEF n, Continues
        <5> HIDE DEF t, q
        <5>4. Stream'[len + t] = bytes[t]
          BY <1>2, <5>2
        <5>5. bytes[t] = Chunk(pc)[q]
          BY <5>2 DEF n, Continues
        <5>6. Chunk(pc)[q] = FrameByte(message, key, Before(pc) + q)
          BY <5>3, ChunkInFrame
        <5> QED
          BY <3>1, <5>2, <5>4, <5>5, <5>6
      <4> QED
        BY <4>1, <4>2
    <3> QED
      BY <3>1, <3>2, <3>3
  <2> QED
    BY <2>4, <2>5
<1>8. Filled(pos, ks)'
  <2>1. Last' = Last /\ received' = received /\ submitted' = submitted
    BY DEF Last, Continues
  <2>2. Len(Stream') = len + n
    BY <1>2 DEF len, n
  <2>3. Len(Stream') <= pos[Last']
    BY <1>6, <2>1, <2>2
  <2>4. ASSUME NEW i \in Len(received') + 1 .. Last'
        PROVE  /\ pos[i - 1] + 1 < Len(Stream') => Short(submitted'[i])
               /\ \A j \in 1 .. FrameLen(submitted'[i]) :
                    pos[i - 1] + j <= Len(Stream') =>
                      Stream'[pos[i - 1] + j] = FrameByte(submitted'[i], ks[i], j)
    BY <1>7, <2>1, <2>2
  <2> QED
    BY <2>3, <2>4, Zenon DEF Filled
<1> QED
  BY <1>2, <1>5, <1>8 DEF len, n

LEMMA AssertedIsShort ==
  ASSUME AssertionTells, TInv, pc \in Stage, TruncatedLen(message) < LenMax
  PROVE  Short(message)
<1>1. message \in Message
  BY DEF TInv, Sending
<1>2. message.data \in Payload
  BY <1>1 DEF Message
<1> QED
  BY <1>2 DEF AssertionTells, TruncatedLen, Short

(* A whole buffer takes the writer to the next one, to the end of the      *)
(* frame, or to where it dies.                                             *)
LEMMA NextProgress ==
  ASSUME AssertionTells, TInv, pc \in Stage, ~reset,
         NEW pos, NEW ks, Places(pos, ks), Writing(pos, ks),
         NextStage, UNCHANGED <<reset, submitted>>,
         Len(Stream') = pos[Last] - FrameLen(message) + Before(pc) + Len(Chunk(pc))
  PROVE  Progress(pos, ks)'
<1>1. /\ wrote' = 0 /\ message' = message /\ key' = key /\ Last' = Last
      /\ pc' \in Stage \cup {"idle", "dead"} /\ submitted' = submitted
  BY NextStageTypes DEF Last
<1>2. /\ Last > 0 /\ message = submitted[Last] /\ key = ks[Last]
      /\ pc # "opcode" => Short(message)
  BY DEF Writing
<1> DEFINE base == pos[Last] - FrameLen(message)
<1>3. /\ base \in Int /\ pos[Last] \in Int /\ pos[Last] = base + FrameLen(message)
      /\ Len(message.data) \in Nat /\ FrameLen(message) = 6 + Len(message.data)
  <2>1. Last \in Nat \ {0} /\ Last \in 0 .. Last
    BY <1>2, Counts DEF TInv
  <2>2. pos[Last] \in Int
    BY <2>1 DEF Places
  <2>3. Len(message.data) \in Nat
    BY ChunkInLength
  <2> QED
    BY <2>2, <2>3 DEF FrameLen
<1>4. /\ Len(Stream') = base + Before(pc) + Len(Chunk(pc))
      /\ pc = "opcode" => Before(pc) = 0 /\ Len(Chunk(pc)) = 1
      /\ pc = "length" => Before(pc) = 1 /\ Len(Chunk(pc)) = 1
      /\ pc = "mask" => Before(pc) = 2 /\ Len(Chunk(pc)) = 4
      /\ pc = "payload" => Before(pc) = 6 /\ Len(Chunk(pc)) = Len(message.data)
  BY ChunkInLength
<1> HIDE DEF base
<1>5. ASSUME pc' \in Stage, Short(message), Len(Stream') = base + Before(pc')
      PROVE  Writing(pos, ks)'
  <2>1. Len(Chunk(pc)') \in Nat
    <3>1. KeyOK /\ message \in Message \cup {NoMessage}
      BY SendingBytes DEF TInv, TypeOK
    <3>2. KeyOK'
      BY <1>1, <3>1 DEF KeyOK
    <3>3. message.data \in Seq(Byte)
      BY <3>1, DataOfMessage
    <3>4. ws__mask_payload(key, message.data) \in Seq(Byte)
      BY <3>1, <3>3, MaskedIsBytes DEF KeyOK
    <3>5. Chunk(pc)' \in {<<FinAndOpcode(message)>>, <<PrePayloadLen(message)>>,
                          key, ws__mask_payload(key, message.data)}
      BY <1>1 DEF Chunk
    <3>6. key \in Seq(Byte)
      BY <3>1 DEF KeyOK
    <3> QED
      BY <3>4, <3>5, <3>6
  <2>2. Before(pc') \in Nat
    BY DEF Before
  <2>3. Len(Stream') = pos[Last] - FrameLen(message) + Before(pc') + 0
    BY <1>3, <1>5, <2>2
  <2>4. wrote' <= Len(Chunk(pc)')
    BY <1>1, <2>1
  <2> QED
    BY <1>1, <1>2, <1>5, <2>3, <2>4 DEF Writing, Before
<1>6. ASSUME NEW b \in {0, 1, 6}, Len(Stream') = base + b, b = 6 => message.data # <<>>
      PROVE  Died(pos)'
  <2>1. Len(Stream') = pos[Last] - FrameLen(message) + b
    BY <1>3, <1>6 DEF base
  <2> QED
    BY <1>1, <1>2, <1>6, <2>1 DEF Died
<1>7. CASE pc = "opcode"
  <2>1. Len(Stream') = base + 1
    <3>1. Before(pc) = 0 /\ Len(Chunk(pc)) = 1
      BY <1>4, <1>7
    <3>2. base \in Int /\ Len(Stream') = base + Before(pc) + Len(Chunk(pc))
      BY <1>3, <1>4
    <3> QED
      BY <3>1, <3>2
  <2>2. CASE TruncatedLen(message) < LenMax
    <3>1. pc' = "length" /\ Before(pc') = 1
      BY <1>7, <2>2 DEF NextStage, Before
    <3>2. Writing(pos, ks)'
      BY <1>5, <2>1, <2>2, <3>1, AssertedIsShort DEF Stage
    <3> QED
      BY <3>1, <3>2 DEF Progress
  <2>3. CASE ~(TruncatedLen(message) < LenMax)
    <3>1. pc' = "dead"
      BY <1>7, <2>3 DEF NextStage
    <3>2. Died(pos)'
      BY <1>6, <2>1
    <3> QED
      BY <3>1, <3>2 DEF Progress, Stage
  <2> QED
    BY <2>2, <2>3
<1>8. CASE pc = "length"
  <2>1. Len(Stream') = base + 2
    <3>1. Before(pc) = 1 /\ Len(Chunk(pc)) = 1
      BY <1>4, <1>8
    <3>2. base \in Int /\ Len(Stream') = base + Before(pc) + Len(Chunk(pc))
      BY <1>3, <1>4
    <3> QED
      BY <3>1, <3>2
  <2>2. pc' = "mask" /\ Before(pc') = 2
    BY <1>8 DEF NextStage, Before
  <2>3. Writing(pos, ks)'
    BY <1>2, <1>5, <1>8, <2>1, <2>2 DEF Stage
  <2> QED
    BY <2>2, <2>3 DEF Progress
<1>9. CASE pc = "mask"
  <2>1. Len(Stream') = base + 6
    <3>1. Before(pc) = 2 /\ Len(Chunk(pc)) = 4
      BY <1>4, <1>9
    <3>2. base \in Int /\ Len(Stream') = base + Before(pc) + Len(Chunk(pc))
      BY <1>3, <1>4
    <3> QED
      BY <3>1, <3>2
  <2>2. CASE pc' = "payload"
    <3>1. Before(pc') = 6
      BY <2>2 DEF Before
    <3>2. Writing(pos, ks)'
      BY <1>2, <1>5, <1>9, <2>1, <2>2, <3>1 DEF Stage
    <3> QED
      BY <2>2, <3>2 DEF Progress
  <2>3. CASE pc' = "dead"
    <3>1. message.data # <<>>
      BY <1>9, <2>3 DEF NextStage
    <3>2. Died(pos)'
      BY <1>6, <2>1, <3>1
    <3> QED
      BY <2>3, <3>2 DEF Progress, Stage
  <2> QED
    BY <1>9, <2>2, <2>3 DEF NextStage
<1>10. CASE pc = "payload"
  <2>1. Len(Stream') = pos[Last]
    BY <1>3, <1>4, <1>10
  <2>2. pc' = "idle"
    BY <1>10 DEF NextStage
  <2>3. Idle(pos)'
    BY <1>1, <2>1 DEF Idle
  <2> QED
    BY <2>2, <2>3 DEF Progress, Stage
<1> QED
  BY <1>7, <1>8, <1>9, <1>10 DEF Stage

LEMMA WriterFrames ==
  ASSUME AssertionTells, FInv, Writer
  PROVE  FInv'
<1>1. TInv /\ TInv' /\ Delivered
  BY WriterTypes DEF FInv
<1>2. pc \in Stage /\ UNCHANGED <<reset, inbox, submitted, received>>
  BY DEF Writer, WriteSome, WriteNothing, WriteFails
<1>3. Delivered' /\ Last' = Last
  BY <1>1, <1>2 DEF Delivered, Last
<1>4. PICK pos, ks : Framed(pos, ks)
  BY DEF FInv
<1>5. Places(pos, ks) /\ Filled(pos, ks) /\ Progress(pos, ks)
  BY <1>4 DEF Framed
<1>6. Places(pos, ks)'
  BY <1>2, <1>5 DEF Places, Last
<1>7. ~reset => Writing(pos, ks)
  BY <1>2, <1>5 DEF Progress
<1>8. CASE WriteSome
  <2>1. ~reset
    BY <1>8 DEF WriteSome
  <2>2. PICK n \in Nat \ {0} :
           /\ wrote + n <= Len(Chunk(pc))
           /\ inflight' = inflight \o SubSeq(Chunk(pc), wrote + 1, wrote + n)
           /\ SubSeq(Chunk(pc), wrote + 1, wrote + n) \in Seq(Byte)
           /\ Len(SubSeq(Chunk(pc), wrote + 1, wrote + n)) = n
           /\ \A t \in 1 .. n :
                SubSeq(Chunk(pc), wrote + 1, wrote + n)[t] = Chunk(pc)[wrote + t]
           /\ \/ wrote + n = Len(Chunk(pc)) /\ NextStage
              \/ /\ wrote + n < Len(Chunk(pc))
                 /\ wrote' = wrote + n
                 /\ UNCHANGED <<pc, message, key>>
    BY <1>1, <1>8, WriteSomeTakes
  <2> DEFINE bytes == SubSeq(Chunk(pc), wrote + 1, wrote + n)
  <2>3. /\ bytes \in Seq(Byte) /\ Len(bytes) > 0 /\ Len(bytes) = n
        /\ wrote + Len(bytes) <= Len(Chunk(pc))
        /\ \A t \in 1 .. Len(bytes) : bytes[t] = Chunk(pc)[wrote + t]
        /\ inflight' = inflight \o bytes
    BY <2>2
  <2> HIDE DEF bytes
  <2>4. Filled(pos, ks)' /\ Len(Stream') = Len(Stream) + n
    <3>1. Continues(bytes)
      BY <1>2, <2>3 DEF Continues
    <3> QED
      BY <1>1, <1>2, <1>5, <1>7, <2>1, <2>3, <3>1, ExtendFrames
  <2>5. /\ Last > 0
        /\ Len(Stream) = pos[Last] - FrameLen(message) + Before(pc) + wrote
    BY <1>7, <2>1 DEF Writing
  <2>6. /\ pos[Last] \in Int /\ FrameLen(message) \in Nat /\ Before(pc) \in Nat
        /\ wrote \in Nat /\ n \in Nat /\ Len(Chunk(pc)) \in Nat
    <3>1. Last \in 0 .. Last /\ wrote \in Nat
      BY <1>1, Counts DEF TInv
    <3>2. Len(message.data) \in Nat /\ Before(pc) \in Nat /\ Len(Chunk(pc)) \in Nat
      BY <1>1, <1>2, ChunkInLength
    <3> QED
      BY <1>5, <3>1, <3>2 DEF Places, FrameLen
  <2>7. Len(Stream') = pos[Last] - FrameLen(message) + Before(pc) + (wrote + n)
    BY <2>4, <2>5, <2>6
  <2>8. Progress(pos, ks)'
    <3>1. CASE wrote + n = Len(Chunk(pc)) /\ NextStage
      <4>1. Len(Stream') = pos[Last] - FrameLen(message) + Before(pc) + Len(Chunk(pc))
        BY <2>7, <3>1
      <4> QED
        BY <1>1, <1>2, <1>5, <1>7, <2>1, <3>1, <4>1, NextProgress
    <3>2. CASE /\ wrote + n < Len(Chunk(pc))
               /\ wrote' = wrote + n
               /\ UNCHANGED <<pc, message, key>>
      <4>1. Chunk(pc)' = Chunk(pc) /\ Before(pc)' = Before(pc)
        BY <3>2 DEF Chunk, Before
      <4>2. wrote' <= Len(Chunk(pc)')
        BY <2>6, <3>2, <4>1
      <4>3. Len(Stream)' = (pos[Last] - FrameLen(message) + Before(pc) + wrote)'
        BY <1>2, <1>3, <2>7, <3>2, <4>1
      <4>4. Writing(pos, ks)'
        BY <1>2, <1>3, <1>7, <2>1, <3>2, <4>1, <4>2, <4>3 DEF Writing
      <4> QED
        BY <1>2, <3>2, <4>4 DEF Progress, Stage
    <3> QED
      BY <2>2, <3>1, <3>2
  <2> QED
    BY <1>1, <1>3, <1>6, <2>4, <2>8 DEF FInv, Framed
<1>9. CASE WriteNothing
  <2>1. Stream' = Stream
    BY <1>9 DEF WriteNothing, Stream
  <2>2. Filled(pos, ks)'
    BY <1>2, <1>3, <1>5, <2>1 DEF Filled
  <2>3. CASE reset
    BY <1>1, <1>2, <1>3, <1>6, <2>2, <2>3 DEF FInv, Framed, Progress
  <2>4. CASE ~reset
    <3>1. Len(Chunk(pc)) = 0 /\ NextStage
      BY <1>9 DEF WriteNothing
    <3>2. /\ Len(Stream) = pos[Last] - FrameLen(message) + Before(pc) + wrote
          /\ wrote <= 0
      BY <1>7, <2>4, <3>1 DEF Writing
    <3>3. wrote = 0
      BY <1>1, <3>2, Counts DEF TInv
    <3>4. Len(Stream') = pos[Last] - FrameLen(message) + Before(pc) + Len(Chunk(pc))
      BY <2>1, <3>1, <3>2, <3>3
    <3>5. Progress(pos, ks)'
      BY <1>1, <1>2, <1>5, <1>7, <2>4, <3>1, <3>4, NextProgress
    <3> QED
      BY <1>1, <1>3, <1>6, <2>2, <3>5 DEF FInv, Framed
  <2> QED
    BY <2>3, <2>4
<1>10. CASE WriteFails
  <2>1. Stream' = Stream /\ reset
    BY <1>10 DEF WriteFails, Stream
  <2>2. Filled(pos, ks)'
    BY <1>2, <1>3, <1>5, <2>1 DEF Filled
  <2> QED
    BY <1>1, <1>2, <1>3, <1>6, <2>1, <2>2 DEF FInv, Framed, Progress
<1> QED
  BY <1>8, <1>9, <1>10 DEF Writer

-------------------------------------------------------------------------------
(* The steps of the peer.                                                  *)

LEMMA ShortLength ==
  ASSUME NEW m \in Message, Short(m)
  PROVE  /\ PrePayloadLen(m) % HighBit = Len(m.data)
         /\ Len(m.data) # Marker16
<1>1. HighBit \in Nat /\ HighBit >= 8 /\ ByteMod = 2 * HighBit
  BY Halves
<1>2. Len(m.data) \in Nat /\ Len(m.data) < HighBit - 3
  BY DataOfMessage DEF Short, LenMax
<1>3. TruncatedLen(m) = Len(m.data)
  <2>1. ByteMod \in Nat \ {0} /\ Len(m.data) \in 0 .. ByteMod - 1
    BY <1>1, <1>2
  <2> QED
    BY <2>1, ModBelow DEF TruncatedLen
<1>4. ~(Len(m.data) > LenMax) /\ ~(Len(m.data) > Ext16Max)
  <2>1. ~(Len(m.data) > LenMax)
    BY <1>1, <1>2 DEF LenMax
  <2>2. ByteMod * ByteMod >= ByteMod /\ ByteMod * ByteMod \in Nat
    BY <1>1
  <2>3. ~(Len(m.data) > Ext16Max)
    BY <1>1, <1>2, <2>2 DEF Ext16Max
  <2> QED
    BY <2>1, <2>3
<1>5. PrePayloadLen(m) = HighBit + Len(m.data)
  BY <1>3, <1>4 DEF PrePayloadLen
<1>6. HighBit \in Nat \ {0} /\ Len(m.data) \in 0 .. HighBit - 1
  BY <1>1, <1>2
<1>7. (HighBit + Len(m.data)) % HighBit = Len(m.data)
  BY <1>6, ModAbove
<1>8. Len(m.data) # Marker16
  BY <1>1, <1>2 DEF Marker16, LenMax
<1> QED
  BY <1>5, <1>7, <1>8

LEMMA OpcodeBit ==
  ASSUME NEW m \in Message
  PROVE  (FinAndOpcode(m) % HighBit = WS_FRAME_OP_BINARY) <=> m.binary
<1>1. HighBit \in Nat \ {0} /\ 1 \in 0 .. HighBit - 1 /\ 2 \in 0 .. HighBit - 1
  BY Halves
<1>2. (HighBit + 1) % HighBit = 1 /\ (HighBit + 2) % HighBit = 2
  BY <1>1, ModAbove
<1>3. m.binary \in BOOLEAN
  BY DataOfMessage
<1> QED
  BY <1>2, <1>3 DEF FinAndOpcode, WS_FRAME_OP_BINARY, WS_FRAME_OP_TEXT

(* Two bytes in the inbox are the first two of the frame of the message    *)
(* that is due, and the length they tell is the message's.                 *)
LEMMA FirstFrame ==
  ASSUME TypeOK, Delivered, NEW pos, NEW ks, Places(pos, ks), Filled(pos, ks),
         Len(inbox) >= 2
  PROVE  /\ Len(received) < Last
         /\ pos[Len(received)] = 0
         /\ Short(submitted[Len(received) + 1])
         /\ inbox[1] = FinAndOpcode(submitted[Len(received) + 1])
         /\ HeaderLen = 6
         /\ PayloadLen = Len(submitted[Len(received) + 1].data)
<1> DEFINE n == Len(received)
           m == submitted[n + 1]
<1>1. Last \in Nat /\ n \in Nat /\ n <= Last
  BY Counts DEF Delivered
<1>2. /\ Len(inbox) \in Nat /\ Len(Stream) \in Nat /\ Len(Stream) >= Len(inbox)
      /\ \A i \in 1 .. Len(inbox) : Stream[i] = inbox[i]
  BY StreamIsBytes
<1>3. pos[n] = 0 /\ Len(Stream) <= pos[Last]
  BY DEF Places, Filled
<1>4. n < Last
  BY <1>1, <1>2, <1>3
<1>5. n + 1 \in n + 1 .. Last /\ n + 1 \in 1 .. Last /\ (n + 1) - 1 = n
  BY <1>1, <1>4
<1>6. m \in Message /\ FrameLen(m) \in Nat /\ FrameLen(m) >= 6
  BY <1>5, Counts
<1> HIDE DEF m
<1>7. /\ pos[n] + 1 < Len(Stream) => Short(m)
      /\ \A j \in 1 .. FrameLen(m) :
           pos[n] + j <= Len(Stream) => Stream[pos[n] + j] = FrameByte(m, ks[n + 1], j)
  BY <1>5 DEF Filled, m
<1>8. Short(m)
  BY <1>2, <1>3, <1>7
<1>9. inbox[1] = FinAndOpcode(m) /\ inbox[2] = PrePayloadLen(m)
  <2>1. /\ 1 \in 1 .. FrameLen(m) /\ 2 \in 1 .. FrameLen(m)
        /\ pos[n] + 1 = 1 /\ pos[n] + 2 = 2
        /\ 1 <= Len(Stream) /\ 2 <= Len(Stream)
        /\ 1 \in 1 .. Len(inbox) /\ 2 \in 1 .. Len(inbox)
    BY <1>2, <1>3, <1>6
  <2>2. Stream[1] = FrameByte(m, ks[n + 1], 1) /\ Stream[2] = FrameByte(m, ks[n + 1], 2)
    BY <1>7, <2>1
  <2> QED
    BY <1>2, <2>1, <2>2 DEF FrameByte
<1>10. inbox[2] % HighBit = Len(m.data) /\ Len(m.data) # Marker16
  BY <1>6, <1>8, <1>9, ShortLength
<1>11. ExtLen = 0
  BY <1>10 DEF ExtLen
<1>12. HeaderLen = 6 /\ PayloadLen = Len(m.data)
  BY <1>10, <1>11 DEF HeaderLen, PayloadLen
<1> QED
  BY <1>3, <1>4, <1>8, <1>9, <1>12 DEF m

(* A whole frame is decoded to the message that is due. *)
LEMMA DecodesNext ==
  ASSUME TypeOK, Delivered, NEW pos, NEW ks, Places(pos, ks), Filled(pos, ks),
         Decodable
  PROVE  Decoded = submitted[Len(received) + 1]
<1> DEFINE n == Len(received)
           m == submitted[n + 1]
           k == ks[n + 1]
           p == Len(m.data)
           k2 == SubSeq(inbox, HeaderLen - 3, HeaderLen)
           body == SubSeq(inbox, HeaderLen + 1, HeaderLen + PayloadLen)
<1>1. /\ n < Last /\ pos[n] = 0 /\ Short(m)
      /\ inbox[1] = FinAndOpcode(m) /\ HeaderLen = 6 /\ PayloadLen = p
  BY FirstFrame DEF Decodable
<1>2. Last \in Nat /\ n \in Nat
  BY Counts
<1>3. n + 1 \in n + 1 .. Last /\ n + 1 \in 1 .. Last /\ (n + 1) - 1 = n
  BY <1>1, <1>2
<1>4. m \in Message /\ m.data \in Seq(Byte) /\ p \in Nat /\ FrameLen(m) = 6 + p
  BY <1>3, Counts DEF FrameLen
<1>5. k \in Seq(Byte) /\ Len(k) = 4
  BY <1>3, MaskKeyAssumption DEF Places
<1>6. /\ k2 \in Seq(Byte) /\ Len(k2) = 4
      /\ \A i \in 1 .. 4 : k2[i] = inbox[2 + i]
      /\ body \in Seq(Byte) /\ Len(body) = p
      /\ \A i \in 1 .. p : body[i] = inbox[6 + i]
  <2>1. \A i \in 1 .. 4 : HeaderLen - 4 + i = 2 + i
    BY <1>1
  <2>2. /\ k2 \in Seq(Byte) /\ Len(k2) = 4
        /\ \A i \in 1 .. 4 : k2[i] = inbox[HeaderLen - 4 + i]
        /\ body \in Seq(Byte) /\ Len(body) = PayloadLen
        /\ \A i \in 1 .. PayloadLen : body[i] = inbox[HeaderLen + i]
    BY DecodedParts
  <2> HIDE DEF k2, body, p
  <2> QED
    BY <1>1, <2>1, <2>2
<1> HIDE DEF m, k, p, k2, body
<1>7. \A j \in 1 .. 6 + p : inbox[j] = FrameByte(m, k, j)
  <2>1. /\ Len(inbox) \in Nat /\ 6 + p <= Len(inbox) /\ Len(Stream) >= Len(inbox)
        /\ Len(Stream) \in Nat
        /\ \A i \in 1 .. Len(inbox) : Stream[i] = inbox[i]
    BY <1>1, DecodableLengths, StreamIsBytes
  <2>2. \A j \in 1 .. FrameLen(m) :
           pos[n] + j <= Len(Stream) => Stream[pos[n] + j] = FrameByte(m, k, j)
    BY <1>3 DEF Filled, m, k
  <2> SUFFICES ASSUME NEW j \in 1 .. 6 + p PROVE inbox[j] = FrameByte(m, k, j)
    OBVIOUS
  <2>3. pos[n] + j = j /\ j <= Len(Stream) /\ j \in 1 .. Len(inbox) /\ j \in 1 .. FrameLen(m)
    BY <1>1, <1>4, <2>1
  <2> QED
    BY <2>1, <2>2, <2>3
<1>8. \A i \in 1 .. 4 : k2[i] = k[i]
  <2> SUFFICES ASSUME NEW i \in 1 .. 4 PROVE k2[i] = k[i]
    OBVIOUS
  <2>1. 2 + i \in 1 .. 6 + p /\ 2 + i > 2 /\ 2 + i <= 6 /\ (2 + i) - 2 = i
    BY <1>4
  <2>2. FrameByte(m, k, 2 + i) = k[i]
    BY <2>1 DEF FrameByte
  <2> QED
    BY <1>6, <1>7, <2>1, <2>2
<1>9. \A i \in 1 .. p : body[i] = ByteXor(m.data[i], k[((i - 1) % 4) + 1])
  <2> SUFFICES ASSUME NEW i \in 1 .. p
               PROVE  body[i] = ByteXor(m.data[i], k[((i - 1) % 4) + 1])
    OBVIOUS
  <2>1. 6 + i \in 1 .. 6 + p /\ 6 + i > 6 /\ (6 + i) - 6 = i
    BY <1>4
  <2>2. FrameByte(m, k, 6 + i) = ws__mask_payload(k, m.data)[i]
    BY <2>1 DEF FrameByte
  <2>3. ws__mask_payload(k, m.data)[i] = ByteXor(m.data[i], k[((i - 1) % 4) + 1])
    BY <1>4, <1>5, MaskedIsBytes DEF p
  <2> QED
    BY <1>6, <1>7, <2>1, <2>2, <2>3
<1>10. ws__mask_payload(k2, body) = m.data
  <2>1. /\ ws__mask_payload(k2, body) \in Seq(Byte)
        /\ Len(ws__mask_payload(k2, body)) = Len(body)
        /\ \A i \in 1 .. Len(body) :
              ws__mask_payload(k2, body)[i] = ByteXor(body[i], k2[((i - 1) % 4) + 1])
    BY <1>6, MaskedIsBytes
  <2>2. ASSUME NEW i \in 1 .. p PROVE ws__mask_payload(k2, body)[i] = m.data[i]
    <3> DEFINE q == ((i - 1) % 4) + 1
    <3>1. i \in Nat \ {0}
      BY <1>4
    <3>2. q \in 1 .. 4
      BY <3>1, KeyIndex
    <3> HIDE DEF q
    <3>3. m.data[i] \in Byte /\ k[q] \in Byte
      BY <1>4, <1>5, <3>2, ElementOfSeq DEF p
    <3>4. ByteXor(ByteXor(m.data[i], k[q]), k[q]) = m.data[i]
      BY <3>3, XorAssumption
    <3> QED
      BY <1>6, <1>8, <1>9, <2>1, <3>2, <3>4 DEF q
  <2>3. Len(ws__mask_payload(k2, body)) = Len(m.data)
    BY <1>6, <2>1 DEF p
  <2>4. \A i \in 1 .. Len(ws__mask_payload(k2, body)) :
          ws__mask_payload(k2, body)[i] = m.data[i]
    BY <2>2, <2>3 DEF p
  <2> QED
    BY <1>4, <2>1, <2>3, <2>4, SeqEqual
<1>11. (inbox[1] % HighBit = WS_FRAME_OP_BINARY) = m.binary
  <2>1. m.binary \in BOOLEAN
    BY <1>4, DataOfMessage
  <2>2. (inbox[1] % HighBit = WS_FRAME_OP_BINARY) <=> m.binary
    BY <1>1, <1>4, OpcodeBit DEF m
  <2> QED
    BY <2>1, <2>2
<1>12. m = [binary |-> m.binary, data |-> m.data]
  BY <1>4 DEF Message
<1>13. Decoded = [binary |-> m.binary, data |-> m.data]
  BY <1>10, <1>11, Zenon DEF Decoded, k2, body
<1> QED
  BY <1>12, <1>13 DEF m

LEMMA ReadFrames ==
  ASSUME FInv, PeerReads
  PROVE  FInv'
<1>1. TInv /\ TInv'
  BY PeerTypes DEF FInv, Peer
<1>2. Stream' = Stream
  <2>1. Stream \in Seq(Byte)
    BY <1>1, StreamIsBytes DEF TInv
  <2>2. inbox' = Stream /\ inflight' = <<>>
    BY DEF PeerReads, Stream
  <2>3. Stream \o <<>> = Stream
    BY <2>1, ConcatEmptySeq
  <2> QED
    BY <2>2, <2>3 DEF Stream
<1>3. UNCHANGED <<pc, message, key, wrote, reset, submitted, received>>
  BY DEF PeerReads, writerVars
<1>4. PICK pos, ks : Framed(pos, ks)
  BY DEF FInv
<1>5. Places(pos, ks)' /\ Filled(pos, ks)'
  BY <1>2, <1>3, <1>4 DEF Framed, Places, Filled, Last
<1>6. Progress(pos, ks)'
  <2>1. Chunk(pc)' = Chunk(pc) /\ Before(pc)' = Before(pc) /\ Last' = Last
    BY <1>3 DEF Chunk, Before, Last
  <2> QED
    BY <1>2, <1>3, <1>4, <2>1 DEF Framed, Progress, Idle, Writing, Died
<1> QED
  BY <1>1, <1>3, <1>5, <1>6 DEF FInv, Framed, Delivered, Last

LEMMA ResetFrames ==
  ASSUME FInv, inflight' = <<>>, reset', TInv',
         UNCHANGED <<inbox, submitted, received>>
  PROVE  FInv'
<1>1. TInv /\ TInv'
  BY DEF FInv
<1>2. PICK pos, ks : Framed(pos, ks)
  BY DEF FInv
<1>3. /\ Len(inbox) \in Nat /\ Len(Stream) \in Nat /\ Len(inbox) <= Len(Stream)
      /\ \A i \in 1 .. Len(inbox) : Stream[i] = inbox[i]
  BY <1>1, StreamIsBytes DEF TInv
<1>4. Stream' = inbox
  <2>1. inbox \in Seq(Byte)
    BY <1>1 DEF TInv, TypeOK
  <2>2. inbox \o <<>> = inbox
    BY <2>1, ConcatEmptySeq
  <2> QED
    BY <2>2 DEF Stream
<1>5. Places(pos, ks)' /\ Last' = Last
  BY <1>2 DEF Framed, Places, Last
<1>6. Filled(pos, ks)'
  <2>1. /\ pos \in [0 .. Last -> Int] /\ Last \in Nat /\ Len(received) \in Nat
        /\ Len(received) <= Last /\ pos[Len(received)] = 0
        /\ \A i, j \in 0 .. Last : i <= j => pos[i] <= pos[j]
    BY <1>1, <1>2, Counts DEF Framed, Places, TInv, FInv, Delivered
  <2>2. Len(inbox) <= pos[Last]
    <3>1. pos[Last] \in Int /\ Len(Stream) <= pos[Last]
      BY <1>2, <2>1 DEF Framed, Filled
    <3> QED
      BY <1>3, <3>1
  <2>3. ASSUME NEW i \in Len(received) + 1 .. Last
        PROVE  /\ pos[i - 1] + 1 < Len(inbox) => Short(submitted[i])
               /\ \A j \in 1 .. FrameLen(submitted[i]) :
                    pos[i - 1] + j <= Len(inbox) =>
                      inbox[pos[i - 1] + j] = FrameByte(submitted[i], ks[i], j)
    <3>1. i - 1 \in 0 .. Last /\ pos[i - 1] \in Int /\ pos[i - 1] >= 0
          /\ FrameLen(submitted[i]) \in Nat
      <4>1. i - 1 \in 0 .. Last /\ Len(received) \in 0 .. Last /\ Len(received) <= i - 1
            /\ i \in 1 .. Last
        BY <2>1
      <4>2. FrameLen(submitted[i]) \in Nat
        BY <1>1, <4>1, Counts DEF TInv
      <4> QED
        BY <2>1, <4>1, <4>2
    <3>2. /\ pos[i - 1] + 1 < Len(Stream) => Short(submitted[i])
          /\ \A j \in 1 .. FrameLen(submitted[i]) :
               pos[i - 1] + j <= Len(Stream) =>
                 Stream[pos[i - 1] + j] = FrameByte(submitted[i], ks[i], j)
      BY <1>2 DEF Framed, Filled
    <3>3. pos[i - 1] + 1 < Len(inbox) => pos[i - 1] + 1 < Len(Stream)
      BY <1>3, <3>1
    <3>4. ASSUME NEW j \in 1 .. FrameLen(submitted[i]), pos[i - 1] + j <= Len(inbox)
          PROVE  inbox[pos[i - 1] + j] = FrameByte(submitted[i], ks[i], j)
      <4>1. pos[i - 1] + j \in 1 .. Len(inbox) /\ pos[i - 1] + j <= Len(Stream)
        BY <1>3, <3>1, <3>4
      <4> QED
        BY <1>3, <3>2, <4>1
    <3> QED
      BY <3>2, <3>3, <3>4
  <2>4. submitted' = submitted /\ received' = received
    OBVIOUS
  <2> QED
    BY <1>4, <1>5, <2>2, <2>3, <2>4, Zenon DEF Filled
<1>7. Progress(pos, ks)'
  BY DEF Progress
<1> QED
  BY <1>1, <1>5, <1>6, <1>7 DEF FInv, Framed, Delivered

(* Nor do frames that are still in flight when the connection breaks.      *)
LEMMA BrokenFrames ==
  ASSUME FInv, reset', UNCHANGED <<writerVars, inflight, inbox, submitted, received>>
  PROVE  FInv'
<1>1. UNCHANGED <<pc, message, key, wrote, inflight, inbox, submitted, received>>
  BY DEF writerVars
<1>2. TInv'
  BY <1>1 DEF FInv, TInv, TypeOK, Sending
<1>3. PICK pos, ks : Framed(pos, ks)
  BY DEF FInv
<1>4. Stream' = Stream /\ Last' = Last
  BY <1>1 DEF Stream, Last
<1>5. Framed(pos, ks)'
  BY <1>1, <1>3, <1>4 DEF Framed, Places, Filled, Progress
<1> QED
  BY <1>1, <1>2, <1>4, <1>5 DEF FInv, Delivered

LEMMA DecodeFrames ==
  ASSUME FInv, PeerDecodes
  PROVE  FInv'
<1> DEFINE n == Len(received)
           m == submitted[n + 1]
           f == FrameLen(m)
<1>1. TInv /\ TInv' /\ TypeOK /\ Delivered
  BY PeerTypes DEF FInv, Peer, TInv
<1>2. PICK pos, ks : Framed(pos, ks)
  BY DEF FInv
<1>3. Places(pos, ks) /\ Filled(pos, ks) /\ Progress(pos, ks)
  BY <1>2 DEF Framed
<1>4. Decodable /\ Len(inbox) >= 2
  BY DEF PeerDecodes, Decodable
<1>5. /\ n < Last /\ pos[n] = 0 /\ Short(m) /\ HeaderLen = 6 /\ PayloadLen = Len(m.data)
  BY <1>1, <1>3, <1>4, FirstFrame
<1>6. /\ received' = Append(received, m)
      /\ inbox' = SubSeq(inbox, HeaderLen + PayloadLen + 1, Len(inbox))
      /\ UNCHANGED <<pc, message, key, wrote, inflight, reset, submitted>>
  BY <1>1, <1>3, <1>4, PeerDecodesDecoded, DecodesNext DEF writerVars
<1>7. /\ Last \in Nat /\ n \in Nat /\ n + 1 \in 1 .. Last
      /\ m \in Message /\ f \in Nat /\ f >= 6 /\ Len(m.data) \in Nat
  <2>1. Last \in Nat /\ n \in Nat
    BY <1>1, Counts
  <2>2. n + 1 \in 1 .. Last
    BY <1>5, <2>1
  <2> QED
    BY <1>1, <2>1, <2>2, Counts
<1>8. HeaderLen + PayloadLen = f
  BY <1>5 DEF FrameLen
<1>9. /\ Len(received') = n + 1 /\ Last' = Last
      /\ \A i \in 1 .. n : received'[i] = received[i]
      /\ received'[n + 1] = m
  <2> DEFINE M == [binary : BOOLEAN, data : Seq(Byte)]
  <2>1. received \in Seq(M) /\ m \in M
    <3>1. received \in Seq(M)
      BY <1>1 DEF TypeOK
    <3>2. m \in M
      BY <1>7, PayloadAssumption DEF Message
    <3> QED
      BY <3>1, <3>2
  <2> HIDE DEF M, m
  <2>2. /\ Len(Append(received, m)) = Len(received) + 1
        /\ \A i \in 1 .. Len(received) : Append(received, m)[i] = received[i]
        /\ Append(received, m)[Len(received) + 1] = m
    BY <2>1, AppendProperties
  <2> QED
    BY <1>6, <2>2 DEF Last
<1> HIDE DEF n, m, f
<1>10. Delivered'
  <2>1. Len(received') <= Last'
    BY <1>5, <1>7, <1>9
  <2>2. ASSUME NEW i \in 1 .. n + 1 PROVE received'[i] = submitted[i]
    <3>1. CASE i = n + 1
      <4>1. received'[n + 1] = submitted[n + 1]
        BY <1>9 DEF m
      <4> QED
        BY <3>1, <4>1
    <3>2. CASE i # n + 1
      <4>1. i \in 1 .. n
        BY <1>7, <3>2
      <4> QED
        BY <1>1, <1>9, <4>1 DEF Delivered, n
    <3> QED
      BY <3>1, <3>2
  <2> QED
    BY <1>6, <1>9, <2>1, <2>2, Zenon DEF Delivered
<1>11. /\ Len(Stream) \in Nat /\ Len(Stream) >= f
       /\ Len(Stream') = Len(Stream) - f
       /\ \A x \in 1 .. Len(Stream) - f : Stream'[x] = Stream[f + x]
  <2> DEFINE rest == SubSeq(inbox, f + 1, Len(inbox))
  <2>1. /\ inbox \in Seq(Byte) /\ inflight \in Seq(Byte)
        /\ Len(inbox) \in Nat /\ Len(inflight) \in Nat /\ f <= Len(inbox)
    BY <1>1, <1>4, <1>8, DecodableLengths DEF TypeOK
  <2>2. /\ rest \in Seq(Byte) /\ Len(rest) = Len(inbox) - f
        /\ \A i \in 1 .. Len(inbox) - f : rest[i] = inbox[f + i]
    BY <1>1, <1>4, <1>8, DecodedParts
  <2>3. Stream' = rest \o inflight
    BY <1>6, <1>8 DEF Stream
  <2> HIDE DEF rest
  <2>4. /\ Len(rest \o inflight) = Len(rest) + Len(inflight)
        /\ \A i \in 1 .. Len(rest) + Len(inflight) : (rest \o inflight)[i] =
             IF i <= Len(rest) THEN rest[i] ELSE inflight[i - Len(rest)]
    BY <2>1, <2>2, ConcatProperties
  <2>5. /\ Len(Stream) = Len(inbox) + Len(inflight)
        /\ \A i \in 1 .. Len(inbox) + Len(inflight) : Stream[i] =
             IF i <= Len(inbox) THEN inbox[i] ELSE inflight[i - Len(inbox)]
    BY <2>1, ConcatProperties DEF Stream
  <2>6. ASSUME NEW x \in 1 .. Len(Stream) - f PROVE Stream'[x] = Stream[f + x]
    <3>1. x \in 1 .. Len(rest) + Len(inflight) /\ f + x \in 1 .. Len(inbox) + Len(inflight)
      BY <1>7, <2>1, <2>2, <2>5
    <3>2. CASE x <= Len(rest)
      <4>1. f + x <= Len(inbox) /\ x \in 1 .. Len(inbox) - f
        BY <1>7, <2>1, <2>2, <3>1, <3>2
      <4> QED
        BY <2>2, <2>3, <2>4, <2>5, <3>1, <3>2, <4>1
    <3>3. CASE ~(x <= Len(rest))
      <4>1. ~(f + x <= Len(inbox)) /\ x - Len(rest) = (f + x) - Len(inbox)
        BY <1>7, <2>1, <2>2, <3>1, <3>3
      <4>2. Stream'[x] = inflight[x - Len(rest)]
        BY <2>3, <2>4, <3>1, <3>3
      <4>3. Stream[f + x] = inflight[(f + x) - Len(inbox)]
        <5> DEFINE y == f + x
        <5>1. y \in 1 .. Len(inbox) + Len(inflight) /\ ~(y <= Len(inbox))
          BY <3>1, <4>1
        <5> HIDE DEF y
        <5>2. Stream[y] = IF y <= Len(inbox) THEN inbox[y] ELSE inflight[y - Len(inbox)]
          BY <2>5, <5>1, Zenon
        <5>3. Stream[y] = inflight[y - Len(inbox)]
          BY <5>1, <5>2
        <5> QED
          BY <5>3 DEF y
      <4> QED
        BY <4>1, <4>2, <4>3
    <3> QED
      BY <3>2, <3>3
  <2>7. Len(Stream) \in Nat /\ Len(Stream) >= f /\ Len(Stream') = Len(Stream) - f
    BY <1>7, <2>1, <2>2, <2>3, <2>4, <2>5
  <2> QED
    BY <2>6, <2>7
<1>12. PICK pos2 \in [0 .. Last -> Int] : \A i \in 0 .. Last : pos2[i] = pos[i] - f
  <2> DEFINE p == [i \in 0 .. Last |-> pos[i] - f]
  <2>1. p \in [0 .. Last -> Int] /\ \A i \in 0 .. Last : p[i] = pos[i] - f
    BY <1>3, <1>7 DEF Places
  <2> HIDE DEF p
  <2> QED
    BY <2>1
<1>13. /\ \A i \in 0 .. Last : pos[i] \in Int
       /\ \A i \in 1 .. Last : pos[i] = pos[i - 1] + FrameLen(submitted[i])
       /\ \A i, j \in 0 .. Last : i <= j => pos[i] <= pos[j]
       /\ ks \in [1 .. Last -> MaskKey]
  BY <1>3 DEF Places
<1>14. pos[n + 1] = f
  <2>1. (n + 1) - 1 = n /\ pos[n] = 0
    BY <1>5, <1>7
  <2> QED
    BY <1>7, <1>13, <2>1 DEF f, m
<1>15. Places(pos2, ks)'
  <2>1. ASSUME NEW i \in 1 .. Last PROVE pos2[i] = pos2[i - 1] + FrameLen(submitted[i])
    <3>1. i \in 0 .. Last /\ i - 1 \in 0 .. Last /\ FrameLen(submitted[i]) \in Nat
      BY <1>1, <1>7, Counts
    <3>2. pos2[i] = pos[i] - f /\ pos2[i - 1] = pos[i - 1] - f
      BY <1>12, <3>1
    <3>3. pos[i] = pos[i - 1] + FrameLen(submitted[i]) /\ pos[i - 1] \in Int /\ pos[i] \in Int
      BY <1>13, <3>1
    <3> QED
      BY <1>7, <3>1, <3>2, <3>3, SMTT(40)
  <2>2. ASSUME NEW i \in 0 .. Last, NEW j \in 0 .. Last, i <= j
        PROVE  pos2[i] <= pos2[j]
    <3>1. pos[i] <= pos[j] /\ pos[i] \in Int /\ pos[j] \in Int
      BY <1>13, <2>2
    <3>2. pos2[i] = pos[i] - f /\ pos2[j] = pos[j] - f
      BY <1>12
    <3> QED
      BY <1>7, <3>1, <3>2
  <2>3. pos2[n + 1] = 0
    <3>1. n + 1 \in 0 .. Last
      BY <1>7
    <3> QED
      BY <1>7, <1>12, <1>14, <3>1
  <2> QED
    BY <1>6, <1>9, <1>12, <1>13, <2>1, <2>2, <2>3, Zenon DEF Places
<1>16. Filled(pos2, ks)'
  <2>1. Len(Stream') <= pos2[Last]
    <3>1. Last \in 0 .. Last /\ Len(Stream) <= pos[Last]
      BY <1>3, <1>7 DEF Filled
    <3> QED
      BY <1>7, <1>11, <1>12, <1>13, <3>1
  <2>2. ASSUME NEW i \in (n + 1) + 1 .. Last
        PROVE  /\ pos2[i - 1] + 1 < Len(Stream') => Short(submitted[i])
               /\ \A j \in 1 .. FrameLen(submitted[i]) :
                    pos2[i - 1] + j <= Len(Stream') =>
                      Stream'[pos2[i - 1] + j] = FrameByte(submitted[i], ks[i], j)
    <3>1. /\ i - 1 \in 0 .. Last /\ i \in n + 1 .. Last /\ i \in 1 .. Last
          /\ n + 1 \in 0 .. Last /\ n + 1 <= i - 1
      BY <1>7
    <3>2. pos2[i - 1] = pos[i - 1] - f /\ pos[i - 1] \in Int /\ pos[i - 1] >= f
      BY <1>12, <1>13, <1>14, <3>1
    <3>3. /\ pos[i - 1] + 1 < Len(Stream) => Short(submitted[i])
          /\ \A j \in 1 .. FrameLen(submitted[i]) :
               pos[i - 1] + j <= Len(Stream) =>
                 Stream[pos[i - 1] + j] = FrameByte(submitted[i], ks[i], j)
      BY <1>3, <3>1 DEF Filled, n
    <3>4. pos2[i - 1] + 1 < Len(Stream') => pos[i - 1] + 1 < Len(Stream)
      BY <1>7, <1>11, <3>2, SMTT(40)
    <3>5. ASSUME NEW j \in 1 .. FrameLen(submitted[i]), pos2[i - 1] + j <= Len(Stream')
          PROVE  Stream'[pos2[i - 1] + j] = FrameByte(submitted[i], ks[i], j)
      <4>1. j \in Nat \ {0}
        <5>1. FrameLen(submitted[i]) \in Nat
          BY <1>1, <3>1, Counts
        <5> QED
          BY <5>1
      <4>2. /\ pos2[i - 1] + j \in 1 .. Len(Stream) - f
            /\ f + (pos2[i - 1] + j) = pos[i - 1] + j
            /\ pos[i - 1] + j <= Len(Stream)
        <5>1. /\ Len(Stream) \in Nat /\ Len(Stream') = Len(Stream) - f
              /\ f \in Nat
          BY <1>7, <1>11
        <5>2. pos[i - 1] - f + j <= Len(Stream) - f
          BY <3>2, <3>5, <5>1
        <5>3. pos[i - 1] - f + j >= 1
          BY <3>2, <4>1, <5>1
        <5> QED
          BY <3>2, <4>1, <5>1, <5>2, <5>3
      <4> QED
        BY <1>11, <3>3, <4>2
    <3> QED
      BY <3>3, <3>4, <3>5
  <2> QED
    BY <1>6, <1>9, <2>1, <2>2, Zenon DEF Filled
<1>17. Progress(pos2, ks)'
  <2>1. /\ Chunk(pc)' = Chunk(pc) /\ Before(pc)' = Before(pc) /\ Last' = Last
        /\ submitted' = submitted /\ message' = message /\ key' = key /\ wrote' = wrote
        /\ pc' = pc /\ reset' = reset
    BY <1>6 DEF Chunk, Before, Last
  <2>2. pos2[Last] = pos[Last] - f /\ pos[Last] \in Int
    <3>1. Last \in 0 .. Last
      BY <1>7
    <3> QED
      BY <1>12, <1>13, <3>1
  <2> SUFFICES ASSUME ~reset
               PROVE  /\ pc = "idle" => Idle(pos2)'
                      /\ pc \in Stage => Writing(pos2, ks)'
                      /\ pc = "dead" => Died(pos2)'
    BY <2>1 DEF Progress
  <2>3. ASSUME pc = "idle" PROVE Idle(pos2)'
    <3>1. Len(Stream) = pos[Last]
      BY <1>3, <2>3 DEF Progress, Idle
    <3> QED
      BY <1>11, <2>1, <2>2, <3>1 DEF Idle
  <2>4. ASSUME pc \in Stage PROVE Writing(pos2, ks)'
    <3>1. Writing(pos, ks)
      BY <1>3, <2>4 DEF Progress
    <3>2. Len(Stream) = pos[Last] - FrameLen(message) + Before(pc) + wrote
      BY <3>1 DEF Writing
    <3>3. FrameLen(message) \in Nat /\ Before(pc) \in Nat /\ wrote \in Nat
      <4>1. Len(message.data) \in Nat /\ Before(pc) \in Nat
        BY <1>1, <2>4, ChunkInLength
      <4> QED
        BY <1>1, <4>1 DEF FrameLen, TypeOK
    <3>4. Len(Stream') = pos2[Last] - FrameLen(message) + Before(pc) + wrote
      <4>1. Len(Stream') = Len(Stream) - f /\ f \in Nat
        BY <1>7, <1>11
      <4> QED
        BY <2>2, <3>2, <3>3, <4>1, SMTT(40)
    <3> QED
      BY <2>1, <3>1, <3>4 DEF Writing
  <2>5. ASSUME pc = "dead" PROVE Died(pos2)'
    <3>1. Last > 0 /\ \E b \in {0, 1, 6} :
            /\ Len(Stream) = pos[Last] - FrameLen(submitted[Last]) + b
            /\ b = 6 => submitted[Last].data # <<>>
      BY <1>3, <2>5 DEF Progress, Died
    <3>2. PICK b \in {0, 1, 6} :
            /\ Len(Stream) = pos[Last] - FrameLen(submitted[Last]) + b
            /\ b = 6 => submitted[Last].data # <<>>
      BY <3>1
    <3>3. FrameLen(submitted[Last]) \in Nat
      <4>1. Last \in 1 .. Last
        BY <1>7, <3>1
      <4> QED
        BY <1>1, <4>1, Counts
    <3>4. Len(Stream') = pos2[Last] - FrameLen(submitted[Last]) + b
      BY <1>7, <1>11, <2>2, <3>2, <3>3, SMTT(40)
    <3> QED
      BY <2>1, <3>1, <3>2, <3>4 DEF Died
  <2> QED
    BY <2>3, <2>4, <2>5
<1> QED
  BY <1>1, <1>10, <1>15, <1>16, <1>17 DEF FInv, Framed

-------------------------------------------------------------------------------
(* The theorems.                                                           *)

LEMMA InitFrames ==
  ASSUME Init
  PROVE  FInv
<1>1. TInv
  BY InitTypes
<1>2. Last = 0 /\ Len(received) = 0 /\ Len(Stream) = 0
  <2>1. inbox = <<>> /\ inflight = <<>> /\ submitted = <<>> /\ received = <<>>
    BY DEF Init
  <2>2. Len(inbox) = 0 /\ Len(inflight) = 0
    BY <2>1
  <2>3. Len(Stream) = 0
    BY <1>1, <2>2, StreamIsBytes DEF TInv
  <2> QED
    BY <2>1, <2>3 DEF Last
<1>3. Delivered
  BY <1>2 DEF Delivered
<1>4. PICK pos \in [0 .. 0 -> Int] : pos[0] = 0
  <2>1. [i \in 0 .. 0 |-> 0] \in [0 .. 0 -> Int] /\ [i \in 0 .. 0 |-> 0][0] = 0
    OBVIOUS
  <2> QED
    BY <2>1
<1>5. PICK ks : ks \in [1 .. 0 -> MaskKey]
  <2>1. [i \in 1 .. 0 |-> 0] \in [1 .. 0 -> MaskKey]
    OBVIOUS
  <2> QED
    BY <2>1
<1>6. Places(pos, ks)
  BY <1>2, <1>4, <1>5 DEF Places
<1>7. Filled(pos, ks)
  BY <1>2, <1>4 DEF Filled
<1>8. Progress(pos, ks)
  BY <1>2, <1>4 DEF Progress, Idle, Init, Stage
<1> QED
  BY <1>1, <1>3, <1>6, <1>7, <1>8 DEF FInv, Framed

LEMMA StutterFrames ==
  ASSUME FInv, UNCHANGED vars
  PROVE  FInv'
<1>1. TInv'
  BY StutterTypes DEF FInv
<1>2. UNCHANGED <<pc, message, key, wrote, inflight, reset, inbox, submitted, received>>
  BY DEF vars, writerVars
<1>3. PICK pos, ks : Framed(pos, ks)
  BY DEF FInv
<1>4. /\ Stream' = Stream /\ Last' = Last
      /\ Chunk(pc)' = Chunk(pc) /\ Before(pc)' = Before(pc)
  BY <1>2 DEF Stream, Last, Chunk, Before
<1>5. Framed(pos, ks)'
  BY <1>2, <1>3, <1>4 DEF Framed, Places, Filled, Progress, Idle, Writing, Died
<1> QED
  BY <1>1, <1>2, <1>5 DEF FInv, Delivered, Last

LEMMA FInvStep ==
  ASSUME AssertionTells, FInv, [Next]_vars
  PROVE  FInv'
<1>1. CASE ws_send_message
  BY <1>1, SendFrames
<1>2. CASE Writer
  BY <1>2, WriterFrames
<1>3. CASE PeerReads
  BY <1>3, ReadFrames
<1>4. CASE PeerDecodes
  BY <1>4, DecodeFrames
<1>5. CASE PeerResets
  <2>1. TInv'
    BY <1>5, ResetTypes DEF FInv
  <2> QED
    BY <1>5, <2>1, ResetFrames DEF PeerResets, writerVars
<1>6. CASE UNCHANGED vars
  BY <1>6, StutterFrames
<1> QED
  BY <1>1, <1>2, <1>3, <1>4, <1>5, <1>6 DEF Next, Peer

(* The stream holds no whole frame of the peer's: it ends before the end   *)
(* of the frame that is due.                                               *)
LEMMA NoWholeFrame ==
  ASSUME TypeOK, Delivered, NEW pos, NEW ks, Places(pos, ks), Filled(pos, ks),
         inflight = <<>>, ~Decodable, Len(received) < Last
  PROVE  Len(Stream) < pos[Len(received) + 1]
<1> DEFINE n == Len(received)
           m == submitted[n + 1]
<1>1. Stream = inbox /\ Len(inbox) \in Nat
  <2>1. inbox \in Seq(Byte)
    BY DEF TypeOK
  <2>2. inbox \o <<>> = inbox
    BY <2>1, ConcatEmptySeq
  <2> QED
    BY <2>1, <2>2 DEF Stream
<1>2. Last \in Nat /\ n \in Nat /\ n + 1 \in 1 .. Last /\ (n + 1) - 1 = n
  BY Counts
<1>3. FrameLen(m) \in Nat /\ FrameLen(m) >= 6 /\ FrameLen(m) = 6 + Len(m.data)
      /\ Len(m.data) \in Nat
  BY <1>2, Counts DEF FrameLen
<1>4. pos[n + 1] = FrameLen(m)
  <2>1. pos[n + 1] = pos[n] + FrameLen(m) /\ pos[n] = 0
    BY <1>2 DEF Places
  <2> QED
    BY <1>3, <2>1
<1>5. SUFFICES ASSUME Len(inbox) >= FrameLen(m) PROVE FALSE
  BY <1>1, <1>3, <1>4
<1>6. Len(inbox) >= 2
  BY <1>1, <1>3, <1>5
<1>7. HeaderLen = 6 /\ PayloadLen = Len(m.data)
  BY <1>6, FirstFrame
<1> HIDE DEF m, n
<1>8. Len(inbox) >= 6 /\ Len(inbox) >= 6 + Len(m.data)
  BY <1>1, <1>3, <1>5
<1> QED
  BY <1>6, <1>7, <1>8 DEF Decodable

LEMMA FInvNoTrailingBytes ==
  ASSUME FInv
  PROVE  NoTrailingBytes
<1> SUFFICES ASSUME pc = "idle", ~reset, inflight = <<>>, ~Decodable
             PROVE  inbox = <<>> /\ received = submitted
  BY DEF NoTrailingBytes
<1>1. TypeOK /\ Delivered
  BY DEF FInv, TInv
<1>2. PICK pos, ks : Places(pos, ks) /\ Filled(pos, ks) /\ Progress(pos, ks)
  BY DEF FInv, Framed
<1>3. Len(Stream) = pos[Last]
  BY <1>2 DEF Progress, Idle
<1>4. Last \in Nat /\ Len(received) \in Nat /\ Len(received) <= Last
  BY <1>1, Counts DEF Delivered
<1>5. Len(received) = Last
  <2> SUFFICES ASSUME Len(received) < Last PROVE FALSE
    BY <1>4
  <2>1. Len(Stream) < pos[Len(received) + 1]
    BY <1>1, <1>2, NoWholeFrame
  <2>2. Len(received) + 1 \in 0 .. Last /\ Last \in 0 .. Last
    BY <1>4
  <2>3. /\ pos[Len(received) + 1] <= pos[Last]
        /\ pos[Len(received) + 1] \in Int /\ pos[Last] \in Int
    BY <1>2, <1>4, <2>2 DEF Places
  <2> QED
    BY <1>3, <2>1, <2>3
<1>6. inbox = <<>>
  <2>1. Len(Stream) = 0
    BY <1>2, <1>3, <1>5 DEF Places
  <2>2. Len(inbox) = 0
    BY <1>1, <2>1, StreamIsBytes
  <2> QED
    BY <1>1, <2>2, EmptySeq DEF TypeOK
<1>7. received = submitted
  <2> DEFINE M == [binary : BOOLEAN, data : Seq(Byte)]
  <2>1. Message \subseteq M
    BY PayloadAssumption DEF Message
  <2>2. received \in Seq(M) /\ submitted \in Seq(Message)
    BY <1>1 DEF TypeOK
  <2> HIDE DEF M
  <2>3. submitted \in Seq(M)
    BY <2>1, <2>2, SeqMonotonic
  <2>4. Len(received) = Len(submitted)
    BY <1>5 DEF Last
  <2>5. \A i \in 1 .. Len(received) : received[i] = submitted[i]
    BY <1>1 DEF Delivered
  <2> QED
    BY <2>2, <2>3, <2>4, <2>5, SeqEqual
<1> QED
  BY <1>6, <1>7

LEMMA FInvDeathLeavesHeader ==
  ASSUME FInv
  PROVE  DeathLeavesHeader
<1> SUFFICES ASSUME pc = "dead", ~reset, inflight = <<>>, ~Decodable
             PROVE  Len(inbox) \in {0, 1, 6}
  BY DEF DeathLeavesHeader
<1>1. TypeOK /\ Delivered
  BY DEF FInv, TInv
<1>2. PICK pos, ks : Places(pos, ks) /\ Filled(pos, ks) /\ Progress(pos, ks)
  BY DEF FInv, Framed
<1>3. Last > 0 /\ \E b \in {0, 1, 6} :
        /\ Len(Stream) = pos[Last] - FrameLen(submitted[Last]) + b
        /\ b = 6 => submitted[Last].data # <<>>
  BY <1>2 DEF Progress, Died
<1>4. PICK b \in {0, 1, 6} :
        /\ Len(Stream) = pos[Last] - FrameLen(submitted[Last]) + b
        /\ b = 6 => submitted[Last].data # <<>>
  BY <1>3
<1>5. /\ Last \in Nat \ {0} /\ Len(received) \in Nat /\ Len(received) <= Last
      /\ Last \in 1 .. Last /\ Last \in 0 .. Last /\ Last - 1 \in 0 .. Last
  BY <1>1, <1>3, Counts DEF Delivered
<1>6. /\ pos[Last] = pos[Last - 1] + FrameLen(submitted[Last])
      /\ pos[Last] \in Int /\ pos[Last - 1] \in Int
      /\ FrameLen(submitted[Last]) \in Nat
      /\ Len(Stream) \in Nat /\ Len(Stream) = Len(inbox)
  <2>1. Len(Stream) = Len(inbox) + Len(inflight) /\ Len(inbox) \in Nat
    BY <1>1, StreamIsBytes
  <2>2. Len(inflight) = 0
    OBVIOUS
  <2>3. FrameLen(submitted[Last]) \in Nat
    BY <1>1, <1>5, Counts
  <2> QED
    BY <1>2, <1>5, <2>1, <2>2, <2>3 DEF Places
<1>7. Len(Stream) = pos[Last - 1] + b
  BY <1>4, <1>6
<1>8. CASE Len(received) = Last
  <2>1. pos[Last] = 0
    BY <1>2, <1>8 DEF Places
  <2>2. /\ FrameLen(submitted[Last]) = 6 + Len(submitted[Last].data)
        /\ Len(submitted[Last].data) \in Nat
        /\ b = 6 => Len(submitted[Last].data) > 0
    <3>1. submitted[Last].data \in Seq(Byte)
      BY <1>1, <1>5, Counts
    <3> QED
      BY <1>4, <3>1, EmptySeq DEF FrameLen
  <2>3. Len(Stream) = b - FrameLen(submitted[Last])
    BY <1>4, <1>6, <2>1
  <2>4. FALSE
    BY <1>6, <2>2, <2>3
  <2> QED
    BY <2>4
<1>9. CASE Len(received) < Last
  <2>1. Len(Stream) < pos[Len(received) + 1]
    BY <1>1, <1>2, <1>9, NoWholeFrame
  <2>2. Len(received) = Last - 1
    <3> SUFFICES ASSUME Len(received) # Last - 1 PROVE FALSE
      OBVIOUS
    <3>1. Len(received) + 1 \in 0 .. Last /\ Len(received) + 1 <= Last - 1
      BY <1>5, <1>9
    <3>2. /\ pos[Len(received) + 1] <= pos[Last - 1]
          /\ pos[Len(received) + 1] \in Int
      BY <1>2, <1>5, <3>1 DEF Places
    <3> QED
      BY <1>6, <1>7, <2>1, <3>2
  <2>3. pos[Last - 1] = 0
    BY <1>2, <2>2 DEF Places
  <2> QED
    BY <1>6, <1>7, <2>3
<1> QED
  BY <1>5, <1>8, <1>9

(* As long as no payload has a length the truncation to a byte makes short *)
(* again, once ws_send_message has returned on a live connection and the   *)
(* peer has decoded all it can, it has every message and no byte is left   *)
(* over, however write(2) cut the four buffers of every frame.             *)
THEOREM WholeFrames == ASSUME AssertionTells PROVE Spec => []NoTrailingBytes
<1>1. Init => FInv
  BY InitFrames
<1>2. FInv /\ [Next]_vars => FInv'
  BY FInvStep
<1>3. FInv => NoTrailingBytes
  BY FInvNoTrailingBytes
<1> QED
  BY <1>1, <1>2, <1>3, PTL DEF Spec

(* Under the same condition a process that dies in the middle of a message *)
(* leaves on a live connection no byte of its payload.                     *)
THEOREM DeathBetweenBuffers == ASSUME AssertionTells PROVE Spec => []DeathLeavesHeader
<1>1. Init => FInv
  BY InitFrames
<1>2. FInv /\ [Next]_vars => FInv'
  BY FInvStep
<1>3. FInv => DeathLeavesHeader
  BY FInvDeathLeavesHeader
<1> QED
  BY <1>1, <1>2, <1>3, PTL DEF Spec

(* What the peer decodes is the message that is due.                       *)
LEMMA DecodesNextMessage ==
  ASSUME FInv, PeerDecodes
  PROVE  /\ Len(received) < Len(submitted)
         /\ received' = Append(received, submitted[Len(received) + 1])
         /\ UNCHANGED submitted
<1>1. TypeOK /\ Delivered
  BY DEF FInv, TInv
<1>2. PICK pos, ks : Places(pos, ks) /\ Filled(pos, ks)
  BY DEF FInv, Framed
<1>3. Decodable /\ Len(inbox) >= 2
  BY DEF PeerDecodes, Decodable
<1>4. Len(received) < Len(submitted)
  BY <1>1, <1>2, <1>3, FirstFrame DEF Last
<1>5. Decoded = submitted[Len(received) + 1]
  BY <1>1, <1>2, <1>3, DecodesNext
<1>6. received' = Append(received, Decoded) /\ UNCHANGED submitted
  BY <1>1, PeerDecodesDecoded
<1> QED
  BY <1>4, <1>5, <1>6

LEMMA ChannelStep ==
  ASSUME FInv, [Next]_vars
  PROVE  [Channel!Next]_<<submitted, received>>
<1>1. CASE ws_send_message
  BY <1>1 DEF ws_send_message, Channel!Next, Channel!Submit
<1>2. CASE Writer
  BY <1>2 DEF Writer, WriteSome, WriteNothing, WriteFails
<1>3. CASE PeerReads
  BY <1>3 DEF PeerReads
<1>4. CASE PeerDecodes
  BY <1>4, DecodesNextMessage DEF Channel!Next, Channel!Receive
<1>5. CASE PeerResets
  BY <1>5 DEF PeerResets
<1>6. CASE UNCHANGED vars
  BY <1>6 DEF vars
<1> QED
  BY <1>1, <1>2, <1>3, <1>4, <1>5, <1>6 DEF Next, Peer

(* Under the same condition the peer receives the messages submitted, in   *)
(* order, each once and unchanged: FrameWriter implements MessageChannel.  *)
THEOREM Refinement == ASSUME AssertionTells PROVE Spec => ImplementsChannel
<1>1. Init => FInv
  BY InitFrames
<1>2. FInv /\ [Next]_vars => FInv'
  BY FInvStep
<1>3. Init => Channel!Init
  BY DEF Init, Channel!Init
<1>4. FInv /\ [Next]_vars => [Channel!Next]_(Channel!vars)
  BY ChannelStep DEF Channel!vars
<1> QED
  BY <1>1, <1>2, <1>3, <1>4, PTL DEF Spec, ImplementsChannel, Channel!Spec
-------------------------------------------------------------------------------
(* Progress.  What a message still needs is a number that every write(2)   *)
(* makes smaller, for payloads of every length.                            *)

Size(stage) ==
  IF stage \in {"opcode", "length"} THEN 1
  ELSE IF stage = "mask" THEN 4 ELSE Len(message.data)

AInv == TInv /\ (pc \in Stage => wrote <= Size(pc))

LEMMA SizeOfChunk == TInv /\ pc \in Stage => Len(Chunk(pc)) = Size(pc)
BY ChunkIsBytes, SendingBytes DEF TInv, TypeOK, Size

Weight(stage) ==
  IF stage = "opcode" THEN 10 ELSE IF stage = "length" THEN 8
  ELSE IF stage = "mask" THEN 6 ELSE 1

Measured == ToWrite = IF pc \in Stage THEN Weight(pc) + Len(message.data) - wrote ELSE 0

LEMMA TypesMeasure == TInv => Measured
<1> SUFFICES ASSUME TInv PROVE Measured
  OBVIOUS
<1>1. CASE pc \notin Stage
  BY <1>1 DEF Measured, ToWrite
<1>2. CASE pc \in Stage
  <2> DEFINE n == Len(message.data)
  <2>1. n \in Nat /\ wrote \in Nat
    <3>1. message.data \in Seq(Byte)
      BY <1>2, SendingBytes
    <3> QED
      BY <3>1 DEF TInv, TypeOK
  <2>2. ToWrite = BuffersLeft + BytesLeft
    BY <1>2 DEF ToWrite
  <2> HIDE DEF n
  <2>3. CASE pc = "opcode"
    <3>1. BuffersLeft = 4 /\ BytesLeft = n - wrote + 6 /\ Weight(pc) = 10
      BY <2>3 DEF BuffersLeft, BytesLeft, Weight, n
    <3> QED
      BY <1>2, <2>1, <2>2, <3>1 DEF Measured, n
  <2>4. CASE pc = "length"
    <3>1. BuffersLeft = 3 /\ BytesLeft = n - wrote + 5 /\ Weight(pc) = 8
      BY <2>4 DEF BuffersLeft, BytesLeft, Weight, n
    <3> QED
      BY <1>2, <2>1, <2>2, <3>1 DEF Measured, n
  <2>5. CASE pc = "mask"
    <3>1. BuffersLeft = 2 /\ BytesLeft = n - wrote + 4 /\ Weight(pc) = 6
      BY <2>5 DEF BuffersLeft, BytesLeft, Weight, n
    <3> QED
      BY <1>2, <2>1, <2>2, <3>1 DEF Measured, n
  <2>6. CASE pc = "payload"
    <3>1. BuffersLeft = 1 /\ BytesLeft = n - wrote + 0 /\ Weight(pc) = 1
      BY <2>6 DEF BuffersLeft, BytesLeft, Weight, n
    <3> QED
      BY <1>2, <2>1, <2>2, <3>1 DEF Measured, n
  <2> QED
    BY <1>2, <2>3, <2>4, <2>5, <2>6 DEF Stage
<1> QED
  BY <1>1, <1>2

LEMMA TypesMeasureNext == TInv' => Measured'
BY TypesMeasure, PTL

(* The buffers come in order, and one that follows needs less.             *)
LEMMA NextIsLighter ==
  ASSUME TInv, NextStage, wrote <= Size(pc)
  PROVE  /\ pc' \in Stage => wrote' <= Size(pc)'
         /\ pc' \in Stage => Weight(pc') + Len(message.data) < Weight(pc) + Len(message.data) - wrote
         /\ pc' \in Stage \/ Weight(pc) + Len(message.data) - wrote > 0
<1> DEFINE n == Len(message.data)
<1>1. pc \in Stage /\ wrote' = 0 /\ message' = message
  BY NextStageTypes
<1>2. n \in Nat /\ wrote \in Nat
  <2>1. message.data \in Seq(Byte)
    BY <1>1, SendingBytes
  <2> QED
    BY <2>1 DEF TInv, TypeOK
<1>3. Len(message'.data) = n
  BY <1>1
<1>4. pc' \in Stage => Size(pc)' \in Nat
  BY <1>2, <1>3 DEF Size
<1> HIDE DEF n
<1>5. wrote <= IF pc \in {"opcode", "length"} THEN 1 ELSE IF pc = "mask" THEN 4 ELSE n
  BY DEF Size, n
<1>6. \/ pc = "opcode" /\ pc' \in {"length", "dead"}
      \/ pc = "length" /\ pc' = "mask"
      \/ pc = "mask" /\ pc' \in {"payload", "dead"}
      \/ pc = "payload" /\ pc' = "idle"
  BY DEF NextStage
<1>7. /\ pc' \in Stage => Weight(pc') + n < Weight(pc) + n - wrote
      /\ Weight(pc) + n - wrote > 0
  <2>1. CASE pc = "opcode"
    BY <1>2, <1>5, <1>6, <2>1 DEF Weight, Stage
  <2>2. CASE pc = "length"
    BY <1>2, <1>5, <1>6, <2>2 DEF Weight, Stage
  <2>3. CASE pc = "mask"
    BY <1>2, <1>5, <1>6, <2>3 DEF Weight, Stage
  <2>4. CASE pc = "payload"
    BY <1>2, <1>5, <1>6, <2>4 DEF Weight, Stage
  <2> QED
    BY <1>6, <2>1, <2>2, <2>3, <2>4
<1>8. pc' \in Stage => wrote' <= Size(pc)'
  BY <1>1, <1>4
<1> QED
  BY <1>7, <1>8 DEF n

LEMMA WriterAdvances ==
  ASSUME AInv, Writer
  PROVE  AInv' /\ 0 <= ToWrite' /\ ToWrite' < ToWrite
<1> DEFINE n == Len(message.data)
<1>1. pc \in Stage /\ TInv /\ wrote <= Size(pc) /\ TInv'
  BY WriterTypes DEF AInv, Writer, WriteSome, WriteNothing, WriteFails
<1>2. n \in Nat /\ wrote \in Nat /\ wrote' \in Nat /\ Weight(pc) \in Nat /\ Weight(pc') \in Nat
  <2>1. message.data \in Seq(Byte)
    BY <1>1, SendingBytes
  <2>2. wrote \in Nat /\ wrote' \in Nat
    BY <1>1 DEF TInv, TypeOK
  <2> QED
    BY <2>1, <2>2 DEF Weight
<1>3. ToWrite = Weight(pc) + n - wrote
  BY <1>1, TypesMeasure DEF Measured
<1>4. ToWrite' = IF pc' \in Stage THEN Weight(pc') + Len(message'.data) - wrote' ELSE 0
  BY <1>1, TypesMeasureNext DEF Measured
<1>5. CASE NextStage
  <2>1. wrote' = 0 /\ message' = message
    BY <1>1, <1>5, NextStageTypes
  <2>2. /\ pc' \in Stage => wrote' <= Size(pc)'
        /\ pc' \in Stage => Weight(pc') + n < Weight(pc) + n - wrote
        /\ pc' \in Stage \/ Weight(pc) + n - wrote > 0
    BY <1>1, <1>5, <2>1, NextIsLighter
  <2>3. ToWrite' = IF pc' \in Stage THEN Weight(pc') + n ELSE 0
    BY <1>2, <1>4, <2>1
  <2> HIDE DEF n
  <2>4. 0 <= ToWrite' /\ ToWrite' < ToWrite
    BY <1>2, <1>3, <2>2, <2>3
  <2> QED
    BY <1>1, <2>2, <2>4 DEF AInv
<1>6. CASE pc' = "dead" /\ UNCHANGED <<message, key, wrote>>
  <2>1. Weight(pc) + n - wrote > 0 /\ ToWrite' = 0
    <3>1. wrote <= IF pc \in {"opcode", "length"} THEN 1 ELSE IF pc = "mask" THEN 4 ELSE n
      BY <1>1 DEF Size
    <3>2. ToWrite' = 0
      BY <1>4, <1>6 DEF Stage
    <3> HIDE DEF n
    <3> QED
      BY <1>1, <1>2, <3>1, <3>2 DEF Weight, Stage
  <2>2. AInv'
    BY <1>1, <1>6 DEF AInv, Stage
  <2>3. 0 <= ToWrite' /\ ToWrite' < ToWrite
    BY <1>3, <2>1
  <2> QED
    BY <2>2, <2>3
<1>7. CASE WriteSome /\ ~NextStage
  <2>1. PICK k \in Nat \ {0} : /\ wrote + k < Len(Chunk(pc))
                               /\ wrote' = wrote + k
                               /\ UNCHANGED <<pc, message, key>>
    BY <1>1, <1>7, WriteSomeTakes
  <2>2. wrote + k < Size(pc) /\ Size(pc)' = Size(pc)
    <3>1. Size(pc)' = Size(pc)
      BY <2>1 DEF Size
    <3>2. wrote + k < Size(pc)
      BY <1>1, <2>1, SizeOfChunk
    <3> QED
      BY <3>1, <3>2
  <2>3. ToWrite' = Weight(pc) + n - (wrote + k)
    <3>1. pc' = pc /\ Len(message'.data) = n /\ wrote' = wrote + k
      BY <2>1
    <3> QED
      BY <1>1, <1>4, <3>1, Zenon
  <2>4. Size(pc) <= Weight(pc) + n
    <3>1. Size(pc) = IF pc \in {"opcode", "length"} THEN 1 ELSE IF pc = "mask" THEN 4 ELSE n
      BY DEF Size
    <3> HIDE DEF n
    <3> QED
      BY <1>1, <1>2, <3>1 DEF Weight, Stage
  <2>5. Size(pc) \in Nat
    BY <1>2 DEF Size
  <2> HIDE DEF n
  <2>6. wrote' <= Size(pc)
    BY <1>2, <2>1, <2>2, <2>5
  <2>7. 0 <= ToWrite' /\ ToWrite' < ToWrite
    BY <1>2, <1>3, <2>2, <2>3, <2>4, <2>5
  <2> QED
    BY <1>1, <2>2, <2>6, <2>7 DEF AInv
<1> QED
  BY <1>5, <1>6, <1>7 DEF Writer, WriteNothing, WriteFails

LEMMA AInvStep ==
  ASSUME AInv, [Next]_vars
  PROVE  AInv'
<1>1. CASE ws_send_message
  <2>1. TInv' /\ wrote' = 0
    BY <1>1, SendTypes DEF AInv, ws_send_message
  <2>2. pc' \in Stage => pc' = "opcode"
    BY <1>1 DEF ws_send_message, Stage
  <2> QED
    BY <2>1, <2>2 DEF AInv, Size
<1>2. CASE Writer
  BY <1>2, WriterAdvances
<1>3. CASE Peer \/ PeerResets \/ UNCHANGED vars
  <2>1. UNCHANGED <<pc, message, wrote>>
    BY <1>3 DEF Peer, PeerReads, PeerDecodes, PeerResets, vars, writerVars
  <2>2. TInv'
    BY <1>3, PeerTypes, ResetTypes, StutterTypes DEF AInv
  <2> QED
    BY <2>1, <2>2 DEF AInv, Size
<1> QED
  BY <1>1, <1>2, <1>3 DEF Next

(* Whatever write(2) takes, and also when it takes nothing or fails, a     *)
(* message comes nearer its end with every call: it has at most as many as *)
(* its frame has bytes and buffers.                                        *)
THEOREM Advance == Spec => WritesAdvance
<1>1. Init => AInv
  BY InitTypes DEF AInv, Init, Stage
<1>2. AInv /\ [Next]_vars => AInv'
  BY AInvStep
<1>3. AInv /\ [Next]_vars => [Writer => 0 <= ToWrite' /\ ToWrite' < ToWrite]_vars
  BY WriterAdvances
<1> QED
  BY <1>1, <1>2, <1>3, PTL DEF Spec, WritesAdvance
===============================================================================
