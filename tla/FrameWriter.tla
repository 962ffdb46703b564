------------------------------ MODULE FrameWriter ------------------------------
(***************************************************************************)
(* Sending a message: ws_send_message, ws_write_frame, ws__mask_payload    *)
(* and write_exact of websocket.c, over a TCP connection to a peer that    *)
(* decodes frames.                                                         *)
(*                                                                         *)
(* ws_write_frame makes four calls of write_exact: the byte with FIN and   *)
(* the opcode, the byte with the length, the masking key and the masked    *)
(* payload.  write_exact calls write(2) until its bytes are taken; one     *)
(* step of the model is one write(2).  A byte is a number below ByteMod;   *)
(* every constant of the frame format is derived from it (with ByteMod =   *)
(* 256: FIN and MASK are 0x80, a length is inline up to 125, the markers   *)
(* are 126 and 127), so that a small ByteMod keeps every boundary.         *)
(***************************************************************************)
EXTENDS Integers, Sequences

CONSTANTS
  ByteMod,     \* 256, or a small power of two
  ByteXor(_, _), \* exclusive or of two bytes
  Payload,     \* the payloads the program sends
  MaskKey,     \* the masking keys crng_next_i32 may return, as four bytes
  SendBuffer,  \* bytes in flight at which write(2) takes no more
  MaxMessages  \* bound: calls of ws_send_message

Byte == 0 .. ByteMod - 1

ASSUME ByteAssumption == ByteMod \in Nat /\ ByteMod >= 16 /\ ByteMod % 2 = 0
ASSUME XorAssumption ==
  \A a, b \in Byte : ByteXor(a, b) \in Byte /\ ByteXor(ByteXor(a, b), b) = a
ASSUME PayloadAssumption == Payload \subseteq Seq(Byte)
ASSUME MaskKeyAssumption ==
  MaskKey # {} /\ \A k \in MaskKey : k \in Seq(Byte) /\ Len(k) = 4
ASSUME SendAssumption == SendBuffer \in Nat \ {0} /\ MaxMessages \in Nat

HighBit == ByteMod \div 2       \* 0x80: FIN in the first byte, MASK in the second
LenMax == HighBit - 3           \* 125
Marker16 == LenMax + 1          \* 126
Marker64 == LenMax + 2          \* 127
Ext16Max == ByteMod * ByteMod - 1 \* 0xffff

Message == [binary : BOOLEAN, data : Payload]

VARIABLES
  pc,        \* the call of write_exact the writer is in, "idle", or "dead"
  message,   \* the message being sent
  key,       \* masking_key of its frame
  wrote,     \* bytes_wrote of the current write_exact
  inflight,  \* bytes write(2) took and the peer has not read
  reset,     \* the connection was reset
  inbox,     \* bytes the peer has read and not decoded
  submitted, \* messages passed to ws_send_message
  received   \* messages the peer decoded

writerVars == <<pc, message, key, wrote>>
vars == <<writerVars, inflight, reset, inbox, submitted, received>>

NoMessage == [binary |-> FALSE, data |-> <<>>]
Stage == {"opcode", "length", "mask", "payload"}

TypeOK ==
  /\ pc \in Stage \cup {"idle", "dead"}
  /\ message \in Message \cup {NoMessage}
  /\ key \in MaskKey \cup {<<>>}
  /\ wrote \in Nat
  /\ inflight \in Seq(Byte)
  /\ reset \in BOOLEAN
  /\ inbox \in Seq(Byte)
  /\ submitted \in Seq(Message)
  /\ received \in Seq([binary : BOOLEAN, data : Seq(Byte)])

-------------------------------------------------------------------------------
(* The four buffers of a frame.                                            *)

WS_FRAME_OP_TEXT == 1
WS_FRAME_OP_BINARY == 2

\* Mutated form of FinAndOpcode: FIN is shifted out of the byte.
FinAndOpcode_Shifted(m) ==
  2 * HighBit + (IF m.binary THEN WS_FRAME_OP_BINARY ELSE WS_FRAME_OP_TEXT)

FinAndOpcode(m) ==
  HighBit + (IF m.binary THEN WS_FRAME_OP_BINARY ELSE WS_FRAME_OP_TEXT)

(* (uint8_t)frame.payload_len, the value the assertion looks at.           *)
TruncatedLen(m) == Len(m.data) % ByteMod

PrePayloadLen(m) ==
  HighBit + (IF Len(m.data) > Ext16Max THEN Marker64
             ELSE IF Len(m.data) > LenMax THEN Marker16
             ELSE TruncatedLen(m))

\* Mutated form of ws__mask_payload: the key is taken from its second byte on.
ws__mask_payload_OffByOne(k, data) ==
  [i \in 1 .. Len(data) |-> ByteXor(data[i], k[(i % 4) + 1])]

ws__mask_payload(k, data) ==
  [i \in 1 .. Len(data) |-> ByteXor(data[i], k[((i - 1) % 4) + 1])]

Chunk(stage) ==
  IF stage = "opcode" THEN <<FinAndOpcode(message)>>
  ELSE IF stage = "length" THEN <<PrePayloadLen(message)>>
  ELSE IF stage = "mask" THEN key
  ELSE ws__mask_payload(key, message.data)

-------------------------------------------------------------------------------
(* The writer.                                                             *)

(* Four bytes of /dev/urandom.  A short read, or a descriptor that could   *)
(* not be opened, fails an assertion before anything is written.           *)
crng_next_i32 == key' \in MaskKey

ws_send_message ==
  /\ pc = "idle"
  /\ Len(submitted) < MaxMessages
  /\ \E m \in Message :
       message' = m /\ submitted' = Append(submitted, m)
  /\ \/ crng_next_i32 /\ pc' = "opcode"
     \/ pc' = "dead" /\ UNCHANGED key
  /\ wrote' = 0
  /\ UNCHANGED <<inflight, reset, inbox, received>>

\* Mutated form of NextStage: the length is not asserted to be short.
NextStage_Unchecked ==
  /\ wrote' = 0
  /\ \/ pc = "opcode" /\ pc' = "length"
     \/ pc = "length" /\ pc' = "mask"
     \/ pc = "mask" /\ pc' = "payload"
     \/ pc = "payload" /\ pc' = "idle"
  /\ UNCHANGED <<message, key>>

\* Mutated form of NextStage: the length is asserted after it was written.
NextStage_LateAssertion ==
  /\ wrote' = 0
  /\ \/ pc = "opcode" /\ pc' = "length"
     \/ pc = "length" /\ pc' = IF TruncatedLen(message) < LenMax
                                 THEN "mask" ELSE "dead"
     \/ pc = "mask" /\ pc' = "payload"
     \/ pc = "payload" /\ pc' = "idle"
  /\ UNCHANGED <<message, key>>

(* What follows a call of write_exact, whatever it returned: between the   *)
(* first two calls the length is computed and asserted to be short, before *)
(* the last one the masked copy is allocated and, if that failed, its      *)
(* first byte is stored through NULL.                                      *)
NextStage ==
  /\ wrote' = 0
  /\ \/ pc = "opcode" /\ pc' = IF TruncatedLen(message) < LenMax
                                 THEN "length" ELSE "dead"
     \/ pc = "length" /\ pc' = "mask"
     \/ pc = "mask" /\ pc' = "payload"
     \/ pc = "mask" /\ message.data # <<>> /\ pc' = "dead"
     \/ pc = "payload" /\ pc' = "idle"
  /\ UNCHANGED <<message, key>>

\* Mutated form of WriteSome: one write(2) for each buffer, as ws__write_raw.
WriteSome_Once ==
  /\ pc \in Stage
  /\ ~reset
  /\ \E n \in 1 .. SendBuffer - Len(inflight) :
       /\ n <= Len(Chunk(pc))
       /\ inflight' = inflight \o SubSeq(Chunk(pc), 1, n)
  /\ NextStage
  /\ UNCHANGED <<reset, inbox, submitted, received>>

\* Mutated form of WriteSome: what was written is not counted.
WriteSome_Uncounted ==
  /\ pc \in Stage
  /\ ~reset
  /\ \E n \in 1 .. SendBuffer - Len(inflight) :
       /\ n <= Len(Chunk(pc))
       /\ inflight' = inflight \o SubSeq(Chunk(pc), 1, n)
       /\ \/ n = Len(Chunk(pc)) /\ NextStage
          \/ n < Len(Chunk(pc)) /\ UNCHANGED writerVars
  /\ UNCHANGED <<reset, inbox, submitted, received>>

(* write(2) takes some of the remaining bytes; the last ones end the call. *)
WriteSome ==
  /\ pc \in Stage
  /\ ~reset
  /\ \E n \in 1 .. SendBuffer - Len(inflight) :
       /\ wrote + n <= Len(Chunk(pc))
       /\ inflight' = inflight \o SubSeq(Chunk(pc), wrote + 1, wrote + n)
       /\ \/ wrote + n = Len(Chunk(pc)) /\ NextStage
          \/ /\ wrote + n < Len(Chunk(pc))
             /\ wrote' = wrote + n
             /\ UNCHANGED <<pc, message, key>>
  /\ UNCHANGED <<reset, inbox, submitted, received>>

(* write(2) of no bytes returns 0, which ends the call.                    *)
WriteNothing ==
  /\ pc \in Stage
  /\ Chunk(pc) = <<>>
  /\ NextStage
  /\ UNCHANGED <<inflight, reset, inbox, submitted, received>>

(* On a connection that was reset write(2) fails: write_exact returns -1,  *)
(* which no caller looks at, or SIGPIPE ends the process.                  *)
WriteFails ==
  /\ pc \in Stage
  /\ reset
  /\ \/ NextStage
     \/ pc' = "dead" /\ UNCHANGED <<message, key, wrote>>
  /\ UNCHANGED <<inflight, reset, inbox, submitted, received>>

-------------------------------------------------------------------------------
(* The network and the peer, a decoder of masked frames.                   *)

PeerReads ==
  /\ inflight # <<>>
  /\ inbox' = inbox \o inflight
  /\ inflight' = <<>>
  /\ UNCHANGED <<writerVars, reset, submitted, received>>

ExtLen == IF inbox[2] % HighBit = Marker16 THEN 2 ELSE 0
HeaderLen == 2 + ExtLen + 4
PayloadLen == IF ExtLen = 2 THEN inbox[3] * ByteMod + inbox[4] ELSE inbox[2] % HighBit

(* The inbox holds a whole frame.                                          *)
Decodable ==
  /\ Len(inbox) >= 2
  /\ Len(inbox) >= HeaderLen
  /\ Len(inbox) >= HeaderLen + PayloadLen

PeerDecodes ==
  /\ Decodable
  /\ LET k == SubSeq(inbox, HeaderLen - 3, HeaderLen)
         body == SubSeq(inbox, HeaderLen + 1, HeaderLen + PayloadLen)
     IN  received' = Append(received,
           [binary |-> inbox[1] % HighBit = WS_FRAME_OP_BINARY,
            data |-> [i \in 1 .. PayloadLen |-> ByteXor(body[i], k[((i - 1) % 4) + 1])]])
  /\ inbox' = SubSeq(inbox, HeaderLen + PayloadLen + 1, Len(inbox))
  /\ UNCHANGED <<writerVars, inflight, reset, submitted>>

(* A reset loses what the peer has not read.                               *)
PeerResets ==
  /\ ~reset
  /\ reset' = TRUE
  /\ inflight' = <<>>
  /\ UNCHANGED <<writerVars, inbox, submitted, received>>

-------------------------------------------------------------------------------
Init ==
  /\ pc = "idle"
  /\ message = NoMessage
  /\ key = <<>>
  /\ wrote = 0
  /\ inflight = <<>>
  /\ reset = FALSE
  /\ inbox = <<>>
  /\ submitted = <<>>
  /\ received = <<>>

Writer == WriteSome \/ WriteNothing \/ WriteFails
Peer == PeerReads \/ PeerDecodes

Next == ws_send_message \/ Writer \/ Peer \/ PeerResets

Spec == Init /\ [][Next]_vars

(* The writer runs on and the peer goes on reading.                        *)
FairSpec == Spec /\ WF_vars(Writer) /\ WF_vars(PeerReads) /\ WF_vars(PeerDecodes)

-------------------------------------------------------------------------------
(* Properties.                                                             *)

Channel == INSTANCE MessageChannel

(* The peer receives the messages submitted, in order and unchanged,       *)
(* however write(2) splits the four buffers of a frame, and never a        *)
(* message made of parts of two.                                           *)
ImplementsChannel == Channel!Spec

(* Once ws_send_message has returned on a live connection and the peer has *)
(* decoded all it can, no byte is left over: the four buffers of a message *)
(* were one whole frame, and every message that returned has arrived.      *)
NoTrailingBytes ==
  pc = "idle" /\ ~reset /\ inflight = <<>> /\ ~Decodable
    => inbox = <<>> /\ received = submitted

(* A process that ends in the middle of a message, for want of random      *)
(* bytes, of memory or of a short length, leaves on a live connection      *)
(* nothing of it, its first byte or its header, never a byte of payload.   *)
DeathLeavesHeader ==
  pc = "dead" /\ ~reset /\ inflight = <<>> /\ ~Decodable
    => Len(inbox) \in {0, 1, 6}

(* What a message still needs: the buffers that have not been written and  *)
(* their bytes.                                                            *)
BuffersLeft == CASE pc = "opcode" -> 4 [] pc = "length" -> 3 [] pc = "mask" -> 2 [] OTHER -> 1

BytesLeft ==
  Len(message.data) - wrote
    + (CASE pc = "opcode" -> 6 [] pc = "length" -> 5 [] pc = "mask" -> 4 [] OTHER -> 0)

ToWrite == IF pc \in Stage THEN BuffersLeft + BytesLeft ELSE 0

(* Every write(2), whether it takes a byte, takes none or fails, brings    *)
(* the message nearer its end: no result of it is waited for or retried    *)
(* for ever.                                                               *)
WritesAdvance == [][Writer => 0 <= ToWrite' /\ ToWrite' < ToWrite]_vars

(* "assert(pre_payload_len < 125)": a frame that got past the assertion    *)
(* carries its length in the seven bits of its second byte.                *)
AssertedLengthIsInline ==
  pc \in {"length", "mask", "payload"} => Len(message.data) < LenMax

(* Liveness: a message submitted on a connection that is not reset, by a   *)
(* process that does not die, reaches the peer.                            *)
MessagesArrive ==
  Len(received) < Len(submitted)
    ~> (Len(received) = Len(submitted) \/ reset \/ pc = "dead")

(* The payloads the theorems are about: the assertion on the truncated     *)
(* length tells which of them are too long.                                *)
AssertionTells == \A p \in Payload : Len(p) % ByteMod < LenMax => Len(p) < LenMax
===============================================================================
