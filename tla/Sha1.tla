--------------------------------- MODULE Sha1 ---------------------------------
(***************************************************************************)
(* sha1_digest of libs/sha1.h: how a message of any length is cut into the *)
(* blocks of 64 bytes that are hashed, where a byte is named by where it   *)
(* comes from, and one round of hashing a block.                           *)
(***************************************************************************)
EXTENDS Words

Message(i) == <<"message", i>>     \* msg[i]
BitLength(k) == <<"bit_len", k>>   \* byte k of the length in bits, big-endian
One == <<"0x80", 0>>
Zero == <<"0x00", 0>>

AlignedLength(msgLen) == msgLen - (msgLen % 64)

\* Mutated form: eight bytes are thought to be enough behind the message.
sha1_require_another_block_Eight(blockLength) == 64 - (blockLength % 64) < 8

sha1_require_another_block(blockLength) == 64 - (blockLength % 64) < 9

NBlocks(msgLen) ==
  1 + (IF sha1_require_another_block(msgLen - AlignedLength(msgLen)) THEN 1 ELSE 0)

(* Byte j of W when the message has left rest bytes for n blocks: the      *)
(* length is written last, over what is there.                             *)
TailByte(msgLen, j) ==
  LET rest == msgLen - AlignedLength(msgLen)
      lengthAt == IF NBlocks(msgLen) = 1 THEN 56 ELSE 120
  IN  IF j \in lengthAt .. lengthAt + 7 THEN BitLength(j - lengthAt)
      ELSE IF j < rest THEN Message(AlignedLength(msgLen) + j)
      ELSE IF j = rest THEN One
      ELSE Zero

(* The bytes of all blocks passed to sha1_process_block, in order.         *)
Hashed(msgLen) ==
  [i \in 0 .. AlignedLength(msgLen) + 64 * NBlocks(msgLen) - 1 |->
     IF i < AlignedLength(msgLen) THEN Message(i)
     ELSE TailByte(msgLen, i - AlignedLength(msgLen))]

-------------------------------------------------------------------------------
(* Hashing.                                                                *)

WordBE(bytes) == Word(Reverse(bytes))

H0 == << WordBE(<<103, 69, 35, 1>>), WordBE(<<239, 205, 171, 137>>),
         WordBE(<<152, 186, 220, 254>>), WordBE(<<16, 50, 84, 118>>),
         WordBE(<<195, 210, 225, 240>>) >>

HashedByte(msg, i) ==
  LET source == Hashed(Len(msg))[i]
  IN  IF source = One THEN 128
      ELSE IF source = Zero THEN 0
      ELSE IF source[1] = "message" THEN msg[source[2] + 1]
      ELSE Bytes(Word64(8 * Len(msg)))[8 - source[2]]

(* The word that follows those in W, when they are at least sixteen.       *)
W_t(W) ==
  LET t == Len(W) + 1
  IN  ROTL(Xor(Xor(W[t - 3], W[t - 8]), Xor(W[t - 14], W[t - 16])), 1)

F_t(t, B, C, D) ==
  IF t <= 19 THEN Or(And(B, C), And(Not(B), D))
  ELSE IF t \in 40 .. 59 THEN Or(Or(And(B, C), And(B, D)), And(C, D))
  ELSE Xor(Xor(B, C), D)

K_t(t) ==
  IF t <= 19 THEN WordBE(<<90, 130, 121, 153>>)
  ELSE IF t <= 39 THEN WordBE(<<110, 217, 235, 161>>)
  ELSE IF t <= 59 THEN WordBE(<<143, 27, 188, 220>>)
  ELSE WordBE(<<202, 98, 193, 214>>)

(* A, B, C, D, E after round t.                                            *)
Round(t, r, word) ==
  << Plus(<<ROTL(r[1], 5), F_t(t, r[2], r[3], r[4]), r[5], word, K_t(t)>>),
     r[1], ROTL(r[2], 30), r[3], r[4] >>

to_le32(value) == Word(Reverse(Bytes(value)))

\* Mutated form of sha1_to_le: the words are left as they are.
sha1_to_le_Native(words) == words

sha1_to_le(words) == [i \in DOMAIN words |-> to_le32(words[i])]

-------------------------------------------------------------------------------
(* The padding of FIPS 180: a one bit, zeros and the length, up to the     *)
(* least multiple of 64 bytes that holds them.                             *)
PaddedLength(msgLen) == 64 * (((msgLen + 8) \div 64) + 1)

Padded(msgLen) ==
  [i \in 0 .. PaddedLength(msgLen) - 1 |->
     IF i < msgLen THEN Message(i)
     ELSE IF i = msgLen THEN One
     ELSE IF i < PaddedLength(msgLen) - 8 THEN Zero
     ELSE BitLength(i - (PaddedLength(msgLen) - 8))]
===============================================================================
