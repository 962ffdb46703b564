-------------------------------- MODULE Base64 --------------------------------
(***************************************************************************)
(* base64_encode and base64_decode of libs/base64.c, as functions from the *)
(* bytes and the size of the output buffer to a status, the bytes returned *)
(* and the highest index that was stored to (-1: not tracked).  An         *)
(* assertion that fails is the status "ABORT".                             *)
(*                                                                         *)
(* Characters are their ASCII codes.  Shifts and masks are the divisions   *)
(* and remainders they stand for; where the code joins two fields with |,  *)
(* the fields have no bit in common and are added.                         *)
(***************************************************************************)
EXTENDS Integers, Sequences

Byte == 0 .. 255

SUCCESS == "BASE64_STATUS_SUCCESS"
TOO_SMALL == "BASE64_STATUS_ERROR_DESTINATION_BUFFER_TOO_SMALL"
ABORT == "ABORT"
Failure(status) == [status |-> status, out |-> <<>>, top |-> -1]
Success(out, top) == [status |-> SUCCESS, out |-> out, top |-> top]

EncodeRequired(len) == ((len + 2) \div 3) * 4
DecodeRequired(len) == (len \div 4) * 3

Pad == 61

-------------------------------------------------------------------------------
(* The alphabet.                                                           *)

_base64_value_for_data(v) ==
  IF v < 26 THEN v + 65
  ELSE IF v < 52 THEN v - 26 + 97
  ELSE IF v < 62 THEN v - 52 + 48
  ELSE IF v = 62 THEN 43 ELSE 47

\* Mutated form of Value: the small letters are not put behind the capitals.
Value_SmallFirst(c) ==
  IF c \in 65 .. 90 THEN c - 65
  ELSE IF c \in 97 .. 122 THEN c - 97
  ELSE IF c \in 48 .. 57 THEN c - 48 + 52
  ELSE IF c = 43 THEN 62 ELSE 63

Value(c) ==
  IF c \in 65 .. 90 THEN c - 65
  ELSE IF c \in 97 .. 122 THEN c - 97 + 26
  ELSE IF c \in 48 .. 57 THEN c - 48 + 52
  ELSE IF c = 43 THEN 62 ELSE 63

(* The conversion is done in place and stops at a '=': what stands there   *)
(* and behind it is left as it is.                                         *)
_base64_to_data(chars) ==
  [i \in DOMAIN chars |->
     IF \E j \in 1 .. i : chars[j] = Pad THEN chars[i] ELSE Value(chars[i])]

-------------------------------------------------------------------------------
(* Encoding.                                                               *)

\* Mutated form of Quad: the third value loses the bits of the last byte.
Quad_Lost(b0, b1, b2) ==
  << b0 \div 4, (b0 % 4) * 16 + (b1 \div 16), (b1 % 16) * 4, b2 % 64 >>

(* Three bytes as four values of six bits.                                 *)
Quad(b0, b1, b2) ==
  << b0 \div 4, (b0 % 4) * 16 + (b1 \div 16), (b1 % 16) * 4 + (b2 \div 64), b2 % 64 >>

(* The values of the remaining one or two bytes.                           *)
EncodeTail(rest) ==
  CASE Len(rest) = 0 -> <<>>
    [] Len(rest) = 1 -> << rest[1] \div 4, (rest[1] % 4) * 16 >>
    [] Len(rest) = 2 -> << rest[1] \div 4, (rest[1] % 4) * 16 + (rest[2] \div 16),
                           (rest[2] % 16) * 4 >>

\* Mutated form of PaddingLen: the loop is thought to run idx % 4 times.
PaddingLen_Straight(idx) == idx % 4

(* The padding loop advances idx and compares its counter with the new     *)
(* idx % 4 every time.                                                     *)
PaddingLen(idx) ==
  CHOOSE n \in 0 .. 3 : n >= (idx + n) % 4 /\ \A m \in 0 .. n - 1 : m < (idx + m) % 4

base64_encode(buffer, outputLen, padding) ==
  LET triples == Len(buffer) \div 3
      Triple(t) == Quad(buffer[3 * t + 1], buffer[3 * t + 2], buffer[3 * t + 3])
      values == [i \in 1 .. 4 * triples |-> Triple((i - 1) \div 4)[((i - 1) % 4) + 1]]
                  \o EncodeTail(SubSeq(buffer, 3 * triples + 1, Len(buffer)))
      chars == [i \in DOMAIN values |-> _base64_value_for_data(values[i])]
      pads == IF padding THEN PaddingLen(Len(chars)) ELSE 0
  IN  IF outputLen < EncodeRequired(Len(buffer)) THEN Failure(TOO_SMALL)
      ELSE IF Len(chars) >= outputLen \/ Len(chars) + pads > outputLen
        THEN Failure(ABORT)
      ELSE Success(chars \o [i \in 1 .. pads |-> Pad], Len(chars) + pads - 1)

-------------------------------------------------------------------------------
(* Decoding, of text without bytes outside the alphabet and '='.           *)

(* Four values as three bytes; the values may be a '=' left in place.      *)
Tri(v) ==
  << ((v[1] * 4) % 256) + (v[2] \div 16),
     ((v[2] * 16) % 256) + ((v[3] \div 4) % 16),
     ((v[3] * 64) % 256) + v[4] >>

(* The remaining two or three characters: as many bytes as characters, and *)
(* of three the second byte takes two bits of the third where it has four. *)
(* The byte behind the one after the text is set to 0.                     *)
DecodeTail(v) ==
  CASE Len(v) = 0 -> <<>>
    [] Len(v) = 2 -> << ((v[1] * 4) % 256) + (v[2] \div 16), (v[2] * 16) % 256 >>
    [] Len(v) = 3 -> << ((v[1] * 4) % 256) + (v[2] \div 16),
                        ((v[2] * 16) % 256) + ((v[3] \div 4) % 4), (v[3] * 64) % 256 >>

base64_decode(buffer, outputLen) ==
  LET quads == Len(buffer) \div 4
      Quadruple(q) == Tri(_base64_to_data(SubSeq(buffer, 4 * q + 1, 4 * q + 4)))
      rest == SubSeq(buffer, 4 * quads + 1, Len(buffer))
      head == [i \in 1 .. 3 * quads |-> Quadruple((i - 1) \div 3)[((i - 1) % 3) + 1]]
  IN  IF outputLen < DecodeRequired(Len(buffer)) THEN Failure(TOO_SMALL)
      ELSE IF Len(rest) = 1 \/ 3 * quads >= outputLen THEN Failure(ABORT)
      ELSE LET bytes == head \o DecodeTail(_base64_to_data(rest))
           IN  IF Len(bytes) >= outputLen THEN Failure(ABORT)
               ELSE Success(bytes, Len(bytes) + 1)
===============================================================================
