--------------------------------- MODULE Words ---------------------------------
(***************************************************************************)
(* The unsigned machine words of the source, uint32_t and uint64_t, as     *)
(* sequences of bits, the least significant first: the sum and the product *)
(* lose what does not fit, as C defines, and a word in memory is its bytes *)
(* with the least significant first, as on the machines the program is     *)
(* built for (base64.h includes immintrin.h).                              *)
(***************************************************************************)
EXTENDS Integers, SequencesExt

(* The word that lies in memory as these bytes, and the bytes of a word.   *)
Word(bytes) ==
  [i \in 1 .. 8 * Len(bytes) |-> (bytes[((i - 1) \div 8) + 1] \div 2 ^ ((i - 1) % 8)) % 2]

Bytes(a) ==
  [k \in 1 .. Len(a) \div 8 |->
     LET bit(i) == a[8 * (k - 1) + i]
     IN  bit(1) + 2 * bit(2) + 4 * bit(3) + 8 * bit(4)
           + 16 * bit(5) + 32 * bit(6) + 64 * bit(7) + 128 * bit(8)]

(* A natural number below 2^31, as uint64_t.                               *)
Word64(n) == Word([k \in 1 .. 8 |-> IF k > 4 THEN 0 ELSE (n \div 256 ^ (k - 1)) % 256])

Not(a) == [i \in DOMAIN a |-> 1 - a[i]]
And(a, b) == [i \in DOMAIN a |-> a[i] * b[i]]
Or(a, b) == [i \in DOMAIN a |-> IF a[i] + b[i] = 0 THEN 0 ELSE 1]
Xor(a, b) == [i \in DOMAIN a |-> (a[i] + b[i]) % 2]

ShiftLeft(a, n) == [i \in DOMAIN a |-> IF i > n THEN a[i - n] ELSE 0]
ShiftRight(a, n) == [i \in DOMAIN a |-> IF i + n <= Len(a) THEN a[i + n] ELSE 0]
ROTL(a, n) == [i \in DOMAIN a |-> a[((i - 1 - n) % Len(a)) + 1]]

(* The word whose bytes are these numbers, what does not fit carried over. *)
Carried(column) ==
  LET carry[k \in 0 .. Len(column)] ==
        IF k = 0 THEN 0 ELSE (column[k] + carry[k - 1]) \div 256
  IN  Word([k \in DOMAIN column |-> (column[k] + carry[k - 1]) % 256])

Plus(words) ==
  LET x == [i \in DOMAIN words |-> Bytes(words[i])]
  IN  Carried([k \in DOMAIN x[1] |-> MapThenSumSet(LAMBDA i : x[i][k], DOMAIN x)])

Times(a, b) ==
  LET x == Bytes(a)
      y == Bytes(b)
  IN  Carried([k \in DOMAIN x |-> MapThenSumSet(LAMBDA i : x[i] * y[k + 1 - i], 1 .. k)])
===============================================================================
