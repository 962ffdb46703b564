-------------------------------- MODULE MCCodec --------------------------------
(* Published results for a small instance of Codec.                         *)
EXTENDS Codec

\* FIPS 180: "abc", and the messages of 56 and of 112 letters in which every
\* window of four, or of eight, letters begins with the next letter.
Windows(n, size) == [i \in 1 .. n * size |-> 97 + ((i - 1) \div size) + ((i - 1) % size)]

MCDigests ==
  <<97, 98, 99>> :>
    << 169, 153, 62, 54, 71, 6, 129, 106, 186, 62, 37, 113, 120, 80, 194,
       108, 156, 208, 216, 157 >>
  @@ Windows(14, 4) :>
    << 132, 152, 62, 68, 28, 59, 210, 110, 186, 174, 74, 161, 249, 81,
       41, 229, 229, 70, 112, 241 >>
  @@ Windows(14, 8) :>
    << 164, 155, 36, 70, 160, 44, 100, 91, 244, 25, 249, 149, 182, 112,
       145, 37, 58, 4, 162, 89 >>

\* The example of RFC 6455, 1.3: "dGhlIHNhbXBsZSBub25jZQ==" is answered with
\* "s3pPLMBiTxaQ9kYGzzhZRbK+xOo=".
MCAccepts ==
  << 100, 71, 104, 108, 73, 72, 78, 104, 98, 88, 66, 115, 90, 83, 66,
     117, 98, 50, 53, 106, 90, 81, 61, 61 >> :>
    << 115, 51, 112, 80, 76, 77, 66, 105, 84, 120, 97, 81, 57, 107, 89,
       71, 122, 122, 104, 90, 82, 98, 75, 43, 120, 79, 111, 61 >>

\* splitmix64 seeded with 1234567: 6457827717110365317, 3203168211198807973.
MCSeeds ==
  1234567 :> << << 133, 252, 8, 251, 23, 208, 158, 89 >>,
                << 165, 15, 84, 88, 132, 240, 115, 44 >> >>
===============================================================================
