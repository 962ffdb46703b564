-------------------------------- MODULE Random --------------------------------
(***************************************************************************)
(* The generator of libs/rng_xoroshiro.c, seeded by libs/rng_splitmix64.c. *)
(***************************************************************************)
EXTENDS Words

(* 0x9E3779B97F4A7C15, 0xBF58476D1CE4E5B9 and 0x94D049BB133111EB.          *)
Gamma == Word(<<21, 124, 74, 127, 185, 121, 55, 158>>)
Mix1 == Word(<<185, 229, 228, 28, 109, 71, 88, 191>>)
Mix2 == Word(<<235, 17, 49, 19, 187, 73, 208, 148>>)

\* Mutated form of splitmix64_value: the first two shifts are exchanged.
splitmix64_value_Exchanged(seed) ==
  LET y == Times(Xor(seed, ShiftRight(seed, 27)), Mix1)
      z == Times(Xor(y, ShiftRight(y, 30)), Mix2)
  IN  Xor(z, ShiftRight(z, 31))

(* What splitmix64_next returns for a seed it has advanced.                *)
splitmix64_value(seed) ==
  LET y == Times(Xor(seed, ShiftRight(seed, 30)), Mix1)
      z == Times(Xor(y, ShiftRight(y, 27)), Mix2)
  IN  Xor(z, ShiftRight(z, 31))

(* rnd: the values of the next two seeds.                                  *)
xoroshiro128_init(seed) ==
  LET next == Plus(<<seed, Gamma>>)
  IN  <<splitmix64_value(next), splitmix64_value(Plus(<<next, Gamma>>))>>

(* What xoroshiro128_next returns, and what it leaves in the context.      *)
Drawn(rnd) == Plus(rnd)

Advanced(rnd) ==
  LET s1 == Xor(rnd[1], rnd[2])
  IN  <<Xor(Xor(ROTL(rnd[1], 55), s1), ShiftLeft(s1, 14)), ROTL(s1, 36)>>
===============================================================================
