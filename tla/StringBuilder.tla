----------------------------- MODULE StringBuilder -----------------------------
(***************************************************************************)
(* BetterString_Builder of libs/bs.h: a string that grows by realloc(3).   *)
(*                                                                         *)
(* A builder is a record, and an operation the set of its possible         *)
(* results: whether the call succeeded, and the builder it leaves.  Every  *)
(* realloc may fail.  The bytes of the string are abstracted to the pieces *)
(* appended to it and to the pieces whose last byte is the NUL that        *)
(* vsnprintf(3) stores instead of it.  alloc is the size of the block data *)
(* points to: what capacity claims to be.                                  *)
(***************************************************************************)
EXTENDS Integers, Sequences

Ok(b) == [ok |-> TRUE, b |-> b]
OutOfMemory(b) == [ok |-> FALSE, b |-> b]

(* What a result adds to a count of failed allocations.                    *)
Failed(r) == IF r.ok THEN 0 ELSE 1

MIN(a, b) == IF a < b THEN a ELSE b

(* 1 << bits.                                                              *)
PowerOfTwo[bits \in Nat] == IF bits = 0 THEN 1 ELSE 2 * PowerOfTwo[bits - 1]

\* Mutated form of log2i: a leading one is not counted.
log2i_Floor(number) ==
  CHOOSE bits \in 0 .. number : /\ number < PowerOfTwo[bits + 1]
                               /\ \A b \in 1 .. bits : PowerOfTwo[b] <= number

(* The number of bits of a number: the power of two of log2i(n) is the     *)
(* least above n.                                                          *)
log2i(number) ==
  CHOOSE bits \in 0 .. number : /\ number < PowerOfTwo[bits]
                               /\ \A b \in 0 .. bits - 1 : PowerOfTwo[b] <= number

-------------------------------------------------------------------------------
bs_builder_new ==
  [len |-> 0, capacity |-> 0, alloc |-> 0,
   pieces |-> <<>>, cut |-> {}, overrun |-> FALSE]

bs_builder_new_alloc(n) ==
  {Ok([bs_builder_new EXCEPT !.capacity = n, !.alloc = n]),
   OutOfMemory(bs_builder_new)}

(* The block is freed; that something was stored behind it stays true.     *)
bs_builder_destory(b) == [bs_builder_new EXCEPT !.overrun = b.overrun]

\* Mutated form: what is taken already is forgotten.
bs_builder_has_enough_capacity_All(b, required) == b.capacity > required

bs_builder_has_enough_capacity(b, required) == b.capacity - b.len > required

(* The new capacity is recorded before realloc is known to have succeeded. *)
bs_builder_reserve_exact(b, n) ==
  {Ok([b EXCEPT !.capacity = n, !.alloc = n]), OutOfMemory([b EXCEPT !.capacity = n])}

bs_builder_reserve(b, n) == bs_builder_reserve_exact(b, PowerOfTwo[log2i(n)])

(* A piece of n bytes, of which a copy stores the given number.            *)
AppendPiece(b, piece, n, stored) ==
  [b EXCEPT !.len = @ + n,
            !.pieces = Append(@, piece),
            !.overrun = @ \/ (stored > 0 /\ b.len + stored > b.alloc)]

bs_builder_append_sv(b, piece, n) ==
  {IF r.ok THEN Ok(AppendPiece(r.b, piece, n, n)) ELSE r :
     r \in IF bs_builder_has_enough_capacity(b, n) THEN {Ok(b)}
           ELSE bs_builder_reserve(b, b.capacity + n)}

(* vsnprintf stores as much as fits in the rest of the capacity, and a NUL *)
(* behind it: a text that just fills the rest loses its last byte.         *)
Formatted(b, piece, n) ==
  LET rest == b.capacity - b.len
  IN  [AppendPiece(b, piece, n, MIN(n + 1, rest))
         EXCEPT !.cut = IF 0 < n /\ rest <= n THEN @ \cup {piece} ELSE @]

bs_builder_vsprintf(b, piece, n) ==
  {IF r.ok THEN Ok(Formatted(r.b, piece, n)) ELSE r :
     r \in IF b.capacity >= b.len + n THEN {Ok(b)}
           ELSE bs_builder_reserve(b, b.len + n)}
===============================================================================
