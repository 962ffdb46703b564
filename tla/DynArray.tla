------------------------------- MODULE DynArray -------------------------------
(***************************************************************************)
(* The growing array of libs/dyn_array.h, as its one caller uses it.  An   *)
(* array is a record, da_append the set of its results: whether the        *)
(* element was stored, and the array it leaves.                            *)
(***************************************************************************)
EXTENDS Naturals, Sequences

da_new == [items |-> <<>>, capacity |-> 0, alloc |-> 0, overrun |-> FALSE]

Stored(xs, x) ==
  [xs EXCEPT !.items = Append(@, x),
             !.overrun = @ \/ Len(xs.items) >= xs.alloc]

\* Mutated form of da_append: it grows one element too late.
da_append_Late(xs, x) ==
  LET grown == [xs EXCEPT !.capacity = IF @ = 0 THEN 8 ELSE 2 * @]
  IN  IF Len(xs.items) <= xs.capacity THEN {[ok |-> TRUE, xs |-> Stored(xs, x)]}
      ELSE {[ok |-> TRUE, xs |-> Stored([grown EXCEPT !.alloc = grown.capacity], x)],
            [ok |-> FALSE, xs |-> grown]}

(* The new capacity is recorded before realloc is known to have succeeded. *)
da_append(xs, x) ==
  LET grown == [xs EXCEPT !.capacity = IF @ = 0 THEN 8 ELSE 2 * @]
  IN  IF Len(xs.items) < xs.capacity THEN {[ok |-> TRUE, xs |-> Stored(xs, x)]}
      ELSE {[ok |-> TRUE, xs |-> Stored([grown EXCEPT !.alloc = grown.capacity], x)],
            [ok |-> FALSE, xs |-> grown]}
===============================================================================
