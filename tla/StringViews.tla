------------------------------ MODULE StringViews ------------------------------
(***************************************************************************)
(* The functions of libs/bs.h on string views.  A view is the sequence of  *)
(* its tokens, a token being a character the functions look for or a run   *)
(* of characters none of them stops at.  Offsets are zero-based, as in the *)
(* code; a split returns the part before the delimiter and what is left of *)
(* the view it was applied to.                                             *)
(***************************************************************************)
EXTENDS Integers, Sequences

CONSTANT Space  \* the tokens isspace(3) holds for

(* The loop stops at the first character even if that is white space.      *)
bs_trim_right(str) ==
  IF str = <<>> THEN str
  ELSE LET idx == CHOOSE i \in 1 .. Len(str) :
                    /\ i = 1 \/ str[i] \notin Space
                    /\ \A j \in i + 1 .. Len(str) : str[j] \in Space
       IN  SubSeq(str, 1, idx)

bs_trim_left(str) ==
  LET idx == CHOOSE i \in 0 .. Len(str) :
               /\ \A j \in 1 .. i : str[j] \in Space
               /\ i = Len(str) \/ str[i + 1] \notin Space
  IN  SubSeq(str, idx + 1, Len(str))

\* Mutated form of bs_trim: the white space at the end stays.
bs_trim_LeftOnly(str) == IF str = <<>> THEN str ELSE bs_trim_left(str)

bs_trim(str) == IF str = <<>> THEN str ELSE bs_trim_left(bs_trim_right(str))

Occurs(str, needle, i) == SubSeq(str, i + 1, i + Len(needle)) = needle

bs_find(haysack, needle) ==
  LET found == {i \in 0 .. Len(haysack) - Len(needle) : Occurs(haysack, needle, i)}
  IN  IF found = {} THEN -1 ELSE CHOOSE i \in found : \A j \in found : i <= j

bs_char_at(haysack, needle) ==
  LET found == {i \in 0 .. Len(haysack) - 1 : haysack[i + 1] = needle}
  IN  IF found = {} THEN -1 ELSE CHOOSE i \in found : \A j \in found : i <= j

(* A view whose pointer may be NULL.                                       *)
NullView == [null |-> TRUE, text |-> <<>>]
View(text) == [null |-> FALSE, text |-> text]

\* Mutated form of Split: the delimiter stays in front of the rest.
Split_Keeps(str, idx, n) ==
  IF idx = -1 THEN [chopped |-> NullView, rest |-> str]
  ELSE [chopped |-> View(SubSeq(str, 1, idx)), rest |-> SubSeq(str, idx + 1, Len(str))]

Split(str, idx, n) ==
  IF idx = -1 THEN [chopped |-> NullView, rest |-> str]
  ELSE [chopped |-> View(SubSeq(str, 1, idx)),
        rest |-> SubSeq(str, idx + n + 1, Len(str))]

bs_split_once_by_bs(str, delim) == Split(str, bs_find(str, delim), Len(delim))

bs_split_once_by_delim(str, delim) == Split(str, bs_char_at(str, delim), 1)
===============================================================================
