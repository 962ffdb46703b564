------------------------------ MODULE MCBufReader ------------------------------
(* A small instance of BufReader: one delimiter of two bytes and one other *)
(* byte, so that the delimiter may be cut between its bytes, preceded by a  *)
(* stray half of itself, or repeated.                                      *)
EXTENDS BufReader

CR == "CR"
LF == "LF"
MCUntil == <<CR, LF>>
MCByte == {CR, LF, "x"}

\* Each reader has an array of its own.
MCBufferOf == [r \in Reader |-> CHOOSE b \in Buffer : b = r]
===============================================================================
