----------------------------- MODULE MessageChannel -----------------------------
(***************************************************************************)
(* What sending promises: the messages the peer receives are messages that *)
(* were submitted, in the order of submission, each once and unchanged.    *)
(* FrameWriter is shown to implement this specification.                   *)
(***************************************************************************)
EXTENDS Naturals, Sequences

CONSTANT Message

VARIABLES submitted, received

vars == <<submitted, received>>

Init == submitted = <<>> /\ received = <<>>

Submit ==
  /\ \E m \in Message : submitted' = Append(submitted, m)
  /\ UNCHANGED received

Receive ==
  /\ Len(received) < Len(submitted)
  /\ received' = Append(received, submitted[Len(received) + 1])
  /\ UNCHANGED submitted

Next == Submit \/ Receive

Spec == Init /\ [][Next]_vars
===============================================================================
