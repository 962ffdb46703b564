------------------------------ MODULE ByteStream ------------------------------
(***************************************************************************)
(* What a buffered reader promises its caller, with the buffer left out:   *)
(* the bytes handed out on a connection are the bytes the peer sent on     *)
(* that connection, in order, each once.  BufReader is shown to implement  *)
(* this specification.                                                     *)
(***************************************************************************)
EXTENDS Naturals, Sequences

CONSTANTS Reader, Byte

VARIABLES
  sent,  \* sent[r]: the bytes the peer of r sent on the current connection
  out    \* out[r]: the bytes handed to the caller of r on that connection

vars == <<sent, out>>

Init ==
  /\ sent = [r \in Reader |-> <<>>]
  /\ out = [r \in Reader |-> <<>>]

(* The peer sends one more byte. *)
Send(r) ==
  /\ \E b \in Byte : sent' = [sent EXCEPT ![r] = Append(@, b)]
  /\ UNCHANGED out

(* The caller is handed the next n bytes of the stream. *)
Deliver(r) ==
  /\ \E n \in 1 .. (Len(sent[r]) - Len(out[r])) :
       out' = [out EXCEPT ![r] = SubSeq(sent[r], 1, Len(@) + n)]
  /\ UNCHANGED sent

(* The reader is attached to a fresh connection. *)
Restart(r) ==
  /\ sent' = [sent EXCEPT ![r] = <<>>]
  /\ out' = [out EXCEPT ![r] = <<>>]

Next == \E r \in Reader : Send(r) \/ Deliver(r) \/ Restart(r)

Spec == Init /\ [][Next]_vars
===============================================================================
