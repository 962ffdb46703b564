-------------------------------- MODULE Session --------------------------------
(***************************************************************************)
(* What a program that uses the library promises: one request on every     *)
(* connection; a verdict on a connection that is the server's answer to    *)
(* that request and to no other; messages only to a server that agreed,    *)
(* which receives them as a MessageChannel delivers them; success only for *)
(* a program that sent something.  WsClient is shown to implement this     *)
(* specification.                                                          *)
(***************************************************************************)
EXTENDS Naturals, Sequences

CONSTANTS
  Ctx, Key, Message,
  Reply,        \* what a server may answer
  Agrees(_, _)  \* Agrees(r, k): the reply r confirms the key k

VARIABLES
  conn,      \* the context of the connection made last, or "none"
  asked,     \* asked[c]: the keys its server was sent on its last connection
  answer,    \* answer[c]: what its server answered there, once it did
  verdict,   \* verdict[c]: what the last call for c came to, once it has returned
  submitted, received,
  exit

handshakeVars == <<conn, asked, answer, verdict>>
vars == <<handshakeVars, submitted, received, exit>>

Channel == INSTANCE MessageChannel

Init ==
  /\ conn = "none"
  /\ asked = [c \in Ctx |-> <<>>]
  /\ answer = [c \in Ctx |-> <<>>]
  /\ verdict = [c \in Ctx |-> "none"]
  /\ Channel!Init
  /\ exit = "running"

(* A call is in progress on the connection made last.                      *)
Pending == conn # "none" /\ verdict[conn] = "none"

(* A connection starts from nothing, whatever the last ones left.          *)
Open(c) ==
  /\ exit = "running" /\ ~Pending
  /\ conn' = c
  /\ asked' = [asked EXCEPT ![c] = <<>>]
  /\ answer' = [answer EXCEPT ![c] = <<>>]
  /\ verdict' = [verdict EXCEPT ![c] = "none"]
  /\ submitted' = <<>>
  /\ received' = <<>>
  /\ UNCHANGED exit

(* Or there is none.                                                       *)
Fail(c) ==
  /\ exit = "running" /\ ~Pending
  /\ verdict' = [verdict EXCEPT ![c] = "WS_CONNECTION_FAILURE"]
  /\ UNCHANGED <<conn, asked, answer, submitted, received, exit>>

Ask ==
  /\ exit = "running" /\ Pending
  /\ asked[conn] = <<>>
  /\ \E k \in Key : asked' = [asked EXCEPT ![conn] = <<k>>]
  /\ UNCHANGED <<conn, answer, verdict, submitted, received, exit>>

Answer ==
  /\ exit = "running" /\ Pending
  /\ asked[conn] # <<>>
  /\ answer[conn] = <<>>
  /\ answer'[conn] \in Reply
  /\ answer' = [answer EXCEPT ![conn] = answer'[conn]]
  /\ UNCHANGED <<conn, asked, verdict, submitted, received, exit>>

(* The verdict is the answer's.                                            *)
Return ==
  /\ exit = "running" /\ Pending
  /\ answer[conn] # <<>>
  /\ verdict' = [verdict EXCEPT ![conn] =
                   IF Agrees(answer[conn], asked[conn][1])
                     THEN "WS_SUCCESS" ELSE "WS_CONNECTION_FAILURE"]
  /\ UNCHANGED <<conn, asked, answer, submitted, received, exit>>

Submit ==
  /\ exit = "running"
  /\ conn # "none" /\ verdict[conn] = "WS_SUCCESS"
  /\ Channel!Submit
  /\ UNCHANGED <<handshakeVars, exit>>

Receive ==
  /\ ~Pending
  /\ Channel!Receive
  /\ UNCHANGED <<handshakeVars, exit>>

Finish ==
  /\ exit = "running" /\ ~Pending
  /\ \/ submitted # <<>> /\ exit' = "EXIT_SUCCESS"
     \/ /\ \E c \in Ctx : verdict[c] = "WS_CONNECTION_FAILURE"
        /\ exit' = "EXIT_FAILURE"
  /\ UNCHANGED <<handshakeVars, submitted, received>>

Next ==
  \/ \E c \in Ctx : Open(c) \/ Fail(c)
  \/ Ask \/ Answer \/ Return
  \/ Submit \/ Receive \/ Finish

Spec == Init /\ [][Next]_vars
===============================================================================
