-------------------------------- MODULE WsClient --------------------------------
(***************************************************************************)
(* A program like main.c: a context is connected, one message is sent once *)
(* ws_connect has returned WS_SUCCESS, and the process exits.  Unlike      *)
(* main.c it may try again, and it may have a second context.              *)
(*                                                                         *)
(* The handshake is WsConnect's, the frames are FrameWriter's, written on  *)
(* the connection established last (conn), with the program's descriptors  *)
(* as a resource: socket(2) returns the least free one or fails, and       *)
(* nothing in the code ever closes one.                                    *)
(***************************************************************************)
EXTENDS WsConnect, FiniteSets

CONSTANTS ByteMod, ByteXor(_, _), Payload, MaskKey, SendBuffer, MaxMessages

ASSUME FiniteAssumption == IsFiniteSet(Ctx)

(* What FrameWriter assumes of the constants it is given.                  *)
ASSUME FrameAssumption ==
  /\ ByteMod \in Nat /\ ByteMod >= 16 /\ ByteMod % 2 = 0
  /\ \A a, b \in 0 .. ByteMod - 1 :
       ByteXor(a, b) \in 0 .. ByteMod - 1 /\ ByteXor(ByteXor(a, b), b) = a
  /\ Payload \subseteq Seq(0 .. ByteMod - 1)
  /\ MaskKey # {} /\ \A k \in MaskKey : k \in Seq(0 .. ByteMod - 1) /\ Len(k) = 4
  /\ SendBuffer \in Nat \ {0} /\ MaxMessages \in Nat

VARIABLES
  fds,     \* the open descriptors
  fd,      \* fd[c]: ctx->tcp_reader.fd
  conn,    \* the context connected last, or "none"
  writer, message, mask, wrote,           \* of the frame writer
  inflight, inbox, submitted, received,   \* the wire and the server's decoder
  exit,    \* what main returned, or "running"
  hangup   \* how the kernel closed the connection at exit

writeVars == <<writer, message, mask, wrote, inflight, inbox, submitted, received>>
fdVars == <<fds, fd, conn>>
clientVars == <<vars, fdVars, writeVars, exit, hangup>>

Reset == conn # "none" /\ peer[conn] = "rst"

F == INSTANCE FrameWriter WITH pc <- writer, key <- mask, reset <- Reset

(* Standard input, output and error, and /dev/urandom for every context.   *)
Inherited == 0 .. 2 + Cardinality(Ctx)

ClientTypeOK ==
  /\ TypeOK
  /\ F!TypeOK
  /\ Inherited \subseteq fds /\ fds \subseteq Nat
  /\ fd \in [Ctx -> fds]
  /\ conn \in Ctx \cup {"none"}
  /\ exit \in {"running", "EXIT_SUCCESS", "EXIT_FAILURE"}
  /\ hangup \in {"none", "fin", "rst"}

Running == exit = "running" /\ writer # "dead"

-------------------------------------------------------------------------------
(* ws_connect, with its descriptor.                                        *)

socket == CHOOSE n \in 0 .. Cardinality(fds) : n \notin fds /\ 0 .. n - 1 \subseteq fds

FreshWire ==
  /\ writer' = "idle"
  /\ message' = F!NoMessage
  /\ mask' = <<>>
  /\ wrote' = 0
  /\ inflight' = <<>>
  /\ inbox' = <<>>
  /\ submitted' = <<>>
  /\ received' = <<>>

\* Mutated form of FailedConnect: the context's descriptor is closed.
FailedConnect_Closes(c) ==
  /\ fds' \in IF c \in IsTls THEN {fds} ELSE {fds, (fds \cup {socket}) \ {fd[c]}}
  /\ UNCHANGED <<fd, conn, writeVars>>

(* TLS is refused before there is a socket; a socket that could not be     *)
(* connected stays open and is forgotten.                                  *)
FailedConnect(c) ==
  /\ fds' \in IF c \in IsTls THEN {fds} ELSE {fds, fds \cup {socket}}
  /\ UNCHANGED <<fd, conn, writeVars>>

Connect(c) ==
  /\ Running
  /\ writer = "idle"
  /\ ws_connect(c)
  /\ \/ pc' = "idle" /\ FailedConnect(c)
     \/ /\ pc' = "upgrade"
        /\ fds' = fds \cup {socket}
        /\ fd' = [fd EXCEPT ![c] = socket]
        /\ conn' = c
        /\ FreshWire
  /\ UNCHANGED <<exit, hangup>>

Handshake == Client /\ UNCHANGED <<fdVars, writeVars, exit, hangup>>

-------------------------------------------------------------------------------
(* The rest of main.                                                       *)

SendMessage ==
  /\ Running
  /\ pc = "idle"
  /\ conn # "none"
  /\ result[conn] = "WS_SUCCESS"
  /\ UNCHANGED <<vars, fdVars, exit, hangup>>
  /\ F!ws_send_message

Write == UNCHANGED <<vars, fdVars, exit, hangup>> /\ F!Writer

(* The kernel closes the connection: with a reset, which may overtake what *)
(* is in flight, when there are bytes on it that nobody has read.          *)
Exit ==
  /\ Running
  /\ pc = "idle"
  /\ writer = "idle"
  /\ \/ submitted # <<>> /\ exit' = "EXIT_SUCCESS"
     \/ /\ \E c \in Ctx : result[c] = "WS_CONNECTION_FAILURE"
        /\ exit' = "EXIT_FAILURE"
  /\ \/ /\ conn # "none" /\ R!Pending(conn) > 0
        /\ hangup' = "rst"
        /\ inflight' \in {inflight, <<>>}
     \/ /\ conn # "none" /\ R!Pending(conn) = 0
        /\ hangup' = "fin"
        /\ UNCHANGED inflight
     \/ conn = "none" /\ UNCHANGED <<hangup, inflight>>
  /\ UNCHANGED <<vars, fdVars, writer, message, mask, wrote, inbox, submitted, received>>

-------------------------------------------------------------------------------
(* The server: it answers, closes or resets, and decodes frames.           *)

Answer == (\E c \in Ctx : Server(c)) /\ UNCHANGED <<fdVars, writeVars, exit, hangup>>

LateClose ==
  /\ conn # "none"
  /\ cur = "none"
  /\ R!PeerClose(conn)
  /\ inflight' = IF peer'[conn] = "rst" THEN <<>> ELSE inflight
  /\ UNCHANGED <<callVars, request, fdVars, exit, hangup>>
  /\ UNCHANGED <<writer, message, mask, wrote, inbox, submitted, received>>

Receive == UNCHANGED <<vars, fdVars, exit, hangup>> /\ F!Peer

ClientInit ==
  /\ Init
  /\ fds = Inherited
  /\ fd = [c \in Ctx |-> 0]
  /\ conn = "none"
  /\ F!Init
  /\ exit = "running"
  /\ hangup = "none"

Main == (\E c \in Ctx : Connect(c)) \/ Handshake \/ SendMessage \/ Write \/ Exit

ClientNext == Main \/ Answer \/ LateClose \/ Receive

ClientSpec == ClientInit /\ [][ClientNext]_clientVars

(* The program runs on until it blocks in the kernel.                      *)
FairClientSpec == ClientSpec /\ WF_clientVars(Main)

-------------------------------------------------------------------------------
(* Properties.                                                             *)

(* A connected context has an open descriptor of its own: however many     *)
(* calls failed before, and whatever they left open, it is neither one the *)
(* program began with nor another context's.                               *)
OwnDescriptor ==
  \A c \in Ctx :
    result[c] = "WS_SUCCESS" =>
      /\ fd[c] \in fds \ Inherited
      /\ \A d \in Ctx \ {c} : fd[c] # fd[d]

(* When main has returned EXIT_SUCCESS and the server has decoded all it   *)
(* can, it has the message: unless the server reset the connection, or had *)
(* sent frames behind its header, which the program never reads and whose  *)
(* loss at exit resets the connection.                                     *)
ExitSuccessDelivers ==
  exit = "EXIT_SUCCESS" /\ inflight = <<>> /\ ~F!Decodable /\ ~Reset =>
    \/ received = submitted
    \/ hangup = "rst" /\ sent[conn] # HeaderOf(sent[conn])

(* A server agrees to a key with a 101 answer whose first                  *)
(* Sec-WebSocket-Accept is the one computed from it.                       *)
Agrees(s, k) ==
  LET header == HeaderOf(s)
      accepts == {i \in 1 .. Len(header) : header[i][1] = "accept"}
  IN  /\ header[1] = <<"status", 101>>
      /\ \E i \in accepts : header[i][2] = k /\ \A j \in accepts : i <= j

Abstract == INSTANCE Session
       WITH Message <- F!Message, Reply <- Seq(Token) \ {<<>>},
            asked <- request, answer <- sent,
            verdict <- [c \in Ctx |-> IF c = cur THEN "none" ELSE result[c]]

(* One request on every connection; a verdict that is the server's answer  *)
(* to it, whether that is success or failure; messages only to a server    *)
(* that agreed, received in order and unchanged, also after an exit that   *)
(* resets the connection; EXIT_SUCCESS only after a message.               *)
ImplementsSession == Abstract!Spec

(* Bytes behind the header that read(2) brought along, the first frames,   *)
(* stay in the array for as long as no other connection is made, whatever  *)
(* calls fail in between.  The connection made before that one has lost    *)
(* them: the array is static, and BufReader_init starts it at 0.           *)
FramesKept ==
  conn # "none" =>
    out[conn] \o Unread(conn) = SubSeq(sent[conn], 1, rcvd[conn])

Gone == exit # "running" \/ pc = "dead" \/ writer = "dead"

(* The program is in a read(2) on a connection with nothing to read, or in *)
(* a write(2) to a server that has stopped reading.                        *)
Waits ==
  \/ /\ pc \in {"status", "headers"}
     /\ R!Matches(mem["static"], len[cur]) = {}
     /\ peer[cur] = "open" /\ R!Pending(cur) = 0
  \/ writer \in F!Stage /\ ~Reset /\ Len(inflight) = SendBuffer

(* The program ends, or its server keeps it waiting for ever.              *)
(* The socket blocks, whatever BufReader_init meant it to do, and there is *)
(* no timeout; but nothing else stops it.                                  *)
EndsOrWaits == <>Gone \/ <>[]Waits

(* A server that answers a request, closes a connection on which it has    *)
(* not sent a whole header, and goes on reading.                           *)
ServerAnswer(c) ==
  ServerAnswers(c) /\ UNCHANGED <<fdVars, writeVars, exit, hangup>>

ServerGivesUp(c) ==
  /\ HeaderEnds(sent[c]) = {}
  /\ sent[c] # <<>>
  /\ ServerCloses(c)
  /\ UNCHANGED <<fdVars, writeVars, exit, hangup>>

ServerIsFair ==
  /\ WF_clientVars(Receive)
  /\ \A c \in Ctx : WF_clientVars(ServerAnswer(c)) /\ WF_clientVars(ServerGivesUp(c))

(* Liveness: with any server the program ends or is kept waiting by it,    *)
(* and with such a server it ends.                                         *)
ProgramEnds == EndsOrWaits /\ (ServerIsFair => <>Gone)
===============================================================================
