---------------------------- MODULE WsClient_proofs ----------------------------
(***************************************************************************)
(* What is proved of the program for any number of contexts, calls and     *)
(* answers: a connected context has a descriptor of its own, what is       *)
(* proved of ws_connect holds in it, and a program that succeeds has       *)
(* delivered its message.                                                  *)
(***************************************************************************)
EXTENDS WsClient, WsConnect_proofs, FiniteSetTheorems, WellFoundedInduction, TLAPS

(* An exit that resets the connection breaks it as a reset by the server   *)
(* does.                                                                   *)
Broken == Reset \/ hangup = "rst"

FP == INSTANCE FrameWriter_proofs WITH pc <- writer, key <- mask, reset <- Broken

-------------------------------------------------------------------------------
(* The least free descriptor.                                              *)

LessThan == OpToRel(<, Nat)

(* A finite set of numbers leaves one free, of which those below are taken. *)
LEMMA LeastFree ==
  ASSUME NEW S, S \subseteq Nat, IsFiniteSet(S)
  PROVE  \E n \in 0 .. Cardinality(S) : n \notin S /\ 0 .. n - 1 \subseteq S
<1> DEFINE k == Cardinality(S)
           T == (0 .. k) \ S
<1>1. k \in Nat
  BY FS_CardinalityType
<1>2. T # {}
  <2> SUFFICES ASSUME T = {} PROVE FALSE
    OBVIOUS
  <2>1. 0 .. k \in SUBSET S
    OBVIOUS
  <2>2. Cardinality(0 .. k) <= k
    BY <2>1, FS_Subset
  <2>3. Cardinality(0 .. k) = k + 1
    BY <1>1, FS_Interval
  <2> HIDE DEF k
  <2> QED
    BY <1>1, <2>2, <2>3
<1>3. PICK n \in T : \A m \in T : ~(<<m, n>> \in LessThan)
  <2>1. IsWellFoundedOn(LessThan, Nat)
    BY NatLessThanWellFounded DEF LessThan
  <2>2. T \subseteq Nat
    BY <1>1
  <2> QED
    BY <1>2, <2>1, <2>2, WFMin
<1>4. \A m \in T : n <= m
  <2>1. \A m \in Nat : m < n => <<m, n>> \in LessThan
    BY <1>1 DEF LessThan, OpToRel
  <2>2. T \subseteq Nat
    BY <1>1
  <2> HIDE DEF T
  <2>3. \A m \in T : ~(m < n)
    BY <1>3, <2>1, <2>2, Zenon
  <2> QED
    BY <1>3, <2>2, <2>3
<1>5. 0 .. n - 1 \subseteq S
  BY <1>1, <1>4
<1> QED
  BY <1>3, <1>5

LEMMA SocketIsFree ==
  ASSUME fds \subseteq Nat, IsFiniteSet(fds)
  PROVE  socket \in Nat \ fds
<1>1. \E n \in 0 .. Cardinality(fds) : n \notin fds /\ 0 .. n - 1 \subseteq fds
  BY LeastFree
<1>2. socket \in 0 .. Cardinality(fds) /\ socket \notin fds
  BY <1>1 DEF socket
<1> QED
  BY <1>2, FS_CardinalityType

-------------------------------------------------------------------------------
(* The descriptors.                                                        *)

DescriptorsOpen ==
  /\ IsFiniteSet(fds)
  /\ fds \subseteq Nat
  /\ Inherited \subseteq fds

(* A context has no descriptor yet (0), or one of its own.                 *)
DescriptorsOwned ==
  /\ fd \in [Ctx -> Nat]
  /\ \A c \in Ctx : fd[c] # 0 => /\ fd[c] \in fds \ Inherited
                                 /\ \A d \in Ctx \ {c} : fd[c] # fd[d]

(* Who reads a response, and who has read one, has a descriptor.           *)
CallersConnected ==
  /\ result \in [Ctx -> Outcome]
  /\ \A c \in Ctx : result[c] = "WS_SUCCESS" => fd[c] # 0
  /\ pc \notin {"idle", "dead"} => cur \in Ctx /\ fd[cur] # 0

DInv == DescriptorsOpen /\ DescriptorsOwned /\ CallersConnected

LEMMA InheritedFinite ==
  IsFiniteSet(Inherited) /\ Inherited \subseteq Nat /\ 0 \in Inherited
<1>1. Cardinality(Ctx) \in Nat
  BY FiniteAssumption, FS_CardinalityType
<1> QED
  BY <1>1, FS_Interval, SMTT(40) DEF Inherited

LEMMA DInvInit == ClientInit => DInv
BY InheritedFinite
   DEF ClientInit, Init, DInv, DescriptorsOpen, DescriptorsOwned, CallersConnected, Outcome

(* A connection that failed may leave a descriptor open, nobody's.         *)
LEMMA FailedConnectStep ==
  ASSUME DInv, NEW c \in Ctx, Connect(c), pc' = "idle"
  PROVE  DInv'
<1>1. ws_connect(c) /\ FailedConnect(c)
  BY DEF Connect
<1>2. result' = [result EXCEPT ![c] = "WS_CONNECTION_FAILURE"]
  BY <1>1 DEF ws_connect, ConnectFails, ConnectSucceeds
<1>3. fd' = fd /\ (fds' = fds \/ fds' = fds \cup {socket})
  BY <1>1 DEF FailedConnect
<1>4. socket \in Nat \ fds
  BY SocketIsFree DEF DInv, DescriptorsOpen
<1>5. IsFiniteSet(fds')
  BY <1>3, FS_AddElement DEF DInv, DescriptorsOpen
<1>6. DescriptorsOpen'
  BY <1>3, <1>4, <1>5 DEF DInv, DescriptorsOpen, Inherited
<1>7. DescriptorsOwned'
  BY <1>3 DEF DInv, DescriptorsOwned, Inherited
<1>8. CallersConnected'
  BY <1>2, <1>3 DEF DInv, CallersConnected, Outcome
<1> QED
  BY <1>6, <1>7, <1>8 DEF DInv

(* A connection that was made has the least free descriptor.               *)
LEMMA ConnectStep ==
  ASSUME DInv, NEW c \in Ctx, Connect(c), pc' = "upgrade"
  PROVE  DInv'
<1>1. /\ ws_connect(c) /\ pc = "idle"
      /\ fds' = fds \cup {socket}
      /\ fd' = [fd EXCEPT ![c] = socket]
  BY DEF Connect, ws_connect
<1>2. result' = result /\ cur' = c
  BY <1>1 DEF ws_connect, ConnectFails, ConnectSucceeds
<1>3. socket \in Nat \ fds /\ socket \notin Inherited /\ socket # 0
  BY SocketIsFree, InheritedFinite DEF DInv, DescriptorsOpen
<1>4. IsFiniteSet(fds')
  BY <1>1, FS_AddElement DEF DInv, DescriptorsOpen
<1>5. DescriptorsOpen'
  BY <1>1, <1>3, <1>4 DEF DInv, DescriptorsOpen, Inherited
<1>6. fd' \in [Ctx -> Nat] /\ fd'[c] = socket /\ \A d \in Ctx \ {c} : fd'[d] = fd[d]
  BY <1>1, <1>3 DEF DInv, DescriptorsOwned
<1>7. \A d \in Ctx : fd[d] # socket
  BY <1>3, InheritedFinite DEF DInv, DescriptorsOpen, DescriptorsOwned
<1>8. DescriptorsOwned'
  <2> SUFFICES ASSUME NEW e \in Ctx, fd'[e] # 0
               PROVE  /\ fd'[e] \in fds' \ Inherited
                      /\ \A d \in Ctx \ {e} : fd'[e] # fd'[d]
    BY <1>6 DEF DescriptorsOwned, Inherited
  <2>1. CASE e = c
    BY <1>1, <1>3, <1>6, <1>7, <2>1
  <2>2. CASE e # c
    BY <1>1, <1>6, <1>7, <2>2 DEF DInv, DescriptorsOwned
  <2> QED
    BY <2>1, <2>2
<1>9. CallersConnected'
  BY <1>2, <1>3, <1>6 DEF DInv, CallersConnected, Outcome
<1> QED
  BY <1>5, <1>8, <1>9 DEF DInv

(* The handshake opens and closes nothing.                                 *)
LEMMA HandshakeStep ==
  ASSUME DInv, Handshake
  PROVE  DInv'
<1>1. fds' = fds /\ fd' = fd
  BY DEF Handshake, fdVars
<1>2. DescriptorsOpen' /\ DescriptorsOwned'
  BY <1>1 DEF DInv, DescriptorsOpen, DescriptorsOwned, Inherited
<1>3. CASE result' = result /\ cur' = cur /\ pc \notin {"idle", "dead"}
  BY <1>1, <1>2, <1>3 DEF DInv, CallersConnected, Outcome
<1>4. CASE /\ pc \notin {"idle", "dead"} /\ pc' = "idle"
           /\ \E res \in Outcome : result' = [result EXCEPT ![cur] = res]
  BY <1>1, <1>2, <1>4 DEF DInv, CallersConnected, Outcome
<1>5. Client
  BY DEF Handshake
<1>6. ws_do_http_upgrade => result' = result /\ cur' = cur /\ pc \notin {"idle", "dead"}
  BY DEF ws_do_http_upgrade
<1>7. ReadStatusLine \/ ReadHeaderLine =>
        result' = result /\ cur' = cur /\ pc \notin {"idle", "dead"}
  BY DEF ReadStatusLine, ReadHeaderLine, ReadLine
<1>8. VerifyResponse =>
        /\ pc \notin {"idle", "dead"}
        /\ \/ result' = result /\ cur' = cur
           \/ /\ pc' = "idle"
              /\ \E res \in Outcome : result' = [result EXCEPT ![cur] = res]
  BY DEF VerifyResponse, Return, Outcome
<1> QED
  BY <1>3, <1>4, <1>5, <1>6, <1>7, <1>8 DEF Client

(* Nor does anything outside ws_connect.                                   *)
LEMMA OtherStep ==
  ASSUME DInv, UNCHANGED <<callVars, fdVars>>
  PROVE  DInv'
BY DEF callVars, fdVars, DInv, DescriptorsOpen, DescriptorsOwned, CallersConnected,
       Inherited, Outcome

LEMMA DInvStep == DInv /\ [ClientNext]_clientVars => DInv'
<1> SUFFICES ASSUME DInv, [ClientNext]_clientVars PROVE DInv'
  OBVIOUS
<1>1. ASSUME NEW c \in Ctx, Connect(c) PROVE DInv'
  BY <1>1, FailedConnectStep, ConnectStep DEF Connect
<1>2. CASE Handshake
  BY <1>2, HandshakeStep
<1>3. CASE SendMessage \/ Write \/ Exit
  BY <1>3, OtherStep DEF SendMessage, Write, Exit, vars
<1>4. CASE Answer
  BY <1>4, OtherStep DEF Answer, Server, ServerAnswers, ServerCloses
<1>5. CASE LateClose
  BY <1>5, OtherStep DEF LateClose
<1>6. CASE Receive
  BY <1>6, OtherStep DEF Receive, vars
<1>7. CASE UNCHANGED clientVars
  BY <1>7, OtherStep DEF clientVars, vars
<1> QED
  BY <1>1, <1>2, <1>3, <1>4, <1>5, <1>6, <1>7 DEF ClientNext, Main

(* However many contexts the program has, however often and in whatever    *)
(* order it connects them, and whatever failed connections left open, a    *)
(* context that ws_connect returned WS_SUCCESS for has an open descriptor  *)
(* that is neither one the program began with nor another context's.       *)
THEOREM DescriptorsOfTheirOwn == ClientSpec => []OwnDescriptor
<1>1. ClientInit => DInv
  BY DInvInit
<1>2. DInv /\ [ClientNext]_clientVars => DInv'
  BY DInvStep
<1>3. DInv => OwnDescriptor
  BY DEF DInv, DescriptorsOwned, CallersConnected, OwnDescriptor
<1> QED
  BY <1>1, <1>2, <1>3, PTL DEF ClientSpec

-------------------------------------------------------------------------------
(* The handshake in its program: but for a connection that ends between    *)
(* two calls, a step of the program is one of WsConnect or leaves its      *)
(* variables alone.                                                        *)

LEMMA ClientOInvStep == OInv /\ [ClientNext]_clientVars => OInv'
<1> SUFFICES ASSUME OInv, [ClientNext]_clientVars PROVE OInv'
  OBVIOUS
<1>1. ASSUME NEW c \in Ctx, Connect(c) PROVE OInv'
  BY <1>1, ConnectKeeps DEF Connect
<1>2. CASE Handshake
  BY <1>2, ClientKeeps DEF Handshake
<1>3. CASE SendMessage \/ Write \/ Exit \/ Receive \/ UNCHANGED clientVars
  BY <1>3, StutterKeeps DEF SendMessage, Write, Exit, Receive, clientVars
<1>4. CASE Answer
  BY <1>4, ServerKeeps DEF Answer
<1>5. CASE LateClose
  <2>1. UNCHANGED <<pc, cur, request>> /\ R!PeerClose(conn) /\ conn # "none"
    BY <1>5 DEF LateClose, callVars
  <2>2. P!PeerClose(conn)
    BY <2>1 DEF R!PeerClose, P!PeerClose, R!readerVars, P!readerVars
  <2>3. UNCHANGED <<mem, len, rcvd, out, last, sent, aborted>>
    BY <2>2 DEF P!PeerClose, P!readerVars
  <2>4. peer' \in [Ctx -> {"none", "open", "fin", "rst"}]
    BY <2>2 DEF P!PeerClose, OInv, P!TypeOK
  <2> QED
    BY <2>1, <2>3, <2>4 DEF OInv, CallerIntegrity, P!TypeOK, P!ReaderIntegrity,
       P!Continues
<1> QED
  BY <1>1, <1>2, <1>3, <1>4, <1>5 DEF ClientNext, Main

(* The bytes a call of ws_connect has taken and those still buffered are   *)
(* those its own connection delivered, also in a program that sends        *)
(* messages between two calls and whose connections end at any time.       *)
THEOREM OwnResponseInProgram == ClientSpec => []OwnResponseOnly
<1>1. ClientInit => OInv
  BY OInvInit DEF ClientInit
<1>2. OInv /\ [ClientNext]_clientVars => OInv'
  BY ClientOInvStep
<1>3. OInv => OwnResponseOnly
  BY OInvSuffices
<1> QED
  BY <1>1, <1>2, <1>3, PTL DEF ClientSpec

(* The connection made last keeps its bytes when its call has returned.    *)
KeptInv ==
  /\ OInv
  /\ cur # "none" => conn = cur
  /\ conn # "none" => conn \in Ctx /\ P!ReaderIntegrity(conn)

LEMMA KeptStutter ==
  ASSUME KeptInv, UNCHANGED <<conn, cur, mem, len, rcvd, out, sent>>, OInv'
  PROVE  KeptInv'
BY DEF KeptInv, P!ReaderIntegrity, P!Continues

(* A call in progress is the one on this connection.                       *)
LEMMA KeptInCall ==
  ASSUME OInv', cur' # "none", conn' = cur'
  PROVE  KeptInv'
BY DEF KeptInv, OInv, CallerIntegrity

LEMMA KeptStep == KeptInv /\ [ClientNext]_clientVars => KeptInv'
<1> SUFFICES ASSUME KeptInv, [ClientNext]_clientVars PROVE KeptInv'
  OBVIOUS
<1>1. OInv /\ OInv'
  BY ClientOInvStep DEF KeptInv
<1>2. ASSUME NEW c \in Ctx, Connect(c) PROVE KeptInv'
  <2>1. CASE pc' = "upgrade"
    <3>1. conn' = c /\ cur' = c
      BY <1>2, <2>1 DEF Connect, ws_connect, ConnectFails, ConnectSucceeds
    <3> QED
      BY <1>1, <3>1, KeptInCall, CtxAssumption
  <2>2. CASE pc' # "upgrade"
    <3>1. UNCHANGED <<conn, cur, readerVars>>
      BY <1>2, <2>2 DEF Connect, FailedConnect, ws_connect, ConnectFails, ConnectSucceeds
    <3> QED
      BY <1>1, <3>1, KeptStutter DEF readerVars
  <2> QED
    BY <2>1, <2>2
<1>3. CASE Handshake
  <2>1. cur \in Ctx /\ cur # "none" /\ conn' = conn
    BY <1>1, <1>3, CtxAssumption
       DEF Handshake, Client, ws_do_http_upgrade, ReadStatusLine, ReadHeaderLine,
           VerifyResponse, fdVars, OInv, CallerIntegrity
  <2>2. cur' = cur \/ (cur' = "none" /\ UNCHANGED readerVars)
    BY <1>3 DEF Handshake, Client, ws_do_http_upgrade, ReadStatusLine, ReadHeaderLine,
       ReadLine, VerifyResponse, Return
  <2>3. CASE cur' = cur
    BY <1>1, <2>1, <2>3, KeptInCall DEF KeptInv
  <2>4. CASE cur' = "none" /\ UNCHANGED readerVars
    BY <1>1, <2>1, <2>4
       DEF KeptInv, readerVars, P!ReaderIntegrity, P!Continues
  <2> QED
    BY <2>2, <2>3, <2>4
<1>4. CASE SendMessage \/ Write \/ Exit \/ Receive \/ UNCHANGED clientVars
  <2>1. UNCHANGED <<vars, conn>>
    BY <1>4 DEF SendMessage, Write, Exit, Receive, clientVars, fdVars
  <2> QED
    BY <1>1, <2>1, KeptStutter DEF vars, readerVars, callVars
<1>5. CASE Answer
  <2>1. PICK c \in Ctx : Server(c)
    BY <1>5 DEF Answer
  <2>2. c = cur /\ UNCHANGED <<conn, cur>>
    BY <1>5, <2>1 DEF Answer, Server, ServerAnswers, ServerCloses, callVars, fdVars
  <2> QED
    BY <1>1, <2>2, KeptInCall, CtxAssumption DEF KeptInv
<1>6. CASE LateClose
  <2>1. UNCHANGED <<conn, cur, mem, len, rcvd, out, sent>>
    BY <1>6 DEF LateClose, R!PeerClose, R!readerVars, callVars, fdVars
  <2> QED
    BY <1>1, <2>1, KeptStutter
<1> QED
  BY <1>2, <1>3, <1>4, <1>5, <1>6 DEF ClientNext, Main

(* What read(2) brought of a connection stays the caller's or in the array *)
(* until another connection is made, whatever calls fail before that, with *)
(* any number of contexts on the one array.                                *)
THEOREM LastConnectionKeeps == ClientSpec => []FramesKept
<1>1. ClientInit => KeptInv
  BY OInvInit DEF ClientInit, Init, KeptInv
<1>2. KeptInv => FramesKept
  <2> SUFFICES ASSUME KeptInv, conn # "none"
               PROVE  out[conn] \o Unread(conn) = SubSeq(sent[conn], 1, rcvd[conn])
    BY DEF FramesKept
  <2>1. out[conn] \o P!Unread(conn) = SubSeq(sent[conn], 1, rcvd[conn])
    BY ReaderAssumptions, P!IntegrityOfSequence DEF KeptInv, OInv
  <2> QED
    BY <2>1 DEF Unread, R!Unread, P!Unread, R!Buf_copy_raw, P!Buf_copy_raw, R!MIN, P!MIN
<1> QED
  BY <1>1, <1>2, KeptStep, PTL DEF ClientSpec

(* Nor does a connection that ends between two calls change what was read. *)
LEMMA LateCloseKeepsBytes ==
  ASSUME LateClose
  PROVE  UNCHANGED <<out, sent, callVars, request>>
BY DEF LateClose, R!PeerClose, R!readerVars

LEMMA ClientHInvStep == HInv /\ [ClientNext]_clientVars => HInv'
<1> SUFFICES ASSUME HInv, [ClientNext]_clientVars PROVE HInv'
  OBVIOUS
<1>1. ASSUME NEW c \in Ctx, Connect(c) PROVE HInv'
  BY <1>1, HInvConnect DEF Connect
<1>2. CASE Handshake
  BY <1>2, HInvClient DEF Handshake
<1>3. CASE SendMessage \/ Write \/ Exit \/ Receive \/ UNCHANGED clientVars
  BY <1>3, HInvStutter DEF SendMessage, Write, Exit, Receive, clientVars
<1>4. CASE Answer
  BY <1>4, HInvServer DEF Answer
<1>5. CASE LateClose
  BY <1>5, ClientOInvStep, LateCloseKeepsBytes, HInvOther DEF HInv
<1> QED
  BY <1>1, <1>2, <1>3, <1>4, <1>5 DEF ClientNext, Main

(* In the program too, a response is taken up to the end of its header.    *)
THEOREM HeaderExactInProgram == ClientSpec => []HeaderTakenExactly
<1>1. ClientInit => HInv
  BY HInvInit DEF ClientInit
<1>2. HInv /\ [ClientNext]_clientVars => HInv'
  BY ClientHInvStep
<1>3. HInv => HeaderTakenExactly
  BY HInvHeader
<1> QED
  BY <1>1, <1>2, <1>3, PTL DEF ClientSpec

LEMMA ClientSentStep == HInv /\ AnswersSent /\ [ClientNext]_clientVars => AnswersSent'
<1> SUFFICES ASSUME HInv, AnswersSent, [ClientNext]_clientVars PROVE AnswersSent'
  OBVIOUS
<1>1. ASSUME NEW c \in Ctx, Connect(c) PROVE AnswersSent'
  BY <1>1, SentConnect DEF Connect
<1>2. CASE Handshake
  BY <1>2, SentClient DEF Handshake
<1>3. CASE SendMessage \/ Write \/ Exit \/ Receive \/ UNCHANGED clientVars
  BY <1>3, SentKept DEF SendMessage, Write, Exit, Receive, clientVars, vars, readerVars
<1>4. CASE Answer
  BY <1>4, SentServer DEF Answer
<1>5. CASE LateClose
  BY <1>5, LateCloseKeepsBytes, SentKept
<1> QED
  BY <1>1, <1>2, <1>3, <1>4, <1>5 DEF ClientNext, Main

(* And WS_SUCCESS means a verified answer.                                 *)
THEOREM SuccessVerifiedInProgram ==
  ASSUME AnswersStartLines
  PROVE  ClientSpec => []SuccessIsVerified
<1> DEFINE VInv == HInv /\ AnswersSent
<1>1. ClientInit => VInv
  BY HInvInit, SentInit DEF ClientInit
<1>2. VInv /\ [ClientNext]_clientVars => VInv'
  BY ClientHInvStep, ClientSentStep
<1>3. VInv => SuccessIsVerified
  BY VerifiedSuffices
<1> QED
  BY <1>1, <1>2, <1>3, PTL DEF ClientSpec

(* In the program too, no call of ws_connect goes on for ever.             *)
THEOREM CallAdvanceInProgram == ClientSpec => CallAdvances
<1> DEFINE LInv == HInv /\ AnswersSent
<1>1. ClientInit => LInv
  BY HInvInit, SentInit DEF ClientInit
<1>2. LInv /\ [ClientNext]_clientVars => LInv'
  BY ClientHInvStep, ClientSentStep
<1>3. LInv => [Client => 0 <= ToDo' /\ ToDo' < ToDo]_vars
  BY CallAdvancesStep
<1> QED
  BY <1>1, <1>2, <1>3, PTL DEF ClientSpec, CallAdvances

LEMMA ClientKInvStep == HInv /\ KInv /\ [ClientNext]_clientVars => KInv'
<1> SUFFICES ASSUME HInv, KInv, [ClientNext]_clientVars PROVE KInv'
  OBVIOUS
<1>1. ASSUME NEW c \in Ctx, Connect(c) PROVE KInv'
  BY <1>1, KInvConnect DEF Connect
<1>2. CASE Handshake
  BY <1>2, KInvUpgrade, KInvStatusLine, KInvHeaderLine, KInvVerify DEF Handshake, Client
<1>3. CASE SendMessage \/ Write \/ Exit \/ Receive \/ UNCHANGED clientVars
  <2>1. UNCHANGED vars
    BY <1>3 DEF SendMessage, Write, Exit, Receive, clientVars
  <2> QED
    BY <2>1, KInvStep
<1>4. CASE Answer
  BY <1>4, KInvServer DEF Answer
<1>5. CASE LateClose
  <2>1. cur = "none" /\ pc' = pc
    BY <1>5 DEF LateClose, callVars
  <2>2. pc = "idle"
    BY <2>1, CtxAssumption DEF KInv
  <2> QED
    BY <2>1, <2>2 DEF KInv, KilledByAnswer
<1> QED
  BY <1>1, <1>2, <1>3, <1>4, <1>5 DEF ClientNext, Main

(* And a well-formed answer that ends the process is a wrong one.          *)
THEOREM OnlyWrongKillInProgram ==
  ASSUME AnswersWellFormed
  PROVE  ClientSpec => []OnlyWrongAnswersKill
<1> DEFINE Inv == HInv /\ AnswersSent /\ KInv
<1>1. ClientInit => Inv
  BY HInvInit, SentInit, KInvInit DEF ClientInit
<1>2. Inv /\ [ClientNext]_clientVars => Inv'
  BY ClientHInvStep, ClientSentStep, ClientKInvStep
<1>3. Inv => OnlyWrongAnswersKill
  BY KilledSuffices
<1> QED
  BY <1>1, <1>2, <1>3, PTL DEF ClientSpec

-------------------------------------------------------------------------------
(* The frame writer in its program.  Between two connections a step of the *)
(* program is one of FrameWriter or leaves its variables alone.            *)

LEMMA FrameAssumptions ==
  /\ ByteMod \in Nat /\ ByteMod >= 16 /\ ByteMod % 2 = 0
  /\ \A a, b \in FP!Byte : ByteXor(a, b) \in FP!Byte /\ ByteXor(ByteXor(a, b), b) = a
  /\ Payload \subseteq Seq(FP!Byte)
  /\ MaskKey # {} /\ \A k \in MaskKey : k \in Seq(FP!Byte) /\ Len(k) = 4
  /\ SendBuffer \in Nat \ {0} /\ MaxMessages \in Nat
BY FrameAssumption DEF FP!Byte

LEMMA FrameTypesInit == FP!Init => FP!TInv
BY FrameAssumptions, FP!InitTypes, Zenon

LEMMA FreshTypes == FP!Init' => FP!TInv'
BY FrameTypesInit, PTL

LEMMA SameInit == F!Init /\ hangup = "none" => FP!Init
BY DEF F!Init, FP!Init, F!NoMessage, FP!NoMessage, Broken

LEMMA SameSend == F!ws_send_message /\ UNCHANGED hangup => FP!ws_send_message
BY DEF F!ws_send_message, FP!ws_send_message, F!Message, FP!Message,
   F!crng_next_i32, FP!crng_next_i32, Broken

LEMMA SameChunk == \A stage : F!Chunk(stage) = FP!Chunk(stage)
<1>1. F!HighBit = FP!HighBit /\ F!LenMax = FP!LenMax /\ F!Ext16Max = FP!Ext16Max
      /\ F!Marker16 = FP!Marker16 /\ F!Marker64 = FP!Marker64
  BY DEF F!HighBit, FP!HighBit, F!LenMax, FP!LenMax, F!Ext16Max, FP!Ext16Max,
     F!Marker16, FP!Marker16, F!Marker64, FP!Marker64
<1>2. \A m : F!FinAndOpcode(m) = FP!FinAndOpcode(m)
  BY <1>1 DEF F!FinAndOpcode, FP!FinAndOpcode, F!WS_FRAME_OP_TEXT, FP!WS_FRAME_OP_TEXT,
     F!WS_FRAME_OP_BINARY, FP!WS_FRAME_OP_BINARY
<1>3. \A m : F!PrePayloadLen(m) = FP!PrePayloadLen(m)
  BY <1>1 DEF F!PrePayloadLen, FP!PrePayloadLen, F!TruncatedLen, FP!TruncatedLen
<1>4. \A k, data : F!ws__mask_payload(k, data) = FP!ws__mask_payload(k, data)
  BY DEF F!ws__mask_payload, FP!ws__mask_payload
<1> QED
  BY <1>2, <1>3, <1>4 DEF F!Chunk, FP!Chunk

LEMMA SameStage == F!Stage = FP!Stage
BY DEF F!Stage, FP!Stage

LEMMA SameNextStage == F!NextStage => FP!NextStage
<1>1. F!LenMax = FP!LenMax
  BY DEF F!HighBit, FP!HighBit, F!LenMax, FP!LenMax
<1>2. \A m : F!TruncatedLen(m) = FP!TruncatedLen(m)
  BY DEF F!TruncatedLen, FP!TruncatedLen
<1> QED
  BY <1>1, <1>2 DEF F!NextStage, FP!NextStage

LEMMA SameWriter ==
  ASSUME F!Writer, hangup # "rst", UNCHANGED hangup
  PROVE  FP!Writer
<1>1. Broken = Reset /\ Broken' = Reset'
  BY DEF Broken, Reset
<1>2. F!WriteSome => FP!WriteSome
  BY <1>1, SameChunk, SameStage, SameNextStage DEF F!WriteSome, FP!WriteSome
<1>3. F!WriteNothing => FP!WriteNothing
  BY <1>1, SameChunk, SameStage, SameNextStage DEF F!WriteNothing, FP!WriteNothing
<1>4. F!WriteFails => FP!WriteFails
  BY <1>1, SameStage, SameNextStage DEF F!WriteFails, FP!WriteFails
<1> QED
  BY <1>2, <1>3, <1>4 DEF F!Writer, FP!Writer

LEMMA SameDecodable ==
  /\ F!HeaderLen = FP!HeaderLen /\ F!PayloadLen = FP!PayloadLen
  /\ F!Decodable = FP!Decodable /\ F!HighBit = FP!HighBit
<1>1. F!HighBit = FP!HighBit /\ F!Marker16 = FP!Marker16
  BY DEF F!HighBit, FP!HighBit, F!LenMax, FP!LenMax, F!Marker16, FP!Marker16
<1>2. F!ExtLen = FP!ExtLen
  BY <1>1 DEF F!ExtLen, FP!ExtLen
<1>3. F!HeaderLen = FP!HeaderLen /\ F!PayloadLen = FP!PayloadLen
  BY <1>1, <1>2 DEF F!HeaderLen, FP!HeaderLen, F!PayloadLen, FP!PayloadLen
<1>4. F!Decodable = FP!Decodable
  BY <1>3 DEF F!Decodable, FP!Decodable
<1> QED
  BY <1>1, <1>3, <1>4

LEMMA SamePeerDecodes == F!PeerDecodes /\ UNCHANGED hangup => FP!PeerDecodes
<1>1. UNCHANGED Reset /\ UNCHANGED hangup => UNCHANGED Broken
  BY DEF Broken
<1> QED
  BY <1>1, SameDecodable DEF F!PeerDecodes, FP!PeerDecodes, F!writerVars, FP!writerVars,
     F!WS_FRAME_OP_BINARY, FP!WS_FRAME_OP_BINARY

LEMMA SamePeer ==
  ASSUME F!Peer, UNCHANGED hangup
  PROVE  FP!Peer
<1>1. UNCHANGED Reset => UNCHANGED Broken
  BY DEF Broken
<1>2. F!PeerReads => FP!PeerReads
  BY <1>1 DEF F!PeerReads, FP!PeerReads, F!writerVars, FP!writerVars
<1> QED
  BY <1>2, SamePeerDecodes DEF F!Peer, FP!Peer

LEMMA SameTypes == FP!TypeOK => F!TypeOK
BY DEF F!TypeOK, FP!TypeOK, F!Stage, FP!Stage, F!Message, FP!Message,
   F!NoMessage, FP!NoMessage, F!Byte, FP!Byte, Reset

(* A reader that is attached, read from or left alone was reset no later.  *)
LEMMA ResetKept ==
  ASSUME UNCHANGED <<peer, conn, hangup>>
  PROVE  UNCHANGED Broken
BY DEF Reset, Broken

LEMMA FrameStutter ==
  ASSUME UNCHANGED <<writeVars, peer, conn, hangup>>
  PROVE  UNCHANGED FP!vars
BY ResetKept DEF writeVars, FP!vars, FP!writerVars

LEMMA ClientKeepsPeers ==
  ASSUME HInv, Client
  PROVE  peer' = peer
<1>1. ReadStatusLine \/ ReadHeaderLine => ReadLine
  BY DEF ReadStatusLine, ReadHeaderLine
<1>2. ReadLine => P!BufReader_read_until(cur)
  BY SameReadUntil DEF ReadLine
<1>3. ReadLine => peer' = peer
  BY <1>2 DEF P!BufReader_read_until
<1> QED
  BY <1>1, <1>3 DEF Client, ws_do_http_upgrade, VerifyResponse, readerVars

(* A program that has ended is in the middle of nothing.                   *)
Ended ==
  /\ exit # "running" => pc = "idle" /\ writer = "idle"
  /\ exit = "EXIT_SUCCESS" => submitted # <<>>
  /\ hangup = "rst" => exit # "running"

(* A connection that was just made has nothing on its wire.                *)
LEMMA FreshConnection ==
  ASSUME HInv, Ended, NEW c \in Ctx, Connect(c), pc' = "upgrade"
  PROVE  FP!Init' /\ conn' = c /\ cur' = c /\ exit' = exit /\ hangup' = hangup
<1>1. /\ ws_connect(c) /\ pc = "idle" /\ conn' = c /\ FreshWire
      /\ UNCHANGED <<exit, hangup>> /\ hangup # "rst"
  BY DEF Connect, ws_connect, Running, Ended
<1>2. ConnectSucceeds(c)
  BY <1>1 DEF ws_connect, ConnectFails
<1>3. cur' = c /\ peer' = [peer EXCEPT ![c] = "open"]
  BY <1>2 DEF ConnectSucceeds, R!BufReader_init
<1>4. peer'[c] = "open"
  BY <1>3 DEF HInv, OInv, P!TypeOK
<1>5. Broken' = FALSE
  BY <1>1, <1>4 DEF Reset, Broken
<1> QED
  BY <1>1, <1>3, <1>5 DEF FreshWire, FP!Init, F!NoMessage, FP!NoMessage

LEMMA FailedConnection ==
  ASSUME HInv, NEW c \in Ctx, Connect(c), pc' # "upgrade"
  PROVE  /\ UNCHANGED <<writeVars, peer, conn, cur, pc, exit, hangup, sent, out, rcvd>>
         /\ pc = "idle" /\ exit = "running"
<1>1. /\ ws_connect(c) /\ pc = "idle" /\ pc' = "idle" /\ FailedConnect(c)
      /\ exit = "running" /\ UNCHANGED <<exit, hangup>>
  BY DEF Connect, ws_connect, Running
<1>2. ConnectFails(c)
  BY <1>1 DEF ws_connect, ConnectSucceeds
<1> QED
  BY <1>1, <1>2 DEF ConnectFails, FailedConnect, readerVars

(* Only a program that goes on sends or connects, and its writer is idle   *)
(* when it ends.                                                           *)
LEMMA EndedStep == HInv /\ Ended /\ [ClientNext]_clientVars => Ended'
<1> SUFFICES ASSUME HInv, Ended, [ClientNext]_clientVars PROVE Ended'
  OBVIOUS
<1>1. UNCHANGED <<exit, pc, writer, submitted, hangup>> => Ended'
  BY DEF Ended
<1>2. exit = "running" /\ UNCHANGED <<exit, hangup>> => Ended'
  BY DEF Ended
<1>3. ASSUME NEW c \in Ctx, Connect(c) PROVE Ended'
  BY <1>2, <1>3 DEF Connect, Running
<1>4. CASE Handshake
  <2>1. pc # "idle"
    BY <1>4 DEF Handshake, Client, ws_do_http_upgrade, ReadStatusLine, ReadHeaderLine,
       VerifyResponse
  <2> QED
    BY <1>2, <1>4, <2>1 DEF Ended, Handshake
<1>5. CASE SendMessage
  BY <1>2, <1>5 DEF SendMessage, Running
<1>6. CASE Write
  <2>1. writer # "idle"
    BY <1>6 DEF Write, F!Writer, F!WriteSome, F!WriteNothing, F!WriteFails, F!Stage
  <2> QED
    BY <1>2, <1>6, <2>1 DEF Ended, Write
<1>7. CASE Receive
  BY <1>1, <1>7 DEF Receive, vars, callVars, F!Peer, F!PeerReads, F!PeerDecodes, F!writerVars
<1>8. CASE Exit
  BY <1>8 DEF Exit, Running, Ended, vars, callVars
<1>9. CASE Answer
  BY <1>1, <1>9 DEF Answer, Server, ServerAnswers, ServerCloses, callVars, writeVars
<1>10. CASE LateClose
  BY <1>1, <1>10 DEF LateClose, callVars
<1>11. CASE UNCHANGED clientVars
  BY <1>1, <1>11 DEF clientVars, vars, callVars, writeVars
<1> QED
  BY <1>3, <1>4, <1>5, <1>6, <1>7, <1>8, <1>9, <1>10, <1>11 DEF ClientNext, Main

(* Bytes in flight may be lost, and whether the connection is reset does   *)
(* not matter for the types.                                               *)
LEMMA LossTypes ==
  ASSUME FP!TInv, inflight' \in {inflight, <<>>},
         UNCHANGED <<writer, message, mask, wrote, inbox, submitted, received>>
  PROVE  FP!TInv'
<1>1. <<>> \in Seq(FP!Byte)
  BY EmptySeq
<1>2. Broken' \in BOOLEAN
  BY DEF Reset, Broken
<1> QED
  BY <1>1, <1>2 DEF FP!TInv, FP!TypeOK, FP!Sending

LEMMA WritesOpen == Ended /\ Write => hangup # "rst" /\ UNCHANGED hangup
<1>1. F!Writer => writer # "idle"
  BY DEF F!Writer, F!WriteSome, F!WriteNothing, F!WriteFails, F!Stage
<1> QED
  BY <1>1 DEF Write, Ended

ProgramTypes ==
  /\ FP!TInv
  /\ conn \in Ctx \cup {"none"}
  /\ exit \in {"running", "EXIT_SUCCESS", "EXIT_FAILURE"}
  /\ hangup \in {"none", "fin", "rst"}

LEMMA EndedInit == ClientInit => Ended
BY DEF ClientInit, Ended

LEMMA ProgramTypesInit == ClientInit => ProgramTypes
BY SameInit, FrameTypesInit DEF ClientInit, ProgramTypes

LEMMA ProgramTypesStep ==
  HInv /\ Ended /\ ProgramTypes /\ [ClientNext]_clientVars => ProgramTypes'
<1> SUFFICES ASSUME HInv, Ended, ProgramTypes, [ClientNext]_clientVars
             PROVE  ProgramTypes'
  OBVIOUS
<1>1. ASSUME NEW c \in Ctx, Connect(c) PROVE ProgramTypes'
  <2>1. CASE pc' = "upgrade"
    BY <1>1, <2>1, FreshConnection, FreshTypes DEF ProgramTypes
  <2>2. CASE pc' # "upgrade"
    BY <1>1, <2>2, FailedConnection, LossTypes DEF ProgramTypes, writeVars
  <2> QED
    BY <2>1, <2>2
<1>2. CASE Handshake \/ Answer
  BY <1>2, LossTypes DEF Handshake, Answer, ProgramTypes, writeVars, fdVars
<1>3. CASE SendMessage
  <2>1. FP!TInv'
    BY <1>3, SameSend, FrameAssumptions, FP!SendTypes DEF SendMessage, ProgramTypes
  <2> QED
    BY <1>3, <2>1 DEF SendMessage, ProgramTypes, fdVars
<1>4. CASE Write
  <2>1. FP!TInv'
    BY <1>4, WritesOpen, SameWriter, FrameAssumptions, FP!WriterTypes
       DEF Write, ProgramTypes
  <2> QED
    BY <1>4, <2>1 DEF Write, ProgramTypes, fdVars
<1>5. CASE Receive
  <2>1. FP!TInv'
    BY <1>5, SamePeer, FrameAssumptions, FP!PeerTypes DEF Receive, ProgramTypes
  <2> QED
    BY <1>5, <2>1 DEF Receive, ProgramTypes, fdVars
<1>6. CASE Exit
  BY <1>6, LossTypes DEF Exit, ProgramTypes, fdVars
<1>7. CASE LateClose
  BY <1>7, LossTypes DEF LateClose, ProgramTypes, fdVars
<1>8. CASE UNCHANGED clientVars
  BY <1>8, LossTypes DEF clientVars, ProgramTypes, fdVars, writeVars
<1> QED
  BY <1>1, <1>2, <1>3, <1>4, <1>5, <1>6, <1>7, <1>8 DEF ClientNext, Main

LEMMA ClientCallTypesStep ==
  HInv /\ CallTypes /\ [ClientNext]_clientVars => CallTypes'
<1> SUFFICES ASSUME HInv, CallTypes, [ClientNext]_clientVars PROVE CallTypes'
  OBVIOUS
<1>1. ASSUME NEW c \in Ctx, Connect(c) PROVE CallTypes'
  BY <1>1, TypesConnect DEF Connect
<1>2. CASE Handshake
  BY <1>2, TypesClient DEF Handshake
<1>3. CASE SendMessage \/ Write \/ Exit \/ Receive \/ LateClose \/ UNCHANGED clientVars
  BY <1>3, TypesKept DEF SendMessage, Write, Exit, Receive, LateClose, clientVars, vars
<1>4. CASE Answer
  BY <1>4, TypesServer DEF Answer
<1> QED
  BY <1>1, <1>2, <1>3, <1>4 DEF ClientNext, Main

(* Every variable of the program keeps its type; a context's descriptor is *)
(* always an open one.                                                     *)
THEOREM ClientTypeCorrect == ClientSpec => []ClientTypeOK
<1> DEFINE Inv == HInv /\ CallTypes /\ DInv /\ Ended /\ ProgramTypes
<1>1. ClientInit => Inv
  BY HInvInit, TypesInit, DInvInit, EndedInit, ProgramTypesInit DEF ClientInit
<1>2. Inv /\ [ClientNext]_clientVars => Inv'
  BY ClientHInvStep, ClientCallTypesStep, DInvStep, EndedStep, ProgramTypesStep
<1>3. Inv => ClientTypeOK
  <2> SUFFICES ASSUME Inv PROVE ClientTypeOK
    OBVIOUS
  <2>1. TypeOK /\ F!TypeOK
    BY TypesSuffice, SameTypes DEF ProgramTypes, FP!TInv
  <2>2. Inherited \subseteq fds /\ fds \subseteq Nat
    BY DEF DInv, DescriptorsOpen
  <2>3. fd \in [Ctx -> fds]
    <3>1. \A c \in Ctx : fd[c] \in fds
      BY <2>2, InheritedFinite DEF DInv, DescriptorsOwned
    <3> QED
      BY <3>1 DEF DInv, DescriptorsOwned
  <2> QED
    BY <2>1, <2>2, <2>3 DEF ClientTypeOK, ProgramTypes
<1> QED
  BY <1>1, <1>2, <1>3, PTL DEF ClientSpec

-------------------------------------------------------------------------------
(* A message the program sent.  The frames on the wire are those of the    *)
(* connection in use; one that is being established has none.              *)

Counted == \A c \in Ctx : Len(out[c]) <= rcvd[c]

CallFresh ==
  cur # "none" => /\ conn = cur /\ writer = "idle"
                  /\ inflight = <<>> /\ inbox = <<>> /\ submitted = <<>>

(* A message is sent on a connection whose response was read.              *)
SentAfterResponse == submitted # <<>> => conn \in Ctx /\ out[conn] # <<>>

(* An exit resets the connection only over frames behind the header.       *)
ResetOverFrames ==
  hangup = "rst" /\ exit = "EXIT_SUCCESS" => sent[conn] # HeaderOf(sent[conn])


LEMMA AssertionAssumed == F!AssertionTells => FP!AssertionTells
<1>1. F!LenMax = FP!LenMax
  BY DEF F!HighBit, FP!HighBit, F!LenMax, FP!LenMax
<1> QED
  BY <1>1 DEF F!AssertionTells, FP!AssertionTells

LEMMA FrameInit == FP!Init => FP!FInv
BY FrameAssumptions, FP!InitFrames, Zenon

LEMMA FreshFrames == FP!Init' => FP!FInv'
BY FrameInit, PTL

LEMMA FrameStep ==
  ASSUME F!AssertionTells, FP!FInv, [FP!Next]_(FP!vars)
  PROVE  FP!FInv'
BY AssertionAssumed, FrameAssumptions, FP!FInvStep, Zenon

LEMMA BreakStep ==
  ASSUME FP!FInv, FP!TInv', Broken', inflight' \in {inflight, <<>>},
         UNCHANGED <<writer, message, mask, wrote, inbox, submitted, received>>
  PROVE  FP!FInv'
<1>1. CASE inflight' = <<>>
  BY <1>1, FrameAssumptions, FP!ResetFrames, Zenon
<1>2. CASE inflight' = inflight
  <2>1. UNCHANGED FP!writerVars
    BY DEF FP!writerVars
  <2> QED
    BY <1>2, <2>1, FrameAssumptions, FP!BrokenFrames, Zenon
<1> QED
  BY <1>1, <1>2

(* A peer that resets the connection loses what is in flight.              *)
LEMMA CloseOnWire ==
  ASSUME F!AssertionTells, HInv, FP!FInv, conn \in Ctx, R!PeerClose(conn),
         inflight' = IF peer'[conn] = "rst" THEN <<>> ELSE inflight,
         UNCHANGED <<conn, writer, message, mask, wrote, inbox, submitted, received, hangup>>
  PROVE  FP!FInv'
<1>1. peer \in [Ctx -> {"none", "open", "fin", "rst"}] /\ conn # "none"
  BY CtxAssumption DEF HInv, OInv, P!TypeOK
<1>2. peer[conn] \in {"open", "fin"} /\ peer'[conn] \in {"fin", "rst"}
  BY <1>1 DEF R!PeerClose
<1>3. Reset = FALSE /\ Reset' = (peer'[conn] = "rst")
  BY <1>1, <1>2 DEF Reset
<1>4. CASE peer'[conn] = "rst"
  <2>1. Broken' /\ FP!TInv'
    BY <1>3, <1>4, LossTypes DEF Broken, FP!FInv
  <2> QED
    BY <1>4, <2>1, BreakStep
<1>5. CASE peer'[conn] # "rst"
  <2>1. UNCHANGED Broken
    BY <1>3, <1>5 DEF Broken
  <2>2. UNCHANGED FP!vars
    BY <1>5, <2>1 DEF FP!vars, FP!writerVars
  <2> QED
    BY <2>2, FrameStep
<1> QED
  BY <1>4, <1>5

LEMMA CountedInit == ClientInit => Counted
<1> SUFFICES ASSUME ClientInit, NEW c \in Ctx PROVE Len(out[c]) <= rcvd[c]
  BY DEF Counted
<1>1. out[c] = <<>> /\ rcvd[c] = 0
  BY DEF ClientInit, Init, R!Init
<1>2. Len(out[c]) = 0
  BY <1>1
<1> QED
  BY <1>1, <1>2

LEMMA CountedOfCaller ==
  ASSUME OInv, NEW c \in Ctx, c = cur
  PROVE  Len(out[c]) <= rcvd[c]
<1>1. P!TypeOK /\ P!ReaderIntegrity(c)
  BY CtxAssumption DEF OInv, CallerIntegrity
<1>2. Len(out[c]) \in Nat /\ len[c] \in Nat
  BY <1>1, ReaderAssumptions DEF P!TypeOK
<1>3. rcvd[c] = Len(out[c]) + len[c]
  BY <1>1 DEF P!ReaderIntegrity
<1> QED
  BY <1>2, <1>3

CallerCount == \A c \in Ctx : c = cur => Len(out[c]) <= rcvd[c]

LEMMA CallerCounted == OInv' => CallerCount'
<1>1. OInv => CallerCount
  BY CountedOfCaller DEF CallerCount
<1> QED
  BY <1>1, PTL

(* Only the reader of the context inside ws_connect takes bytes.           *)
LEMMA OthersCounted ==
  ASSUME HInv, Client, NEW c \in Ctx, c # cur
  PROVE  out'[c] = out[c] /\ rcvd'[c] = rcvd[c]
<1>1. CASE ws_do_http_upgrade \/ VerifyResponse
  BY <1>1 DEF ws_do_http_upgrade, VerifyResponse, readerVars
<1>2. CASE ReadStatusLine \/ ReadHeaderLine
  <2>1. P!BufReader_read_until(cur) /\ pc \notin {"idle", "dead"} /\ ReadLine
    BY <1>2, SameReadUntil DEF ReadStatusLine, ReadHeaderLine, ReadLine
  <2>2. cur \in Ctx /\ P!TypeOK /\ out'[c] = out[c]
    BY <2>1, ReadLineEffect DEF HInv, OInv
  <2>3. P!CallEffect(cur)
    BY <2>1, <2>2, ReaderAssumptions, P!UntilEffect
  <2>4. rcvd' = rcvd \/ \E k \in 1 .. Capacity : rcvd' = [rcvd EXCEPT ![cur] = @ + k]
    BY <2>3 DEF P!CallEffect, P!NoEffect, P!FillEffect, P!HandOutEffect, P!FillAndHandOutEffect
  <2>5. rcvd'[c] = rcvd[c]
    BY <2>2, <2>4 DEF P!TypeOK
  <2> QED
    BY <2>2, <2>5
<1> QED
  BY <1>1, <1>2 DEF Client

LEMMA CountedStep == HInv /\ Counted /\ [ClientNext]_clientVars => Counted'
<1> SUFFICES ASSUME HInv, Counted, [ClientNext]_clientVars PROVE Counted'
  OBVIOUS
<1>1. OInv'
  BY ClientOInvStep DEF HInv
<1> SUFFICES ASSUME NEW c \in Ctx, c # cur' PROVE Len(out'[c]) <= rcvd'[c]
  BY <1>1, CallerCounted DEF Counted, CallerCount
<1>2. out'[c] = out[c] /\ rcvd'[c] = rcvd[c] => Len(out'[c]) <= rcvd'[c]
  BY DEF Counted
<1>3. CASE \E d \in Ctx : Connect(d)
  <2>1. PICK d \in Ctx : Connect(d)
    BY <1>3
  <2>2. CASE ConnectFails(d)
    BY <1>2, <2>2 DEF ConnectFails, readerVars
  <2>3. CASE ConnectSucceeds(d)
    <3>1. c # d /\ out' = [out EXCEPT ![d] = <<>>] /\ rcvd' = [rcvd EXCEPT ![d] = 0]
      BY <2>3 DEF ConnectSucceeds, R!BufReader_init
    <3> QED
      BY <1>2, <3>1 DEF HInv, OInv, P!TypeOK
  <2> QED
    BY <2>1, <2>2, <2>3 DEF Connect, ws_connect
<1>4. CASE Handshake
  <2>1. CASE c # cur
    BY <1>2, <1>4, <2>1, OthersCounted DEF Handshake
  <2>2. CASE c = cur
    <3>1. VerifyResponse
      BY <1>4, <2>2 DEF Handshake, Client, ws_do_http_upgrade, ReadStatusLine,
         ReadHeaderLine, ReadLine
    <3> QED
      BY <1>2, <3>1 DEF VerifyResponse, readerVars
  <2> QED
    BY <2>1, <2>2
<1>5. CASE SendMessage \/ Write \/ Exit \/ Receive \/ UNCHANGED clientVars
  BY <1>2, <1>5 DEF SendMessage, Write, Exit, Receive, clientVars, vars, readerVars
<1>6. CASE Answer \/ LateClose
  BY <1>2, <1>6 DEF Answer, LateClose, Server, ServerAnswers, ServerCloses,
     R!PeerClose, R!readerVars
<1> QED
  BY <1>3, <1>4, <1>5, <1>6 DEF ClientNext, Main

WireInv ==
  /\ Counted /\ CallFresh /\ SentAfterResponse /\ ResetOverFrames
  /\ FP!FInv

PInv == HInv /\ Ended /\ ProgramTypes /\ WireInv

LEMMA WireInit == ClientInit => WireInv
<1> SUFFICES ASSUME ClientInit PROVE WireInv
  OBVIOUS
<1>1. FP!FInv
  BY SameInit, FrameInit DEF ClientInit
<1>2. cur = "none" /\ submitted = <<>> /\ exit = "running" /\ hangup = "none"
  BY DEF ClientInit, Init, F!Init
<1> QED
  BY <1>1, <1>2, CountedInit DEF WireInv, CallFresh, SentAfterResponse, ResetOverFrames

LEMMA CallerIsNobody == HInv /\ pc = "idle" => cur = "none"
BY DEF HInv, Calling

LEMMA CallerIsContext == HInv /\ pc \notin {"idle", "dead"} => cur \in Ctx /\ cur # "none"
BY CtxAssumption DEF HInv, OInv, CallerIntegrity

(* What a step of the program does to the wire.                            *)
LEMMA FramedStep ==
  ASSUME F!AssertionTells, PInv, [ClientNext]_clientVars
  PROVE  FP!FInv'
<1>1. HInv /\ Ended /\ ProgramTypes /\ FP!FInv /\ CallFresh
  BY DEF PInv, WireInv
<1>2. [FP!Next]_(FP!vars) => FP!FInv'
  BY <1>1, FrameStep
<1>3. UNCHANGED <<writeVars, peer, conn, hangup>> => FP!FInv'
  BY <1>2, FrameStutter
<1>4. ASSUME NEW c \in Ctx, Connect(c) PROVE FP!FInv'
  <2>1. CASE pc' = "upgrade"
    BY <1>1, <1>4, <2>1, FreshConnection, FreshFrames
  <2>2. CASE pc' # "upgrade"
    BY <1>1, <1>3, <1>4, <2>2, FailedConnection
  <2> QED
    BY <2>1, <2>2
<1>5. CASE Handshake
  BY <1>1, <1>3, <1>5, ClientKeepsPeers DEF Handshake, fdVars
<1>6. CASE SendMessage
  BY <1>2, <1>6, SameSend DEF SendMessage, FP!Next
<1>7. CASE Write
  BY <1>1, <1>2, <1>7, WritesOpen, SameWriter DEF Write, FP!Next
<1>8. CASE Receive
  BY <1>2, <1>8, SamePeer DEF Receive, FP!Next
<1>9. CASE Exit
  <2>1. CASE hangup' = "rst"
    <3>1. /\ Broken' /\ inflight' \in {inflight, <<>>}
          /\ UNCHANGED <<writer, message, mask, wrote, inbox, submitted, received>>
      BY <1>9, <2>1 DEF Exit, Broken
    <3>2. FP!TInv'
      BY <1>1, <3>1, LossTypes DEF FP!FInv
    <3> QED
      BY <1>1, <3>1, <3>2, BreakStep
  <2>2. CASE hangup' # "rst"
    <3>1. UNCHANGED <<writeVars, peer, conn>> /\ hangup # "rst"
      BY <1>1, <1>9, <2>2 DEF Exit, Running, Ended, writeVars, fdVars, vars, readerVars
    <3>2. UNCHANGED Broken
      BY <2>2, <3>1 DEF Broken, Reset
    <3>3. UNCHANGED FP!vars
      BY <3>1, <3>2 DEF FP!vars, FP!writerVars, writeVars
    <3> QED
      BY <1>2, <3>3
  <2> QED
    BY <2>1, <2>2
<1>10. CASE Answer
  <2>1. PICK c \in Ctx : Server(c)
    BY <1>10 DEF Answer
  <2>2. CASE ServerAnswers(c)
    BY <1>3, <1>10, <2>2 DEF ServerAnswers, Answer, fdVars
  <2>3. CASE ServerCloses(c)
    <3>1. c = cur /\ R!PeerClose(c) /\ cur # "none"
      BY <2>3, CtxAssumption DEF ServerCloses
    <3>2. conn = c /\ inflight = <<>>
      BY <1>1, <3>1 DEF CallFresh
    <3>3. UNCHANGED <<writeVars, conn, hangup>>
      BY <1>10 DEF Answer, fdVars
    <3> QED
      BY <1>1, <3>1, <3>2, <3>3, CloseOnWire DEF writeVars
  <2> QED
    BY <2>1, <2>2, <2>3 DEF Server
<1>11. CASE LateClose
  <2>1. conn \in Ctx /\ conn' = conn /\ hangup' = hangup
    BY <1>1, <1>11 DEF LateClose, ProgramTypes, fdVars
  <2> QED
    BY <1>1, <1>11, <2>1, CloseOnWire DEF LateClose
<1>12. CASE UNCHANGED clientVars
  BY <1>3, <1>12 DEF clientVars, vars, readerVars, fdVars
<1> QED
  BY <1>4, <1>5, <1>6, <1>7, <1>8, <1>9, <1>10, <1>11, <1>12 DEF ClientNext, Main

(* The frame writer is not used while a connection is established.         *)
LEMMA QuietCall ==
  ASSUME HInv, CallFresh, SendMessage \/ Write \/ Receive
  PROVE  cur = "none"
<1> SUFFICES ASSUME cur # "none" PROVE FALSE
  OBVIOUS
<1>1. writer = "idle" /\ inflight = <<>> /\ inbox = <<>>
  BY DEF CallFresh
<1>2. ~F!Writer
  BY <1>1 DEF F!Writer, F!WriteSome, F!WriteNothing, F!WriteFails, F!Stage
<1>3. ~F!Peer
  <2>1. Len(inbox) = 0
    BY <1>1
  <2>2. ~(Len(inbox) >= 2)
    BY <2>1
  <2> QED
    BY <1>1, <2>2 DEF F!Peer, F!PeerReads, F!PeerDecodes, F!Decodable
<1> QED
  BY <1>2, <1>3, CallerIsNobody DEF SendMessage, Write, Receive

LEMMA CallFreshStep == PInv /\ [ClientNext]_clientVars => CallFresh'
<1> SUFFICES ASSUME PInv, [ClientNext]_clientVars, cur' # "none"
             PROVE  CallFresh'
  BY DEF CallFresh
<1>1. HInv /\ Ended /\ CallFresh
  BY DEF PInv, WireInv
<1>2. cur' = cur /\ UNCHANGED <<conn, writeVars>> => CallFresh'
  BY <1>1 DEF CallFresh, writeVars
<1>3. ASSUME NEW c \in Ctx, Connect(c) PROVE CallFresh'
  <2>1. CASE pc' = "upgrade"
    BY <1>1, <1>3, <2>1, FreshConnection DEF CallFresh, FP!Init
  <2>2. CASE pc' # "upgrade"
    BY <1>1, <1>2, <1>3, <2>2, FailedConnection
  <2> QED
    BY <2>1, <2>2
<1>4. CASE Handshake
  <2>1. cur' = cur \/ cur' = "none"
    BY <1>4 DEF Handshake, Client, ws_do_http_upgrade, ReadStatusLine, ReadHeaderLine,
       ReadLine, VerifyResponse, Return
  <2> QED
    BY <1>2, <1>4, <2>1 DEF Handshake, fdVars
<1>5. CASE SendMessage \/ Write \/ Receive
  <2>1. cur' = cur
    BY <1>5 DEF SendMessage, Write, Receive, vars, callVars
  <2> QED
    BY <1>1, <1>5, <2>1, QuietCall
<1>6. CASE Exit
  BY <1>1, <1>6, CallerIsNobody DEF Exit, vars, callVars
<1>7. CASE Answer
  BY <1>2, <1>7 DEF Answer, Server, ServerAnswers, ServerCloses, callVars, fdVars
<1>8. CASE LateClose
  BY <1>8 DEF LateClose, callVars
<1>9. CASE UNCHANGED clientVars
  BY <1>2, <1>9 DEF clientVars, vars, callVars, fdVars
<1> QED
  BY <1>3, <1>4, <1>5, <1>6, <1>7, <1>8, <1>9 DEF ClientNext, Main

LEMMA SentAfterResponseStep == PInv /\ [ClientNext]_clientVars => SentAfterResponse'
<1> SUFFICES ASSUME PInv, [ClientNext]_clientVars PROVE SentAfterResponse'
  OBVIOUS
<1>1. HInv /\ Ended /\ CallFresh /\ SentAfterResponse /\ ProgramTypes
  BY DEF PInv, WireInv
<1>2. submitted' = submitted /\ conn' = conn /\ (submitted # <<>> => out' = out)
        => SentAfterResponse'
  BY <1>1 DEF SentAfterResponse
<1>3. ASSUME NEW c \in Ctx, Connect(c) PROVE SentAfterResponse'
  <2>1. CASE pc' = "upgrade"
    BY <1>1, <1>3, <2>1, FreshConnection DEF SentAfterResponse, FP!Init
  <2>2. CASE pc' # "upgrade"
    BY <1>1, <1>2, <1>3, <2>2, FailedConnection DEF writeVars
  <2> QED
    BY <2>1, <2>2
<1>4. CASE Handshake
  <2>1. pc \notin {"idle", "dead"}
    BY <1>4 DEF Handshake, Client, ws_do_http_upgrade, ReadStatusLine, ReadHeaderLine,
       VerifyResponse
  <2>2. submitted = <<>>
    BY <1>1, <2>1, CallerIsContext DEF CallFresh
  <2> QED
    BY <1>2, <1>4, <2>2 DEF Handshake, fdVars, writeVars
<1>5. CASE SendMessage
  <2>1. conn \in Ctx /\ cur = "none" /\ result[conn] = "WS_SUCCESS"
    BY <1>1, <1>5, CallerIsNobody DEF SendMessage, ProgramTypes
  <2>2. out[conn] # <<>>
    BY <1>1, <2>1, CtxAssumption DEF HInv, Verified
  <2> QED
    BY <1>5, <2>1, <2>2 DEF SendMessage, SentAfterResponse, vars, readerVars, fdVars
<1>6. CASE Write
  BY <1>2, <1>6 DEF Write, vars, readerVars, fdVars, F!Writer, F!WriteSome, F!WriteNothing,
     F!WriteFails
<1>7. CASE Receive
  BY <1>2, <1>7 DEF Receive, vars, readerVars, fdVars, F!Peer, F!PeerReads, F!PeerDecodes
<1>8. CASE Exit
  BY <1>2, <1>8 DEF Exit, vars, readerVars, fdVars
<1>9. CASE Answer
  BY <1>2, <1>9 DEF Answer, Server, ServerAnswers, ServerCloses, R!PeerClose, R!readerVars,
     fdVars, writeVars
<1>10. CASE LateClose
  BY <1>2, <1>10 DEF LateClose, R!PeerClose, R!readerVars, fdVars
<1>11. CASE UNCHANGED clientVars
  BY <1>2, <1>11 DEF clientVars, vars, readerVars, fdVars, writeVars
<1> QED
  BY <1>3, <1>4, <1>5, <1>6, <1>7, <1>8, <1>9, <1>10, <1>11 DEF ClientNext, Main

LEMMA ResetOverFramesStep == PInv /\ [ClientNext]_clientVars => ResetOverFrames'
<1> SUFFICES ASSUME PInv, [ClientNext]_clientVars, hangup' = "rst", exit' = "EXIT_SUCCESS"
             PROVE  sent'[conn'] # HeaderOf(sent'[conn'])
  BY DEF ResetOverFrames
<1>1. HInv /\ ProgramTypes /\ Counted /\ SentAfterResponse /\ Ended /\ ResetOverFrames
  BY DEF PInv, WireInv
<1>2. CASE Exit
  <2>1. conn' = conn /\ sent' = sent /\ cur = "none" /\ submitted # <<>>
    BY <1>1, <1>2, CallerIsNobody DEF Exit, fdVars, vars, readerVars
  <2>2. CASE hangup = "rst"
    BY <1>1, <1>2, <2>2 DEF Exit, Running, Ended
  <2>3. CASE hangup # "rst"
    <3>1. conn \in Ctx /\ out[conn] # <<>> /\ conn # cur
      BY <1>1, <2>1, CtxAssumption DEF SentAfterResponse
    <3>2. out[conn] = HeaderOf(sent[conn])
      BY <1>1, <3>1, HInvHeader DEF HeaderTakenExactly
    <3>3. Len(out[conn]) <= rcvd[conn]
      BY <1>1, <3>1 DEF Counted
    <3>4. R!Pending(conn) > 0
      BY <1>2, <2>3 DEF Exit
    <3>5. Len(sent[conn]) - rcvd[conn] > 0
      BY <3>4 DEF R!Pending
    <3>6. Len(out[conn]) \in Nat /\ Len(sent[conn]) \in Nat /\ rcvd[conn] \in Nat
      BY <1>1, <3>1 DEF HInv, OInv, P!TypeOK
    <3>7. Len(out[conn]) < Len(sent[conn])
      BY <3>3, <3>5, <3>6
    <3> QED
      BY <2>1, <3>2, <3>6, <3>7
  <2> QED
    BY <2>2, <2>3
<1>3. CASE ~Exit
  <2>1. UNCHANGED <<exit, hangup>>
    BY <1>3 DEF ClientNext, Main, Connect, Handshake, SendMessage, Write, Answer,
       LateClose, Receive, clientVars
  <2>2. exit # "running" /\ pc = "idle" /\ cur = "none"
    BY <1>1, <2>1, CallerIsNobody DEF Ended
  <2>3. ~Handshake /\ ~SendMessage /\ \A c \in Ctx : ~Connect(c)
    BY <2>2 DEF Connect, SendMessage, Running, Handshake, Client, ws_do_http_upgrade,
       ReadStatusLine, ReadHeaderLine, VerifyResponse
  <2>4. ~Answer
    BY <2>2, CtxAssumption DEF Answer, Server, ServerAnswers, ServerCloses
  <2>5. UNCHANGED <<conn, sent>>
    BY <1>3, <2>3, <2>4 DEF ClientNext, Main, Write, LateClose, Receive, clientVars, vars,
       readerVars, fdVars, R!PeerClose
  <2> QED
    BY <1>1, <2>1, <2>5 DEF ResetOverFrames
<1> QED
  BY <1>2, <1>3

LEMMA WireSuffices == PInv => ExitSuccessDelivers
<1> SUFFICES ASSUME PInv, exit = "EXIT_SUCCESS", inflight = <<>>, ~F!Decodable, ~Reset
             PROVE  \/ received = submitted
                    \/ hangup = "rst" /\ sent[conn] # HeaderOf(sent[conn])
  BY DEF ExitSuccessDelivers
<1>1. CASE hangup = "rst"
  BY <1>1 DEF PInv, WireInv, ResetOverFrames
<1>2. CASE hangup # "rst"
  <2>1. FP!FInv /\ writer = "idle" /\ ~FP!Decodable
    BY <1>2, SameDecodable DEF PInv, WireInv, Ended
  <2>2. FP!NoTrailingBytes
    BY <2>1, FrameAssumptions, FP!FInvNoTrailingBytes
  <2> QED
    BY <1>2, <2>1, <2>2 DEF FP!NoTrailingBytes, Broken
<1> QED
  BY <1>1, <1>2

LEMMA PInvInit == ClientInit => PInv
BY HInvInit, EndedInit, ProgramTypesInit, WireInit DEF ClientInit, PInv

LEMMA PInvStep ==
  ASSUME F!AssertionTells, PInv, [ClientNext]_clientVars
  PROVE  PInv'
BY ClientHInvStep, EndedStep, ProgramTypesStep, CountedStep, CallFreshStep,
   SentAfterResponseStep, ResetOverFramesStep, FramedStep DEF PInv, WireInv

(* When the program has returned EXIT_SUCCESS and the server has decoded   *)
(* all it can, it has the message, unless the server reset the connection  *)
(* or had sent frames that the program never reads: whatever the network   *)
(* does, after however many calls of ws_connect.                           *)
THEOREM SuccessDelivers ==
  ASSUME F!AssertionTells
  PROVE  ClientSpec => []ExitSuccessDelivers
<1>1. PInv /\ [ClientNext]_clientVars => PInv'
  BY PInvStep
<1> QED
  BY <1>1, PInvInit, WireSuffices, PTL DEF ClientSpec

-------------------------------------------------------------------------------
(* The program keeps the promise of Session.                               *)

(* A call that has returned left a verdict.                                *)
Concluded == conn # "none" /\ cur = "none" => result[conn] # "none"

SInv == PInv /\ AnswersSent /\ Concluded

LEMMA ConcludedStep == PInv /\ Concluded /\ [ClientNext]_clientVars => Concluded'
<1> SUFFICES ASSUME PInv, Concluded, [ClientNext]_clientVars PROVE Concluded'
  OBVIOUS
<1>1. /\ HInv /\ Ended /\ ProgramTypes /\ CallFresh
      /\ result \in [Ctx -> Outcome] /\ conn \in Ctx \cup {"none"}
  BY DEF PInv, WireInv, HInv, Calling, ProgramTypes
<1>2. UNCHANGED <<conn, cur, result>> => Concluded'
  BY DEF Concluded
<1>3. ASSUME NEW c \in Ctx, Connect(c) PROVE Concluded'
  <2>1. CASE pc' = "upgrade"
    BY <1>1, <1>3, <2>1, FreshConnection, CtxAssumption DEF Concluded
  <2>2. CASE pc' # "upgrade"
    <3>1. conn' = conn /\ cur' = cur /\ pc = "idle"
      BY <1>1, <1>3, <2>2, FailedConnection
    <3>2. result' = [result EXCEPT ![c] = "WS_CONNECTION_FAILURE"]
      BY <1>3, <2>2 DEF Connect, ws_connect, ConnectFails, ConnectSucceeds
    <3> QED
      BY <1>1, <3>1, <3>2 DEF Concluded
  <2> QED
    BY <2>1, <2>2
<1>4. CASE Handshake
  <2>1. pc \notin {"idle", "dead"} /\ conn' = conn
    BY <1>4 DEF Handshake, Client, ws_do_http_upgrade, ReadStatusLine, ReadHeaderLine,
       VerifyResponse, fdVars
  <2>2. conn = cur /\ cur \in Ctx
    BY <1>1, <2>1, CallerIsContext DEF CallFresh
  <2>3. \/ UNCHANGED <<cur, result>>
        \/ \E res \in {"WS_SUCCESS", "WS_CONNECTION_FAILURE"} :
             result' = [result EXCEPT ![cur] = res]
    BY <1>4 DEF Handshake, Client, ws_do_http_upgrade, ReadStatusLine, ReadHeaderLine,
       ReadLine, VerifyResponse, Return
  <2> QED
    BY <1>1, <1>2, <2>1, <2>2, <2>3 DEF Concluded
<1>5. CASE SendMessage \/ Write \/ Exit \/ Receive \/ UNCHANGED clientVars
  BY <1>2, <1>5 DEF SendMessage, Write, Exit, Receive, clientVars, vars, callVars, fdVars
<1>6. CASE Answer \/ LateClose
  BY <1>2, <1>6 DEF Answer, Server, ServerAnswers, ServerCloses, LateClose, callVars, fdVars
<1> QED
  BY <1>3, <1>4, <1>5, <1>6 DEF ClientNext, Main

(* What a call returns is the answer of its server: the status line and    *)
(* the first accept header the parser found are those of the header.       *)
LEMMA VerdictIsAgreement ==
  ASSUME AnswersStartLines, HInv, AnswersSent, VerifyResponse, pc' = "idle"
  PROVE  /\ sent[cur] # <<>>
         /\ cur' = "none"
         /\ result' = [result EXCEPT ![cur] =
                          IF Agrees(sent[cur], request[cur][1])
                            THEN "WS_SUCCESS" ELSE "WS_CONNECTION_FAILURE"]
<1>1. pc = "verify" /\ cur \in Ctx /\ OInv
  BY DEF VerifyResponse, HInv, OInv, CallerIntegrity
<1>2. /\ request[cur] = <<key>> /\ WholeHeader(out[cur])
      /\ IsPrefix(out[cur], sent[cur]) /\ out[cur] \in Seq(Read) /\ sent[cur] \in Seq(Token)
  BY <1>1, OutIsPrefix DEF HInv, Calling
<1>3. Parsed(out[cur], httpLine, headers)
  BY <1>1, SentStartsLines DEF HInv, Calling
<1>4. out[cur] # <<>> /\ sent[cur] # <<>>
  <2>1. out[cur] # <<>>
    BY <1>2 DEF WholeHeader
  <2>2. Len(out[cur]) <= Len(sent[cur])
    BY <1>2 DEF IsPrefix
  <2>3. Len(out[cur]) > 0
    BY <1>2, <2>1
  <2> QED
    BY <1>2, <2>1, <2>2, <2>3
<1>5. out[cur] = HeaderOf(sent[cur])
  BY <1>2, HeaderIsPrefix
<1>6. Agrees(sent[cur], request[cur][1]) <=> Confirms(out[cur], key)
  <2>1. request[cur][1] = key
    BY <1>2
  <2> QED
    BY <1>5, <2>1 DEF Agrees, Confirms, Accepts
<1>7. CASE Return("WS_SUCCESS") /\ _http_status_code(httpLine) = 101 /\
           \E i \in _http_payload_header_get(headers) :
             _ws_verify_websocket_sec_key(key, headers[i])
  <2>1. Confirms(out[cur], key)
    BY <1>2, <1>3, <1>4, <1>7, AcceptedByFirst
  <2> QED
    BY <1>4, <1>6, <1>7, <2>1 DEF Return
<1>8. CASE Return("WS_CONNECTION_FAILURE") /\ _http_status_code(httpLine) \notin {0, 101}
  <2>1. /\ httpLine # <<>> /\ httpLine[1][1] = "status"
        /\ httpLine[1][2] \notin {0, 101}
    BY <1>8 DEF _http_status_code
  <2>2. httpLine[1] = out[cur][1]
    BY <1>3, <2>1 DEF Parsed, StatusParsed
  <2>3. ~Confirms(out[cur], key)
    BY <2>1, <2>2 DEF Confirms
  <2> QED
    BY <1>4, <1>6, <1>8, <2>3 DEF Return
<1> QED
  BY <1>1, <1>7, <1>8 DEF VerifyResponse

LEMMA SessionInit == ClientInit => Abstract!Init
<1> SUFFICES ASSUME ClientInit PROVE Abstract!Init
  OBVIOUS
<1>1. /\ conn = "none" /\ request = [c \in Ctx |-> <<>>] /\ sent = [c \in Ctx |-> <<>>]
      /\ result = [c \in Ctx |-> "none"] /\ submitted = <<>> /\ received = <<>>
      /\ exit = "running"
  BY DEF ClientInit, Init, R!Init, F!Init
<1>2. [c \in Ctx |-> IF c = cur THEN "none" ELSE result[c]] = [c \in Ctx |-> "none"]
  BY <1>1
<1> QED
  BY <1>1, <1>2 DEF Abstract!Init, Abstract!Channel!Init

Verdict == [c \in Ctx |-> IF c = cur THEN "none" ELSE result[c]]

(* Nothing a session promises is about the other steps.                    *)
LEMMA SessionStutter ==
  ASSUME UNCHANGED <<conn, request, sent, cur, result, submitted, received, exit>>
  PROVE  UNCHANGED Abstract!vars
BY DEF Abstract!vars, Abstract!handshakeVars

LEMMA SessionConnect ==
  ASSUME SInv, NEW c \in Ctx, Connect(c)
  PROVE  [Abstract!Next]_(Abstract!vars)
<1>1. /\ HInv /\ Ended /\ ProgramTypes /\ Concluded /\ P!TypeOK
      /\ result \in [Ctx -> Outcome] /\ conn \in Ctx \cup {"none"} /\ sent \in [Ctx -> Seq(Token)]
  BY DEF SInv, PInv, HInv, OInv, Calling, ProgramTypes, P!TypeOK
<1>2. pc = "idle" /\ cur = "none" /\ exit = "running" /\ exit' = exit /\ cur \notin Ctx
  BY <1>1, CallerIsNobody, CtxAssumption DEF Connect, Running, ws_connect
<1>3. ~Abstract!Pending
  BY <1>1, <1>2 DEF Abstract!Pending, Concluded
<1>4. CASE pc' = "upgrade"
  <2>1. ConnectSucceeds(c) /\ FreshWire /\ conn' = c
    BY <1>2, <1>4 DEF Connect, ws_connect, ConnectFails
  <2>2. /\ cur' = c /\ result' = result
        /\ request' = [request EXCEPT ![c] = <<>>] /\ sent' = [sent EXCEPT ![c] = <<>>]
        /\ submitted' = <<>> /\ received' = <<>>
    BY <2>1 DEF ConnectSucceeds, R!BufReader_init, FreshWire
  <2>3. Verdict' = [Verdict EXCEPT ![c] = "none"]
    BY <1>1, <1>2, <2>2 DEF Verdict
  <2>4. Abstract!Open(c)
    BY <1>2, <1>3, <2>1, <2>2, <2>3 DEF Abstract!Open, Verdict
  <2> QED
    BY <2>4 DEF Abstract!Next
<1>5. CASE pc' # "upgrade"
  <2>1. UNCHANGED <<writeVars, conn, cur, sent, exit>>
    BY <1>1, <1>5, FailedConnection
  <2>2. /\ result' = [result EXCEPT ![c] = "WS_CONNECTION_FAILURE"]
        /\ request' = request /\ submitted' = submitted /\ received' = received
    BY <1>5, <2>1 DEF Connect, ws_connect, ConnectFails, ConnectSucceeds, writeVars
  <2>3. Verdict' = [Verdict EXCEPT ![c] = "WS_CONNECTION_FAILURE"]
    BY <1>1, <1>2, <2>1, <2>2 DEF Verdict
  <2>4. Abstract!Fail(c)
    BY <1>2, <1>3, <2>1, <2>2, <2>3 DEF Abstract!Fail, Verdict
  <2> QED
    BY <2>4 DEF Abstract!Next
<1> QED
  BY <1>4, <1>5

LEMMA SessionHandshake ==
  ASSUME AnswersStartLines, SInv, Handshake
  PROVE  [Abstract!Next]_(Abstract!vars)
<1>1. /\ HInv /\ Ended /\ AnswersSent /\ CallFresh
      /\ result \in [Ctx -> Outcome] /\ request \in [Ctx -> Seq(Key)]
  BY DEF SInv, PInv, WireInv, HInv, OInv, Calling
<1>2. pc \notin {"idle", "dead"} /\ UNCHANGED <<conn, submitted, received, exit>>
  BY DEF Handshake, Client, ws_do_http_upgrade, ReadStatusLine, ReadHeaderLine,
     VerifyResponse, fdVars, writeVars
<1>3. conn = cur /\ cur \in Ctx /\ cur # "none" /\ exit = "running"
  BY <1>1, <1>2, CallerIsContext DEF CallFresh, Ended
<1>4. Abstract!Pending
  BY <1>3 DEF Abstract!Pending
<1>5. CASE ws_do_http_upgrade
  <2>1. UNCHANGED <<cur, result, sent>> /\ request[cur] = <<>> /\ key' \in Key
    BY <1>1, <1>5 DEF ws_do_http_upgrade, readerVars, HInv, Calling
  <2>2. CASE request' = [request EXCEPT ![cur] = Append(@, key')]
    <3>1. request' = [request EXCEPT ![conn] = <<key'>>]
      BY <1>1, <1>3, <2>1, <2>2
    <3>2. Abstract!Ask
      BY <1>2, <1>3, <1>4, <2>1, <3>1 DEF Abstract!Ask
    <3> QED
      BY <3>2 DEF Abstract!Next
  <2>3. CASE request' = request
    BY <1>2, <2>1, <2>3, SessionStutter
  <2> QED
    BY <1>5, <2>2, <2>3 DEF ws_do_http_upgrade
<1>6. CASE ReadStatusLine \/ ReadHeaderLine
  BY <1>2, <1>6, SessionStutter DEF ReadStatusLine, ReadHeaderLine, ReadLine,
     R!BufReader_read_until
<1>7. CASE VerifyResponse
  <2>1. UNCHANGED <<request, sent>>
    BY <1>7 DEF VerifyResponse, readerVars
  <2>2. CASE pc' = "idle"
    <3> DEFINE res == IF Agrees(sent[cur], request[cur][1])
                        THEN "WS_SUCCESS" ELSE "WS_CONNECTION_FAILURE"
    <3>1. sent[cur] # <<>> /\ cur' = "none" /\ result' = [result EXCEPT ![cur] = res]
      BY <1>1, <1>7, <2>2, VerdictIsAgreement
    <3> HIDE DEF res
    <3>2. Verdict' = [Verdict EXCEPT ![conn] = res]
      BY <1>1, <1>3, <3>1, CtxAssumption DEF Verdict
    <3>3. Abstract!Return
      BY <1>2, <1>3, <1>4, <2>1, <3>1, <3>2 DEF Abstract!Return, Verdict, res
    <3> QED
      BY <3>3 DEF Abstract!Next
  <2>3. CASE pc' # "idle"
    BY <1>2, <1>7, <2>1, <2>3, SessionStutter DEF VerifyResponse, Return
  <2> QED
    BY <2>2, <2>3
<1> QED
  BY <1>5, <1>6, <1>7 DEF Handshake, Client

LEMMA SessionSend ==
  ASSUME SInv, SendMessage
  PROVE  [Abstract!Next]_(Abstract!vars)
<1>1. HInv /\ ProgramTypes
  BY DEF SInv, PInv
<1>2. /\ cur = "none" /\ conn \in Ctx /\ result[conn] = "WS_SUCCESS" /\ exit = "running"
      /\ UNCHANGED <<conn, request, sent, cur, result, exit>>
  BY <1>1, CallerIsNobody, CtxAssumption
     DEF SendMessage, Running, vars, readerVars, callVars, fdVars, ProgramTypes
<1>3. Abstract!Channel!Submit
  BY DEF SendMessage, F!ws_send_message, Abstract!Channel!Submit
<1>4. Abstract!Submit
  BY <1>2, <1>3, CtxAssumption DEF Abstract!Submit, Abstract!handshakeVars
<1> QED
  BY <1>4 DEF Abstract!Next

LEMMA SessionExit ==
  ASSUME SInv, Exit
  PROVE  [Abstract!Next]_(Abstract!vars)
<1>1. HInv /\ Concluded /\ conn \in Ctx \cup {"none"}
  BY DEF SInv, PInv, ProgramTypes
<1>2. /\ cur = "none" /\ cur \notin Ctx /\ exit = "running"
      /\ UNCHANGED <<conn, request, sent, cur, result, submitted, received>>
  BY <1>1, CallerIsNobody, CtxAssumption
     DEF Exit, Running, vars, readerVars, callVars, fdVars
<1>3. ~Abstract!Pending
  BY <1>1, <1>2 DEF Abstract!Pending, Concluded
<1>4. \/ submitted # <<>> /\ exit' = "EXIT_SUCCESS"
      \/ (\E c \in Ctx : Verdict[c] = "WS_CONNECTION_FAILURE") /\ exit' = "EXIT_FAILURE"
  BY <1>2 DEF Exit, Verdict
<1>5. Abstract!Finish
  BY <1>2, <1>3, <1>4 DEF Abstract!Finish, Abstract!handshakeVars, Verdict
<1> QED
  BY <1>5 DEF Abstract!Next

LEMMA SessionAnswer ==
  ASSUME SInv, Answer
  PROVE  [Abstract!Next]_(Abstract!vars)
<1>1. HInv /\ Ended /\ CallFresh /\ P!TypeOK /\ sent \in [Ctx -> Seq(Token)]
  BY DEF SInv, PInv, WireInv, HInv, OInv, P!TypeOK
<1>2. PICK c \in Ctx : Server(c)
  BY DEF Answer
<1>3. UNCHANGED <<conn, request, cur, result, submitted, received, exit>>
  BY <1>2 DEF Answer, Server, ServerAnswers, ServerCloses, callVars, fdVars, writeVars
<1>4. CASE ServerAnswers(c)
  <2>1. c = cur /\ cur # "none" /\ conn = c /\ sent[c] = <<>> /\ request[c] # <<>>
    BY <1>1, <1>4, CtxAssumption DEF ServerAnswers, CallFresh
  <2>2. exit = "running" /\ Abstract!Pending
    BY <1>1, <2>1 DEF HInv, Calling, Ended, Abstract!Pending
  <2>3. \E s \in Seq(Token) \ {<<>>} : sent' = [sent EXCEPT ![c] = s]
    <3>1. request[c] \in Seq(Key) /\ request[c] # <<>>
      BY <2>1, <1>1 DEF HInv, OInv
    <3>2. request[c][1] \in Key
      BY <3>1
    <3>3. PICK answer \in Response[request[c][1]] : \E n \in 1 .. Len(answer) :
            sent' = [sent EXCEPT ![c] = SubSeq(answer, 1, n)]
      BY <1>4 DEF ServerAnswers
    <3>4. PICK n \in 1 .. Len(answer) : sent' = [sent EXCEPT ![c] = SubSeq(answer, 1, n)]
      BY <3>3
    <3>5. answer \in Seq(Token)
      BY <3>2, ResponseAssumption
    <3>6. SubSeq(answer, 1, n) \in Seq(Token) /\ Len(SubSeq(answer, 1, n)) = n
      BY <3>4, <3>5
    <3>7. SubSeq(answer, 1, n) # <<>>
      BY <3>4, <3>6
    <3> QED
      BY <3>4, <3>6, <3>7
  <2>4. sent'[c] \in Seq(Token) \ {<<>>} /\ sent' = [sent EXCEPT ![c] = sent'[c]]
    BY <1>1, <2>3
  <2>5. Abstract!Answer
    BY <1>3, <2>1, <2>2, <2>4 DEF Abstract!Answer
  <2> QED
    BY <2>5 DEF Abstract!Next
<1>5. CASE ServerCloses(c)
  BY <1>3, <1>5, SessionStutter DEF ServerCloses, R!PeerClose
<1> QED
  BY <1>2, <1>4, <1>5 DEF Server

LEMMA SessionReceive ==
  ASSUME SInv, Receive
  PROVE  [Abstract!Next]_(Abstract!vars)
<1>1. HInv /\ CallFresh /\ FP!FInv /\ Concluded /\ conn \in Ctx \cup {"none"}
  BY DEF SInv, PInv, WireInv, ProgramTypes
<1>2. /\ F!Peer /\ cur = "none" /\ cur \notin Ctx
      /\ UNCHANGED <<conn, request, sent, cur, result, exit, hangup>>
  BY <1>1, QuietCall, CtxAssumption DEF Receive, vars, readerVars, callVars, fdVars
<1>3. CASE F!PeerReads
  BY <1>2, <1>3, SessionStutter DEF F!PeerReads
<1>4. CASE F!PeerDecodes
  <2>1. FP!PeerDecodes
    BY <1>2, <1>4, SamePeerDecodes
  <2>2. /\ Len(received) < Len(submitted)
        /\ received' = Append(received, submitted[Len(received) + 1])
        /\ UNCHANGED submitted
    BY <1>1, <2>1, FrameAssumptions, FP!DecodesNextMessage, Zenon
  <2>3. ~Abstract!Pending
    BY <1>1, <1>2 DEF Abstract!Pending, Concluded
  <2>4. Abstract!Receive
    BY <1>2, <2>2, <2>3
       DEF Abstract!Receive, Abstract!Channel!Receive, Abstract!handshakeVars
  <2> QED
    BY <2>4 DEF Abstract!Next
<1> QED
  BY <1>2, <1>3, <1>4 DEF F!Peer

LEMMA SessionStep ==
  ASSUME AnswersStartLines, SInv, [ClientNext]_clientVars
  PROVE  [Abstract!Next]_(Abstract!vars)
<1>1. ASSUME NEW c \in Ctx, Connect(c) PROVE [Abstract!Next]_(Abstract!vars)
  BY <1>1, SessionConnect
<1>2. CASE Handshake
  BY <1>2, SessionHandshake
<1>3. CASE SendMessage
  BY <1>3, SessionSend
<1>4. CASE Write
  BY <1>4, SessionStutter DEF Write, vars, readerVars, callVars, fdVars, F!Writer,
     F!WriteSome, F!WriteNothing, F!WriteFails
<1>5. CASE Exit
  BY <1>5, SessionExit
<1>6. CASE Answer
  BY <1>6, SessionAnswer
<1>7. CASE LateClose
  BY <1>7, SessionStutter DEF LateClose, R!PeerClose, callVars, fdVars
<1>8. CASE Receive
  BY <1>8, SessionReceive
<1>9. CASE UNCHANGED clientVars
  BY <1>9, SessionStutter DEF clientVars, vars, readerVars, callVars, fdVars, writeVars
<1> QED
  BY <1>1, <1>2, <1>3, <1>4, <1>5, <1>6, <1>7, <1>8, <1>9 DEF ClientNext, Main

(* The program implements Session: on every connection one request, a      *)
(* verdict that is its server's answer to it and to no other, messages     *)
(* only where the server agreed, received in order, each once and          *)
(* unchanged, whatever the network does, also after an exit that resets    *)
(* the connection, and success only after a message was sent.              *)
THEOREM SessionRefinement ==
  ASSUME AnswersStartLines, F!AssertionTells
  PROVE  ClientSpec => ImplementsSession
<1>1. ClientInit => SInv
  BY PInvInit, SentInit DEF ClientInit, SInv, Concluded
<1>2. SInv /\ [ClientNext]_clientVars => SInv'
  BY PInvStep, ClientSentStep, ConcludedStep DEF SInv, PInv
<1>3. SInv /\ [ClientNext]_clientVars => [Abstract!Next]_(Abstract!vars)
  BY SessionStep
<1> QED
  BY <1>1, <1>2, <1>3, SessionInit, PTL DEF ClientSpec, ImplementsSession, Abstract!Spec
===============================================================================
