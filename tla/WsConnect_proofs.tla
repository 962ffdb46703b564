---------------------------- MODULE WsConnect_proofs ----------------------------
(***************************************************************************)
(* What is proved of ws_connect for any number of contexts and calls and   *)
(* any answers: although all contexts share one array, a call sees the     *)
(* bytes of its own connection, takes exactly the response header from it, *)
(* succeeds only when that is verified and dies only of wrong ones.        *)
(*                                                                         *)
(* The proofs about the buffered reader assume that no two readers share   *)
(* an array.  Here they do; what takes the place of that assumption is     *)
(* that only the reader of the context inside ws_connect is used, and that *)
(* BufReader_init empties it.                                              *)
(***************************************************************************)
EXTENDS WsConnect, SequenceTheorems, TLAPS

P == INSTANCE BufReader_proofs
       WITH Reader <- Ctx, Buffer <- {"static"},
            BufferOf <- [c \in Ctx |-> "static"],
            Byte <- Token, Nul <- Tok("nul"), Until <- CRLF,
            NonBlocking <- FALSE, MaxRead <- 0, MaxSent <- MaxLen

VP == INSTANCE Strings_proofs

(* What BufReader assumes of its constants.                                *)
LEMMA ReaderAssumptions ==
  /\ Capacity \in Nat \ {0}
  /\ DestLen \in Nat /\ 0 \in Nat /\ MaxLen \in Nat
  /\ CRLF \in Seq(Token) /\ Len(CRLF) > 0
  /\ [c \in Ctx |-> "static"] \in [Ctx -> {"static"}]
  /\ FALSE \in BOOLEAN
<1>1. Tok("cr") \in Token /\ Tok("lf") \in Token
  BY DEF Token, Space
<1> QED
  BY <1>1, SizeAssumption, BoundAssumption DEF CRLF

-------------------------------------------------------------------------------
(* The reader that is in use has the bytes of its connection.              *)

CallerIntegrity ==
  /\ pc \notin {"idle", "dead"} => cur \in Ctx
  /\ cur # "none" => cur \in Ctx /\ P!ReaderIntegrity(cur)

OInv ==
  /\ P!TypeOK
  /\ request \in [Ctx -> Seq(Key)]
  /\ CallerIntegrity

LEMMA OInvInit == Init => OInv
<1> SUFFICES ASSUME Init PROVE OInv
  OBVIOUS
<1>1. P!Init
  BY DEF Init, R!Init, P!Init, R!Slot, P!Slot, R!NoCall, P!NoCall
<1>2. P!TypeOK
  BY <1>1, ReaderAssumptions, P!InitType
<1> QED
  BY <1>2 DEF Init, OInv, CallerIntegrity

LEMMA ConnectKeeps ==
  ASSUME OInv, NEW c \in Ctx, ws_connect(c)
  PROVE  OInv'
<1>1. CASE ConnectFails(c)
  BY <1>1 DEF ConnectFails, readerVars, OInv, CallerIntegrity, P!TypeOK,
     P!ReaderIntegrity, P!Continues
<1>2. CASE ConnectSucceeds(c)
  <2>1. P!BufReader_init(c) /\ cur' = c /\ request' = [request EXCEPT ![c] = <<>>]
    BY <1>2 DEF ConnectSucceeds, R!BufReader_init, P!BufReader_init, R!NoCall, P!NoCall
  <2>2. P!TypeOK'
    BY <2>1, ReaderAssumptions, P!StepType DEF P!Next, OInv
  <2>3. P!ReaderIntegrity(c)'
    BY <2>1, ReaderAssumptions, P!AttachIntegrity DEF OInv
  <2> QED
    BY <2>1, <2>2, <2>3 DEF OInv, CallerIntegrity
<1> QED
  BY <1>1, <1>2 DEF ws_connect

LEMMA UpgradeKeeps ==
  ASSUME OInv, ws_do_http_upgrade
  PROVE  OInv'
<1>1. UNCHANGED <<readerVars, cur>> /\ pc \notin {"idle", "dead"}
  BY DEF ws_do_http_upgrade
<1>2. cur \in Ctx
  BY <1>1 DEF OInv, CallerIntegrity
<1>3. request' \in [Ctx -> Seq(Key)]
  <2>1. key' \in Key
    BY DEF ws_do_http_upgrade
  <2>2. Append(request[cur], key') \in Seq(Key)
    BY <1>2, <2>1 DEF OInv
  <2>3. CASE request' = [request EXCEPT ![cur] = Append(@, key')]
    BY <1>2, <2>2, <2>3 DEF OInv
  <2>4. CASE request' = request
    BY <2>4 DEF OInv
  <2> QED
    BY <2>3, <2>4 DEF ws_do_http_upgrade
<1> QED
  BY <1>1, <1>2, <1>3 DEF readerVars, OInv, CallerIntegrity, P!TypeOK,
     P!ReaderIntegrity, P!Continues

(* The reader of WsConnect is the one the lemmas are about.                *)
LEMMA SameReadUntil ==
  ASSUME NEW c, R!BufReader_read_until(c)
  PROVE  P!BufReader_read_until(c)
<1>1. \A m, l : R!UntilScan(c, m, l) <=> P!UntilScan(c, m, l)
  BY DEF R!UntilScan, P!UntilScan, R!Matches, P!Matches, R!bs_find, P!bs_find,
     R!Keep, P!Keep, R!Return, P!Return, R!HandOut, P!HandOut, R!MIN, P!MIN,
     R!Buf_copy_raw, P!Buf_copy_raw, R!Buf__advance, P!Buf__advance, R!Slot, P!Slot
<1>2. \A k : R!CanFill(c, k) <=> P!CanFill(c, k)
  BY DEF R!CanFill, P!CanFill, R!Room, P!Room, R!Pending, P!Pending, R!MIN, P!MIN
<1>3. \A k : R!Filled(c, k) = P!Filled(c, k)
  BY DEF R!Filled, P!Filled, R!Slot, P!Slot
<1>4. \A m, l : R!Matches(m, l) = P!Matches(m, l)
  BY DEF R!Matches, P!Matches
<1>5. R!UntilBuffered(c) => P!UntilBuffered(c)
  BY <1>1, <1>4 DEF R!UntilBuffered, P!UntilBuffered
<1>6. R!UntilFilled(c) => P!UntilFilled(c)
  BY <1>1, <1>2, <1>3, <1>4 DEF R!UntilFilled, P!UntilFilled
<1>7. R!UntilFails(c) => P!UntilFails(c)
  BY <1>4 DEF R!UntilFails, P!UntilFails, R!FillFails, P!FillFails, R!Room, P!Room,
     R!Pending, P!Pending, R!Return, P!Return, R!AGAIN, P!AGAIN,
     R!BUFIO_ERROR_BUFFER_FULL, P!BUFIO_ERROR_BUFFER_FULL,
     R!BUFIO_ERROR_CONNECTION_CLOSED, P!BUFIO_ERROR_CONNECTION_CLOSED
<1>8. R!UntilAborts(c) => P!UntilAborts(c)
  BY <1>4 DEF R!UntilAborts, P!UntilAborts, R!FillAborts, P!FillAborts, R!Room,
     P!Room, R!readerVars, P!readerVars
<1> QED
  BY <1>5, <1>6, <1>7, <1>8 DEF R!BufReader_read_until, P!BufReader_read_until,
     R!Live, P!Live

(* Reading a line keeps the integrity of the one reader that is in use;    *)
(* what it does to the array the others were left with does not matter.    *)
LEMMA ReadLineKeeps ==
  ASSUME OInv, ReadLine, pc \notin {"idle", "dead"}
  PROVE  OInv'
<1>1. cur \in Ctx /\ cur' = cur /\ request' = request
  BY DEF ReadLine, OInv, CallerIntegrity
<1>2. P!BufReader_read_until(cur)
  BY SameReadUntil DEF ReadLine
<1>3. P!TypeOK'
  BY <1>1, <1>2, ReaderAssumptions, P!StepType DEF P!Next, OInv
<1>4. P!CallEffect(cur) /\ sent' = sent
  BY <1>1, <1>2, ReaderAssumptions, P!UntilEffect DEF OInv
<1>5. cur # "none" => P!ReaderIntegrity(cur)'
  BY <1>1, <1>4, ReaderAssumptions, P!EffectIntegrity DEF OInv, CallerIntegrity
<1> QED
  BY <1>1, <1>3, <1>5 DEF OInv, CallerIntegrity

LEMMA VerifyKeeps ==
  ASSUME OInv, VerifyResponse
  PROVE  OInv'
<1>1. UNCHANGED <<readerVars, request>>
  BY DEF VerifyResponse
<1>2. (cur' = "none" /\ pc' = "idle") \/ (cur' = cur /\ pc' = "dead")
  BY DEF VerifyResponse, Return
<1> QED
  BY <1>1, <1>2 DEF readerVars, OInv, CallerIntegrity, P!TypeOK,
     P!ReaderIntegrity, P!Continues

(* The answer is the first thing the server sends.                         *)
LEMMA AnswerKeeps ==
  ASSUME OInv, NEW c \in Ctx, ServerAnswers(c)
  PROVE  OInv'
<1>1. /\ c = cur /\ request[c] # <<>> /\ sent[c] = <<>>
      /\ UNCHANGED <<mem, len, rcvd, peer, out, last, aborted, callVars, request>>
  BY DEF ServerAnswers
<1>2. request[c][1] \in Key
  BY <1>1 DEF OInv
<1>3. PICK s \in Seq(Token) : sent' = [sent EXCEPT ![c] = s]
  <2>1. PICK answer \in Response[request[c][1]] :
               \E n \in 1 .. Len(answer) :
                 sent' = [sent EXCEPT ![c] = SubSeq(answer, 1, n)]
    BY DEF ServerAnswers
  <2>2. answer \in Seq(Token)
    BY <1>2, ResponseAssumption
  <2>3. \A n \in 1 .. Len(answer) : SubSeq(answer, 1, n) \in Seq(Token)
    BY <2>2
  <2> QED
    BY <2>1, <2>3
<1>4. P!TypeOK'
  BY <1>1, <1>3 DEF OInv, P!TypeOK
<1>5. cur # "none" => P!ReaderIntegrity(c)'
  <2> SUFFICES ASSUME cur # "none" PROVE P!ReaderIntegrity(c)'
    OBVIOUS
  <2>1. P!ReaderIntegrity(c)
    BY <1>1 DEF OInv, CallerIntegrity
  <2>2. Len(out[c]) = 0 /\ len[c] = 0
    <3>1. Len(sent[c]) = 0
      BY <1>1
    <3>2. Len(out[c]) \in Nat /\ len[c] \in Nat
      BY ReaderAssumptions DEF OInv, P!TypeOK
    <3>3. Len(out[c]) + len[c] <= Len(sent[c])
      BY <2>1 DEF P!ReaderIntegrity, P!Continues
    <3> QED
      BY <3>1, <3>2, <3>3
  <2>3. sent'[c] \in Seq(Token)
    BY <1>4 DEF P!TypeOK
  <2> QED
    BY <1>1, <2>1, <2>2, <2>3 DEF P!ReaderIntegrity, P!Continues
<1> QED
  BY <1>1, <1>4, <1>5 DEF OInv, CallerIntegrity, callVars

(* How a connection ends, during a call or after it, changes no byte.      *)
LEMMA CloseKeeps ==
  ASSUME OInv, NEW c \in Ctx, R!PeerClose(c), UNCHANGED <<pc, cur, request>>
  PROVE  OInv'
<1>1. P!PeerClose(c)
  BY DEF R!PeerClose, P!PeerClose, R!readerVars, P!readerVars
<1>2. P!TypeOK'
  BY <1>1, ReaderAssumptions, P!StepType DEF P!Next, OInv
<1>3. UNCHANGED <<mem, len, rcvd, out, sent>>
  BY <1>1 DEF P!PeerClose, P!readerVars
<1> QED
  BY <1>2, <1>3 DEF OInv, CallerIntegrity, P!ReaderIntegrity, P!Continues

LEMMA StutterKeeps ==
  ASSUME OInv, UNCHANGED vars
  PROVE  OInv'
BY DEF vars, readerVars, callVars, OInv, CallerIntegrity, P!TypeOK,
   P!ReaderIntegrity, P!Continues

LEMMA ClientKeeps ==
  ASSUME OInv, Client
  PROVE  OInv'
<1>1. ReadStatusLine \/ ReadHeaderLine => ReadLine /\ pc \notin {"idle", "dead"}
  BY DEF ReadStatusLine, ReadHeaderLine
<1> QED
  BY <1>1, UpgradeKeeps, ReadLineKeeps, VerifyKeeps DEF Client

LEMMA ServerKeeps ==
  ASSUME OInv, NEW c \in Ctx, Server(c)
  PROVE  OInv'
BY AnswerKeeps, CloseKeeps DEF Server, ServerCloses, callVars

LEMMA OInvStep == OInv /\ [Next]_vars => OInv'
BY ConnectKeeps, ClientKeeps, ServerKeeps, StutterKeeps DEF Next

LEMMA OInvSuffices == OInv => OwnResponseOnly
<1> SUFFICES ASSUME OInv, cur # "none"
             PROVE  out[cur] \o Unread(cur) = SubSeq(sent[cur], 1, rcvd[cur])
  BY DEF OwnResponseOnly
<1>1. out[cur] \o P!Unread(cur) = SubSeq(sent[cur], 1, rcvd[cur])
  BY ReaderAssumptions, P!IntegrityOfSequence DEF OInv, CallerIntegrity
<1> QED
  BY <1>1 DEF Unread, R!Unread, P!Unread, R!Buf_copy_raw, P!Buf_copy_raw, R!MIN, P!MIN

(* Whatever earlier calls and other contexts left in the static array, the *)
(* bytes a call of ws_connect has taken and those still buffered are those *)
(* its own connection delivered, in order.                                 *)
THEOREM OwnResponse == Spec => []OwnResponseOnly
<1>1. Init => OInv
  BY OInvInit
<1>2. OInv /\ [Next]_vars => OInv'
  BY OInvStep
<1>3. OInv => OwnResponseOnly
  BY OInvSuffices
<1> QED
  BY <1>1, <1>2, <1>3, PTL DEF Spec

-------------------------------------------------------------------------------
(* Lines, and where a header ends in the bytes read.                       *)

Read == Token \cup {Tok("nul")}

EndsLine(s) == Len(s) >= 2 /\ EndsAt(s, Len(s) - 1)

(* The delimiter is at the end of a line and nowhere else in it.           *)
IsLine(s) ==
  /\ Len(s) >= 2
  /\ \A i \in 1 .. Len(s) - 1 : EndsAt(s, i) <=> i = Len(s) - 1

NoBlank(s) == \A i \in 1 .. Len(s) - 3 : ~(EndsAt(s, i) /\ EndsAt(s, i + 2))

(* The first blank line is the last thing of a header.                     *)
WholeHeader(s) ==
  /\ Len(s) >= 4
  /\ \A i \in 1 .. Len(s) - 3 : (EndsAt(s, i) /\ EndsAt(s, i + 2)) <=> i = Len(s) - 3

LEMMA CrIsNotLf == Tok("cr") # Tok("lf")
BY DEF Tok

LEMMA ReaderLine ==
  ASSUME NEW s \in Seq(Read), P!Matches(s, Len(s)) = {Len(s) - Len(CRLF)}
  PROVE  IsLine(s)
<1>1. Len(CRLF) = 2 /\ CRLF[1] = Tok("cr") /\ CRLF[2] = Tok("lf") /\ Len(s) \in Nat
  BY DEF CRLF
<1>2. \A i : i \in P!Matches(s, Len(s)) <=> i \in 0 .. Len(s) - 2 /\ EndsAt(s, i + 1)
  BY <1>1 DEF P!Matches, EndsAt
<1>3. Len(s) - 2 \in 0 .. Len(s) - 2
  <2>1. Len(s) - 2 \in P!Matches(s, Len(s))
    BY <1>1
  <2> QED
    BY <1>2, <2>1, Zenon
<1>4. \A i \in 1 .. Len(s) - 1 : i - 1 \in P!Matches(s, Len(s)) <=> EndsAt(s, i)
  <2> TAKE i \in 1 .. Len(s) - 1
  <2>1. i - 1 \in 0 .. Len(s) - 2 /\ (i - 1) + 1 = i
    BY <1>1
  <2>2. i - 1 \in P!Matches(s, Len(s)) <=> EndsAt(s, (i - 1) + 1)
    BY <1>2, <2>1, Zenon
  <2> QED
    BY <2>1, <2>2
<1>5. \A i \in 1 .. Len(s) - 1 : i - 1 \in P!Matches(s, Len(s)) <=> i = Len(s) - 1
  BY <1>1
<1>6. Len(s) >= 2
  BY <1>1, <1>3
<1> QED
  BY <1>4, <1>5, <1>6 DEF IsLine

(* What HeaderEnds finds.                                                  *)
LEMMA BlankIsTwoEnds ==
  ASSUME NEW T, NEW s \in Seq(T), NEW i \in 0 .. Len(s) - 4
  PROVE  i \in HeaderEnds(s) <=> EndsAt(s, i + 1) /\ EndsAt(s, i + 3)
<1> DEFINE four == SubSeq(s, i + 1, i + 4)
<1>1. Len(s) \in Nat /\ i \in Nat
  OBVIOUS
<1>2. four \in Seq(T) /\ Len(four) = 4
  BY <1>1
<1>3. /\ four[1] = s[i + 1] /\ four[2] = s[i + 2]
      /\ four[3] = s[i + 3] /\ four[4] = s[i + 4]
  BY <1>1
<1>4. /\ Blank \in Seq({Tok("cr"), Tok("lf")}) /\ Len(Blank) = 4
      /\ Blank[1] = Tok("cr") /\ Blank[2] = Tok("lf")
      /\ Blank[3] = Tok("cr") /\ Blank[4] = Tok("lf")
  BY DEF Blank, CRLF
<1> HIDE DEF four
<1>5. i \in HeaderEnds(s) <=> four = Blank
  BY DEF HeaderEnds, four
<1>6. four = Blank <=> \A j \in 1 .. 4 : four[j] = Blank[j]
  BY <1>2, <1>4, SeqEqual, SMTT(40)
<1>7. four = Blank <=> EndsAt(s, i + 1) /\ EndsAt(s, i + 3)
  <2>1. (i + 1) + 1 = i + 2 /\ (i + 3) + 1 = i + 4
    BY <1>1
  <2> QED
    BY <1>3, <1>4, <1>6, <2>1 DEF EndsAt
<1> QED
  BY <1>5, <1>7

(* Where two ends of lines meet in a sequence to which a line is appended. *)
LEMMA EndsOfAppended ==
  ASSUME NEW s \in Seq(Read), NEW l \in Seq(Read), s = <<>> \/ EndsLine(s), IsLine(l)
  PROVE  LET t == s \o l
         IN  /\ t \in Seq(Read) /\ Len(t) = Len(s) + Len(l)
             /\ EndsLine(t)
             /\ \A i \in 1 .. Len(s) - 1 : EndsAt(t, i) <=> EndsAt(s, i)
             /\ s # <<>> => ~EndsAt(t, Len(s))
             /\ \A i \in Len(s) + 1 .. Len(t) - 1 : EndsAt(t, i) <=> i = Len(t) - 1
<1> DEFINE t == s \o l
<1>1. /\ t \in Seq(Read) /\ Len(t) = Len(s) + Len(l)
      /\ Len(s) \in Nat /\ Len(l) \in Nat /\ Len(l) >= 2
      /\ \A i \in 1 .. Len(s) : t[i] = s[i]
      /\ \A i \in 1 .. Len(l) : t[Len(s) + i] = l[i]
  BY DEF IsLine
<1> HIDE DEF t
<1>2. \A i \in 1 .. Len(s) - 1 : EndsAt(t, i) <=> EndsAt(s, i)
  <2>1. \A i \in 1 .. Len(s) - 1 : i \in 1 .. Len(s) /\ i + 1 \in 1 .. Len(s)
    BY <1>1
  <2> QED
    BY <1>1, <2>1 DEF EndsAt
<1>3. \A i \in 1 .. Len(l) - 1 : EndsAt(t, Len(s) + i) <=> EndsAt(l, i)
  <2>1. \A i \in 1 .. Len(l) - 1 : (Len(s) + i) + 1 = Len(s) + (i + 1)
    BY <1>1
  <2> QED
    BY <1>1, <2>1 DEF EndsAt
<1>4. \A i \in Len(s) + 1 .. Len(t) - 1 : EndsAt(t, i) <=> i = Len(t) - 1
  <2> SUFFICES ASSUME NEW i \in Len(s) + 1 .. Len(t) - 1
               PROVE  EndsAt(t, i) <=> i = Len(t) - 1
    OBVIOUS
  <2> DEFINE k == i - Len(s)
  <2>1. k \in 1 .. Len(l) - 1 /\ i = Len(s) + k
    BY <1>1
  <2>2. k = Len(l) - 1 <=> i = Len(t) - 1
    BY <1>1
  <2> HIDE DEF k
  <2>3. EndsAt(l, k) <=> k = Len(l) - 1
    BY <2>1 DEF IsLine
  <2> QED
    BY <1>3, <2>1, <2>2, <2>3
<1>5. s # <<>> => ~EndsAt(t, Len(s))
  <2> SUFFICES ASSUME s # <<>>, EndsAt(t, Len(s)) PROVE FALSE
    OBVIOUS
  <2>1. s[Len(s)] = Tok("lf")
    <3>1. (Len(s) - 1) + 1 = Len(s)
      BY <1>1
    <3> QED
      BY <3>1 DEF EndsLine, EndsAt
  <2>2. Len(s) \in 1 .. Len(s)
    BY <1>1
  <2>3. t[Len(s)] = Tok("lf")
    BY <1>1, <2>1, <2>2
  <2> QED
    BY <2>3, CrIsNotLf DEF EndsAt
<1>6. EndsLine(t)
  <2>1. Len(t) - 1 \in Len(s) + 1 .. Len(t) - 1 /\ Len(t) >= 2
    BY <1>1
  <2> QED
    BY <1>4, <2>1 DEF EndsLine
<1> QED
  BY <1>1, <1>2, <1>4, <1>5, <1>6 DEF t

(* A header grows by lines until an empty one is appended.                 *)
LEMMA HeaderGrows ==
  ASSUME NEW s \in Seq(Read), NEW l \in Seq(Read), IsLine(l),
         \/ s = <<>>
         \/ EndsLine(s) /\ NoBlank(s)
  PROVE  /\ EndsLine(s \o l)
         /\ s = <<>> \/ l # CRLF => NoBlank(s \o l)
         /\ s # <<>> /\ l = CRLF => WholeHeader(s \o l)
<1> DEFINE t == s \o l
<1>1. /\ t \in Seq(Read) /\ Len(t) = Len(s) + Len(l)
      /\ EndsLine(t)
      /\ \A i \in 1 .. Len(s) - 1 : EndsAt(t, i) <=> EndsAt(s, i)
      /\ s # <<>> => ~EndsAt(t, Len(s))
      /\ \A i \in Len(s) + 1 .. Len(t) - 1 : EndsAt(t, i) <=> i = Len(t) - 1
  BY EndsOfAppended
<1>2. Len(s) \in Nat /\ Len(l) \in Nat /\ Len(l) >= 2 /\ (s = <<>> <=> Len(s) = 0)
  BY DEF IsLine
<1>3. s # <<>> => Len(s) >= 2 /\ EndsAt(s, Len(s) - 1)
  BY DEF EndsLine
<1> HIDE DEF t
(* Two ends of lines two apart are the last two of a header and its blank line. *)
<1>4. ASSUME NEW i \in 1 .. Len(t) - 3, EndsAt(t, i), EndsAt(t, i + 2)
      PROVE  s # <<>> /\ Len(l) = 2 /\ i = Len(t) - 3
  <2>1. CASE i + 2 <= Len(s) - 1
    <3>1. i \in 1 .. Len(s) - 1 /\ i + 2 \in 1 .. Len(s) - 1 /\ i \in 1 .. Len(s) - 3
      BY <1>2, <2>1
    <3>2. EndsAt(s, i) /\ EndsAt(s, i + 2)
      BY <1>1, <1>4, <3>1
    <3>3. s # <<>>
      BY <1>2, <3>1
    <3> QED
      BY <3>1, <3>2, <3>3 DEF NoBlank
  <2>2. CASE i + 2 = Len(s)
    <3>1. s # <<>>
      BY <1>2, <2>2
    <3> QED
      BY <1>1, <1>4, <2>2, <3>1
  <2>3. CASE i + 2 > Len(s)
    <3>1. i + 2 \in Len(s) + 1 .. Len(t) - 1
      BY <1>1, <1>2, <2>3
    <3>2. i + 2 = Len(t) - 1
      BY <1>1, <1>4, <3>1
    <3>3. i <= Len(s)
      <4> SUFFICES ASSUME i > Len(s) PROVE FALSE
        BY <1>2
      <4>1. i \in Len(s) + 1 .. Len(t) - 1 /\ i # Len(t) - 1
        BY <1>1, <1>2, <3>2
      <4> QED
        BY <1>1, <1>4, <4>1
    <3>4. i >= 1 /\ Len(s) > 0
      BY <1>2, <3>3
    <3>5. i # Len(s)
      BY <1>1, <1>2, <1>4, <3>4
    <3>6. Len(l) = 2
      <4>1. i + 2 = (Len(s) + Len(l)) - 1 /\ i \in Int
        BY <1>1, <1>2, <3>2
      <4>2. \A a, b, k \in Int :
              k <= a /\ k # a /\ k + 2 = (a + b) - 1 /\ b >= 2 => b = 2
        OBVIOUS
      <4>3. Len(s) \in Int /\ Len(l) \in Int /\ Len(l) >= 2
        BY <1>2
      <4> QED
        BY <3>3, <3>5, <4>1, <4>2, <4>3
    <3> QED
      BY <1>2, <3>2, <3>4, <3>6
  <2> QED
    BY <1>2, <2>1, <2>2, <2>3
<1>5. Len(l) = 2 <=> l = CRLF
  <2>1. CASE Len(l) = 2
    <3>1. EndsAt(l, 1)
      <4>1. 1 \in 1 .. Len(l) - 1 /\ 1 = Len(l) - 1
        BY <2>1
      <4> QED
        BY <4>1 DEF IsLine
    <3>2. l[1] = CRLF[1] /\ l[2] = CRLF[2]
      BY <3>1 DEF EndsAt, CRLF
    <3>3. CRLF \in Seq({Tok("cr"), Tok("lf")}) /\ Len(CRLF) = 2
      BY DEF CRLF
    <3>4. \A i \in 1 .. 2 : l[i] = CRLF[i]
      BY <3>2
    <3> QED
      BY <2>1, <3>3, <3>4, SeqEqual
  <2>2. CASE l = CRLF
    BY <2>2 DEF CRLF
  <2> QED
    BY <2>1, <2>2
<1>6. s = <<>> \/ l # CRLF => NoBlank(t)
  BY <1>4, <1>5 DEF NoBlank
<1>7. s # <<>> /\ l = CRLF => WholeHeader(t)
  <2> SUFFICES ASSUME s # <<>>, l = CRLF PROVE WholeHeader(t)
    OBVIOUS
  <2>1. Len(l) = 2 /\ Len(t) = Len(s) + 2 /\ Len(s) >= 2
    BY <1>1, <1>3, <1>5
  <2>2. Len(t) - 3 \in 1 .. Len(s) - 1 /\ Len(t) - 3 = Len(s) - 1
    BY <1>2, <2>1
  <2>3. (Len(t) - 3) + 2 = Len(t) - 1
    BY <1>2, <2>1
  <2>4. EndsAt(t, Len(t) - 3)
    BY <1>1, <1>3, <2>2
  <2>5. EndsAt(t, (Len(t) - 3) + 2)
    BY <1>1, <2>3 DEF EndsLine
  <2> QED
    BY <1>2, <1>4, <2>1, <2>4, <2>5 DEF WholeHeader
<1> QED
  BY <1>1, <1>6, <1>7 DEF t

-------------------------------------------------------------------------------
(* What the parser makes of the lines: a status line or an accept header   *)
(* is told by the token its line starts with.                              *)

LEMMA TokenIsFirst ==
  ASSUME NEW s \in Seq(Read), NEW l \in Seq(Read), s = <<>> \/ EndsLine(s), IsLine(l),
         TokensStartLines(s \o l),
         NEW q \in 1 .. Len(l), l[q][1] \in {"status", "accept"}
  PROVE  q = 1
<1> DEFINE t == s \o l
<1>1. /\ t \in Seq(Read) /\ Len(t) = Len(s) + Len(l)
      /\ s # <<>> => ~EndsAt(t, Len(s))
      /\ \A i \in Len(s) + 1 .. Len(t) - 1 : EndsAt(t, i) <=> i = Len(t) - 1
  BY EndsOfAppended
<1>2. Len(s) \in Nat /\ Len(l) \in Nat /\ (s = <<>> <=> Len(s) = 0)
  OBVIOUS
<1>3. t[Len(s) + q] = l[q] /\ Len(s) + q \in 1 .. Len(t)
  BY <1>2
<1>4. StartsLine(t, Len(s) + q)
  BY <1>3 DEF TokensStartLines
<1> HIDE DEF t
<1>5. CASE Len(s) + q = 1
  BY <1>2, <1>5
<1>6. CASE Len(s) + q > 2 /\ EndsAt(t, (Len(s) + q) - 2)
  <2>1. q # 2
    <3> SUFFICES ASSUME q = 2 PROVE FALSE
      OBVIOUS
    <3>1. (Len(s) + q) - 2 = Len(s) /\ Len(s) > 0
      BY <1>2, <1>6
    <3> QED
      BY <1>1, <1>2, <1>6, <3>1
  <2>2. ~(q > 2)
    <3> SUFFICES ASSUME q > 2 PROVE FALSE
      OBVIOUS
    <3>1. /\ (Len(s) + q) - 2 \in Len(s) + 1 .. Len(t) - 1
          /\ (Len(s) + q) - 2 # Len(t) - 1
      BY <1>1, <1>2
    <3> QED
      BY <1>1, <1>6, <3>1
  <2> QED
    BY <1>2, <2>1, <2>2
<1> QED
  BY <1>4, <1>5, <1>6 DEF StartsLine

LEMMA TrimOfReader == \A l : bs_trim(l) = VP!bs_trim(l)
BY DEF bs_trim, V!bs_trim, VP!bs_trim, V!bs_trim_left, VP!bs_trim_left,
   V!bs_trim_right, VP!bs_trim_right

LEMMA TrimType ==
  ASSUME NEW l \in Seq(Read), IsLine(l)
  PROVE  bs_trim(l) \in Seq(Read)
<1>1. l # <<>> /\ Len(l) \in Nat
  BY DEF IsLine
<1>2. PICK a \in 0 .. Len(l), b \in 1 .. Len(l) : bs_trim(l) = SubSeq(l, a + 1, b)
  BY <1>1, TrimOfReader, VP!TrimCuts
<1> QED
  BY <1>1, <1>2

(* The trimmed line starts with such a token exactly when the line does.   *)
LEMMA TokenSurvivesTrim ==
  ASSUME NEW l \in Seq(Read), IsLine(l),
         \A q \in 1 .. Len(l) : l[q][1] \in {"status", "accept"} => q = 1
  PROVE  LET line == bs_trim(l)
         IN  /\ line \in Seq(Read)
             /\ line # <<>> /\ line[1][1] \in {"status", "accept"} => line[1] = l[1]
             /\ l[1][1] \in {"status", "accept"} => line # <<>> /\ line[1] = l[1]
<1> DEFINE line == bs_trim(l)
<1>1. Len(l) \in Nat /\ Len(l) >= 2 /\ l # <<>>
  BY DEF IsLine
<1>2. PICK a \in 0 .. Len(l), b \in 1 .. Len(l) :
           /\ a <= b
           /\ line = SubSeq(l, a + 1, b)
           /\ \A j \in (1 .. a) \cup (b + 1 .. Len(l)) : l[j] \in Space
           /\ a = b \/ l[a + 1] \notin Space
  <2>1. line = VP!bs_trim(l)
    BY TrimOfReader
  <2> QED
    BY <1>1, <2>1, VP!TrimCuts
<1> HIDE DEF line
<1>3. line \in Seq(Read) /\ Len(line) = b - a /\ (a < b => line[1] = l[a + 1])
  BY <1>1, <1>2
<1>4. ASSUME line # <<>>, line[1][1] \in {"status", "accept"} PROVE line[1] = l[1]
  <2>1. a < b /\ line[1] = l[a + 1] /\ a + 1 \in 1 .. Len(l)
    BY <1>1, <1>2, <1>3, <1>4
  <2> QED
    BY <1>4, <2>1
<1>5. ASSUME l[1][1] \in {"status", "accept"} PROVE line # <<>> /\ line[1] = l[1]
  <2>1. l[1] \notin Space
    BY <1>5 DEF Space, Tok
  <2>2. 1 \notin 1 .. a
    BY <1>2, <2>1
  <2>3. a = 0 /\ a < b
    BY <1>2, <2>2
  <2> QED
    BY <1>1, <1>2, <1>3, <2>3
<1> QED
  BY <1>3, <1>4, <1>5 DEF line

(* What a line appended to a header adds to its accept headers.            *)
Accepts(s) == {p \in 1 .. Len(s) : s[p][1] = "accept"}

LEMMA AcceptsGrow ==
  ASSUME NEW s \in Seq(Read), NEW l \in Seq(Read), s = <<>> \/ EndsLine(s), IsLine(l),
         TokensStartLines(s \o l)
  PROVE  /\ l[1][1] = "accept" => Accepts(s \o l) = Accepts(s) \cup {Len(s) + 1}
         /\ l[1][1] # "accept" => Accepts(s \o l) = Accepts(s)
<1> DEFINE t == s \o l
<1>1. /\ t \in Seq(Read) /\ Len(t) = Len(s) + Len(l)
      /\ Len(s) \in Nat /\ Len(l) \in Nat /\ Len(l) >= 2
      /\ \A i \in 1 .. Len(s) : t[i] = s[i]
      /\ \A i \in 1 .. Len(l) : t[Len(s) + i] = l[i]
  BY DEF IsLine
<1>2. \A q \in 1 .. Len(l) : l[q][1] = "accept" => q = 1
  BY TokenIsFirst
<1> HIDE DEF t
<1>3. \A p \in 1 .. Len(s) : p \in Accepts(t) <=> p \in Accepts(s)
  <2>1. \A p \in 1 .. Len(s) : p \in 1 .. Len(t)
    BY <1>1
  <2> QED
    BY <1>1, <2>1 DEF Accepts
<1>4. \A p \in 1 .. Len(t) : p \notin 1 .. Len(s) =>
         (p \in Accepts(t) <=> p = Len(s) + 1 /\ l[1][1] = "accept")
  <2> SUFFICES ASSUME NEW p \in 1 .. Len(t), p \notin 1 .. Len(s)
               PROVE  p \in Accepts(t) <=> p = Len(s) + 1 /\ l[1][1] = "accept"
    OBVIOUS
  <2> DEFINE q == p - Len(s)
  <2>1. q \in 1 .. Len(l) /\ p = Len(s) + q /\ (q = 1 <=> p = Len(s) + 1)
    BY <1>1
  <2> HIDE DEF q
  <2>2. t[p] = l[q]
    BY <1>1, <2>1
  <2> QED
    BY <1>2, <2>1, <2>2 DEF Accepts
<1>5. Len(s) + 1 \in 1 .. Len(t) /\ Len(s) + 1 \notin 1 .. Len(s)
  BY <1>1
<1>6. Accepts(s) \subseteq 1 .. Len(s) /\ Accepts(t) \subseteq 1 .. Len(t)
  BY DEF Accepts
<1>7. 1 .. Len(s) \subseteq 1 .. Len(t)
  BY <1>1
<1>8. l[1][1] = "accept" => Accepts(t) = Accepts(s) \cup {Len(s) + 1}
  BY <1>3, <1>4, <1>5, <1>6, <1>7
<1>9. l[1][1] # "accept" => Accepts(t) = Accepts(s)
  BY <1>3, <1>4, <1>5, <1>6, <1>7
<1> QED
  BY <1>8, <1>9 DEF t

StatusParsed(s, line) ==
  /\ line # <<>> /\ line[1][1] = "status" => line[1] = s[1]
  /\ s[1][1] = "status" => line # <<>> /\ line[1] = s[1]

(* The first Sec-WebSocket-Accept of the items is the first of the bytes.  *)
AcceptsParsed(s, items) ==
  s[1][1] # "accept" =>
    /\ (\A i \in 1 .. Len(items) : items[i][1][1] # "accept") => Accepts(s) = {}
    /\ \A i \in _http_payload_header_get(items) :
         \E p \in Accepts(s) : items[i][1] = s[p] /\ \A q \in Accepts(s) : p <= q

Parsed(s, line, items) == StatusParsed(s, line) /\ AcceptsParsed(s, items)

LEMMA StatusLineParsed ==
  ASSUME NEW l \in Seq(Read), IsLine(l), TokensStartLines(l)
  PROVE  bs_trim(l) \in Seq(Read) /\ Parsed(l, bs_trim(l), <<>>)
<1>1. <<>> \in Seq(Read) /\ <<>> \o l = l /\ Len(<<>>) = 0 /\ Len(l) \in Nat /\ Len(l) >= 2
  BY DEF IsLine
<1>2. \A q \in 1 .. Len(l) : l[q][1] \in {"status", "accept"} => q = 1
  BY <1>1, TokenIsFirst
<1>3. StatusParsed(l, bs_trim(l)) /\ bs_trim(l) \in Seq(Read)
  BY <1>2, TokenSurvivesTrim DEF StatusParsed
<1>4. l[1][1] # "accept" => Accepts(l) = {}
  BY <1>2 DEF Accepts
<1>5. _http_payload_header_get(<<>>) = {}
  BY <1>1 DEF _http_payload_header_get
<1> QED
  BY <1>3, <1>4, <1>5 DEF Parsed, AcceptsParsed

LEMMA FirstUnchanged ==
  ASSUME NEW s \in Seq(Read), NEW l \in Seq(Read), s # <<>>
  PROVE  (s \o l)[1] = s[1]
<1>1. 1 \in 1 .. Len(s)
  OBVIOUS
<1> QED
  BY <1>1

(* The empty line that ends the headers has no part in them.               *)
LEMMA EmptyLineParsed ==
  ASSUME NEW s \in Seq(Read), NEW l \in Seq(Read), s # <<>>, EndsLine(s), IsLine(l),
         TokensStartLines(s \o l), l = CRLF,
         NEW line, NEW items, Parsed(s, line, items)
  PROVE  Parsed(s \o l, line, items)
<1>1. l[1][1] = "cr"
  BY DEF CRLF, Tok
<1>2. Accepts(s \o l) = Accepts(s)
  BY <1>1, AcceptsGrow
<1>3. \A p \in Accepts(s) : (s \o l)[p] = s[p]
  BY DEF Accepts
<1>4. (s \o l)[1] = s[1]
  BY FirstUnchanged
<1> DEFINE t == s \o l
<1> HIDE DEF t
<1>5. Accepts(t) = Accepts(s) /\ t[1] = s[1] /\ \A p \in Accepts(s) : t[p] = s[p]
  BY <1>2, <1>3, <1>4 DEF t
<1>6. Parsed(t, line, items)
  BY <1>5 DEF Parsed, StatusParsed, AcceptsParsed
<1> QED
  BY <1>6 DEF t

LEMMA HeaderLineParsed ==
  ASSUME NEW s \in Seq(Read), NEW l \in Seq(Read), s # <<>>, EndsLine(s), IsLine(l),
         TokensStartLines(s \o l), bs_trim(l) # <<>>,
         NEW line, NEW items \in Seq(Seq(Read)), Parsed(s, line, items)
  PROVE  Parsed(s \o l, line, Append(items, bs_trim(l)))
<1> DEFINE t == s \o l
           item == bs_trim(l)
           more == Append(items, item)
<1>1. (l[1][1] = "accept" => Accepts(t) = Accepts(s) \cup {Len(s) + 1})
      /\ (l[1][1] # "accept" => Accepts(t) = Accepts(s))
  BY AcceptsGrow
<1>2. /\ item \in Seq(Read)
      /\ item[1][1] \in {"status", "accept"} => item[1] = l[1]
      /\ l[1][1] \in {"status", "accept"} => item[1] = l[1]
  <2>1. \A q \in 1 .. Len(l) : l[q][1] \in {"status", "accept"} => q = 1
    BY TokenIsFirst
  <2> QED
    BY <2>1, TokenSurvivesTrim
<1>3. item[1][1] = "accept" <=> l[1][1] = "accept"
  BY <1>2
<1>4. /\ t[1] = s[1]
      /\ \A p \in Accepts(s) : t[p] = s[p]
      /\ t[Len(s) + 1] = l[1]
      /\ \A p \in Accepts(s) : p \in 1 .. Len(s)
      /\ Len(s) \in Nat
  BY FirstUnchanged DEF Accepts, IsLine
<1>5. /\ Len(items) \in Nat
      /\ Len(more) = Len(items) + 1
      /\ more[Len(items) + 1] = item
      /\ \A i \in 1 .. Len(items) : more[i] = items[i]
  BY <1>2
<1> HIDE DEF t, item, more
<1>6. StatusParsed(t, line)
  BY <1>4 DEF Parsed, StatusParsed
<1>7. ASSUME t[1][1] # "accept", \A i \in 1 .. Len(more) : more[i][1][1] # "accept"
      PROVE  Accepts(t) = {}
  <2>1. 1 .. Len(items) \subseteq 1 .. Len(more) /\ Len(items) + 1 \in 1 .. Len(more)
    BY <1>5
  <2>2. \A i \in 1 .. Len(items) : items[i][1][1] # "accept"
    BY <1>5, <1>7, <2>1
  <2>3. item[1][1] # "accept"
    BY <1>5, <1>7, <2>1
  <2>4. Accepts(s) = {}
    BY <1>4, <1>7, <2>2 DEF Parsed, AcceptsParsed
  <2> QED
    BY <1>1, <1>3, <2>3, <2>4
<1>8. ASSUME t[1][1] # "accept", NEW i \in _http_payload_header_get(more)
      PROVE  \E p \in Accepts(t) : more[i][1] = t[p] /\ \A q \in Accepts(t) : p <= q
  <2>1. /\ i \in 1 .. Len(more)
        /\ more[i][1][1] = "accept"
        /\ \A j \in 1 .. i - 1 : more[j][1][1] # "accept"
    BY DEF _http_payload_header_get
  <2>2. CASE i \in 1 .. Len(items)
    <3>1. 1 .. i - 1 \subseteq 1 .. Len(items)
      BY <1>5, <2>2
    <3>2. i \in _http_payload_header_get(items) /\ more[i][1] = items[i][1]
      BY <1>5, <2>1, <2>2, <3>1 DEF _http_payload_header_get
    <3>3. PICK p \in Accepts(s) : items[i][1] = s[p] /\ \A q \in Accepts(s) : p <= q
      BY <1>4, <1>8, <3>2 DEF Parsed, AcceptsParsed
    <3>4. p \in Accepts(t) /\ t[p] = s[p] /\ p <= Len(s) + 1
      BY <1>1, <1>4
    <3>5. \A q \in Accepts(t) : p <= q
      BY <1>1, <3>3, <3>4
    <3> QED
      BY <3>2, <3>3, <3>4, <3>5
  <2>3. CASE i = Len(items) + 1
    <3>1. \A j \in 1 .. Len(items) : items[j][1][1] # "accept"
      <4>1. i - 1 = Len(items)
        BY <1>5, <2>3
      <4> QED
        BY <1>5, <2>1, <4>1
    <3>2. Accepts(s) = {}
      BY <1>4, <1>8, <3>1 DEF Parsed, AcceptsParsed
    <3>3. more[i] = item /\ item[1][1] = "accept"
      BY <1>5, <2>1, <2>3
    <3>4. Accepts(t) = {Len(s) + 1} /\ item[1] = l[1]
      BY <1>1, <1>2, <1>3, <3>2, <3>3
    <3> QED
      BY <1>4, <3>3, <3>4
  <2> QED
    BY <1>5, <2>1, <2>2, <2>3
<1>9. Parsed(t, line, more)
  BY <1>6, <1>7, <1>8 DEF Parsed, AcceptsParsed
<1> QED
  BY <1>9 DEF t, item, more

-------------------------------------------------------------------------------
(* A call takes its response up to the end of the header.                  *)

IsPrefix(s, t) == Len(s) <= Len(t) /\ \A i \in 1 .. Len(s) : s[i] = t[i]

LEMMA HeaderIsPrefix ==
  ASSUME NEW s \in Seq(Token), NEW o \in Seq(Read), IsPrefix(o, s), WholeHeader(o)
  PROVE  HeaderEnds(s) # {} /\ HeaderOf(s) = o
<1> DEFINE k == Len(o) - 4
<1>1. /\ Len(o) \in Nat /\ Len(s) \in Nat /\ Len(o) <= Len(s) /\ Len(o) >= 4
      /\ k \in 0 .. Len(s) - 4 /\ k + 4 = Len(o) /\ k + 1 = Len(o) - 3
  BY DEF IsPrefix, WholeHeader
<1> HIDE DEF k
<1>2. \A i \in 1 .. Len(o) - 1 : EndsAt(o, i) <=> EndsAt(s, i)
  <2>1. \A i \in 1 .. Len(o) - 1 : i \in 1 .. Len(o) /\ i + 1 \in 1 .. Len(o)
    BY <1>1
  <2> QED
    BY <2>1 DEF EndsAt, IsPrefix
<1>3. \A i \in 0 .. k : i \in HeaderEnds(s) <=> i = k
  <2> TAKE i \in 0 .. k
  <2>1. /\ i \in 0 .. Len(s) - 4 /\ i + 1 \in 1 .. Len(o) - 3
        /\ i + 1 \in 1 .. Len(o) - 1 /\ i + 3 \in 1 .. Len(o) - 1
        /\ i + 3 = (i + 1) + 2 /\ (i + 1 = Len(o) - 3 <=> i = k)
    BY <1>1
  <2>2. i \in HeaderEnds(s) <=> EndsAt(s, i + 1) /\ EndsAt(s, i + 3)
    BY <2>1, BlankIsTwoEnds
  <2>3. i \in HeaderEnds(s) <=> EndsAt(o, i + 1) /\ EndsAt(o, i + 3)
    BY <1>2, <2>1, <2>2
  <2> QED
    <3>1. EndsAt(o, i + 1) /\ EndsAt(o, (i + 1) + 2) <=> i + 1 = Len(o) - 3
      BY <2>1 DEF WholeHeader
    <3> QED
      BY <2>1, <2>3, <3>1
<1>4. HeaderEnds(s) \subseteq 0 .. Len(s) - 4
  BY DEF HeaderEnds
<1>5. k \in HeaderEnds(s) /\ \A j \in HeaderEnds(s) : k <= j
  <2>1. k \in 0 .. k
    BY <1>1
  <2>2. ASSUME NEW j \in HeaderEnds(s), ~(k <= j) PROVE FALSE
    <3>1. j \in 0 .. k /\ j # k
      BY <1>1, <1>4, <2>2
    <3> QED
      BY <1>3, <3>1
  <2> QED
    BY <1>3, <2>1, <2>2
<1> DEFINE least == CHOOSE i \in HeaderEnds(s) : \A j \in HeaderEnds(s) : i <= j
<1>6. least \in HeaderEnds(s) /\ \A j \in HeaderEnds(s) : least <= j
  BY <1>5
<1>7. HeaderOf(s) = SubSeq(s, 1, 4 + least)
  BY <1>5, Zenon DEF HeaderOf
<1> HIDE DEF least
<1>8. 4 + least = Len(o)
  <2>1. least <= k /\ k <= least /\ least \in Int /\ k \in Int
    BY <1>1, <1>4, <1>5, <1>6
  <2> QED
    BY <1>1, <2>1
<1> DEFINE h == SubSeq(s, 1, Len(o))
<1>9. h \in Seq(Token) /\ Len(h) = Len(o) /\ \A i \in 1 .. Len(o) : h[i] = o[i]
  BY <1>1 DEF IsPrefix
<1> HIDE DEF h
<1>10. h = o
  BY <1>9, SeqEqual
<1> QED
  BY <1>5, <1>7, <1>8, <1>10 DEF h

(* Where the program is in a response.                                     *)
Calling ==
  /\ pc = "idle" => cur = "none"
  /\ pc = "upgrade" => request[cur] = <<>>
  /\ pc \in {"upgrade", "status"} => out[cur] = <<>> /\ headers = <<>>
  /\ pc \in {"status", "headers", "verify"} => key \in Key /\ request[cur] = <<key>>
  /\ pc = "headers" => EndsLine(out[cur]) /\ NoBlank(out[cur])
  /\ pc = "verify" => WholeHeader(out[cur])
  /\ pc \in {"headers", "verify"} /\ TokensStartLines(sent[cur]) =>
       Parsed(out[cur], httpLine, headers)
  /\ headers \in Seq(Seq(Read))
  /\ result \in [Ctx -> Outcome]

Finished(c) ==
  c # cur /\ out[c] # <<>> => WholeHeader(out[c]) /\ IsPrefix(out[c], sent[c])

(* A 101 answer whose first accept header is the one for key k.            *)
Confirms(s, k) ==
  /\ s[1] = <<"status", 101>>
  /\ \E p \in Accepts(s) : s[p][2] = k /\ \A q \in Accepts(s) : p <= q

Verified(c) ==
  c # cur /\ result[c] = "WS_SUCCESS" =>
    /\ out[c] # <<>>
    /\ Len(request[c]) = 1
    /\ TokensStartLines(sent[c]) => Confirms(out[c], request[c][1])

HInv == OInv /\ Calling /\ \A c \in Ctx : Finished(c) /\ Verified(c)

LEMMA HInvInit == Init => HInv
<1> SUFFICES ASSUME Init PROVE HInv
  OBVIOUS
<1>1. out = [c \in Ctx |-> <<>>]
  BY DEF Init, R!Init
<1> QED
  BY <1>1, OInvInit DEF Init, HInv, Calling, Finished, Verified, Outcome

(* What concerns a call that has returned is not touched by another.       *)
LEMMA OthersKept ==
  ASSUME NEW c \in Ctx, Finished(c), Verified(c), c # cur,
         out'[c] = out[c], sent'[c] = sent[c], request'[c] = request[c],
         result'[c] \in {result[c], "WS_CONNECTION_FAILURE"}
  PROVE  Finished(c)' /\ Verified(c)'
BY DEF Finished, Verified

LEMMA HInvConnect ==
  ASSUME HInv, NEW c \in Ctx, ws_connect(c)
  PROVE  HInv'
<1>1. OInv'
  BY ConnectKeeps DEF HInv
<1>2. cur = "none" /\ \A d \in Ctx : d # cur
  BY CtxAssumption DEF HInv, Calling, ws_connect
<1>3. CASE ConnectFails(c)
  <2>1. UNCHANGED <<pc, cur, readerVars, request>> /\ pc = "idle" /\ headers' = <<>>
    BY <1>3 DEF ConnectFails, ws_connect
  <2>2. result' = [result EXCEPT ![c] = "WS_CONNECTION_FAILURE"]
    BY <1>3 DEF ConnectFails
  <2>3. /\ result' \in [Ctx -> Outcome]
        /\ \A d \in Ctx : result'[d] \in {result[d], "WS_CONNECTION_FAILURE"}
    BY <2>2 DEF HInv, Calling, Outcome
  <2>4. \A d \in Ctx : Finished(d)' /\ Verified(d)'
    BY <1>2, <2>1, <2>3, OthersKept DEF HInv, readerVars
  <2> QED
    BY <1>1, <2>1, <2>3, <2>4 DEF HInv, Calling
<1>4. CASE ConnectSucceeds(c)
  <2>1. /\ cur' = c /\ pc' = "upgrade" /\ headers' = <<>> /\ result' = result
        /\ request' = [request EXCEPT ![c] = <<>>]
        /\ out' = [out EXCEPT ![c] = <<>>]
        /\ sent' = [sent EXCEPT ![c] = <<>>]
    BY <1>4 DEF ConnectSucceeds, ws_connect, R!BufReader_init
  <2>2. /\ out'[c] = <<>> /\ request'[c] = <<>>
        /\ \A d \in Ctx \ {c} : /\ out'[d] = out[d] /\ sent'[d] = sent[d]
                                /\ request'[d] = request[d] /\ result'[d] = result[d]
    BY <2>1 DEF HInv, OInv, P!TypeOK
  <2>3. \A d \in Ctx \ {c} : Finished(d)' /\ Verified(d)'
    BY <1>2, <2>2, OthersKept DEF HInv
  <2>4. Finished(c)' /\ Verified(c)'
    BY <2>1 DEF Finished, Verified
  <2>5. Calling'
    BY <2>1, <2>2 DEF HInv, Calling
  <2> QED
    BY <1>1, <2>3, <2>4, <2>5 DEF HInv
<1> QED
  BY <1>3, <1>4 DEF ws_connect

LEMMA HInvUpgrade ==
  ASSUME HInv, ws_do_http_upgrade
  PROVE  HInv'
<1>1. OInv' /\ cur \in Ctx
  BY UpgradeKeeps DEF HInv, OInv, CallerIntegrity, ws_do_http_upgrade
<1>2. /\ pc = "upgrade" /\ key' \in Key
      /\ UNCHANGED <<readerVars, cur, result, httpLine, headers>>
  BY DEF ws_do_http_upgrade
<1>3. /\ \A c \in Ctx \ {cur} : request'[c] = request[c]
      /\ \/ pc' = "status" /\ request'[cur] = <<key'>>
         \/ pc' = "dead"
  <2>1. request \in [Ctx -> Seq(Key)] /\ request[cur] = <<>>
    BY <1>2 DEF HInv, OInv, Calling
  <2>2. Append(<<>>, key') = <<key'>>
    OBVIOUS
  <2> QED
    BY <1>1, <2>1, <2>2 DEF ws_do_http_upgrade
<1>4. \A c \in Ctx \ {cur} : Finished(c)' /\ Verified(c)'
  BY <1>2, <1>3, OthersKept DEF HInv, readerVars
<1>5. ASSUME NEW c \in Ctx, c = cur PROVE Finished(c)' /\ Verified(c)'
  BY <1>2, <1>5 DEF Finished, Verified
<1>6. Calling'
  BY <1>2, <1>3 DEF HInv, Calling, readerVars
<1> QED
  BY <1>1, <1>4, <1>5, <1>6 DEF HInv

(* What reading a line does, and what it gives when it succeeds.           *)
LEMMA ReadLineEffect ==
  ASSUME HInv, ReadLine, pc \notin {"idle", "dead"}
  PROVE  /\ OInv' /\ cur \in Ctx
         /\ UNCHANGED <<sent, cur, result, key, request>>
         /\ \A c \in Ctx \ {cur} : out'[c] = out[c]
         /\ out'[cur] \in Seq(Read) /\ IsPrefix(out'[cur], sent[cur])
         /\ ~LineFailed => /\ LineRead \in Seq(Read) /\ IsLine(LineRead)
                           /\ out'[cur] = out[cur] \o LineRead
<1>1. OInv' /\ cur \in Ctx /\ UNCHANGED <<cur, result, key, request>>
  BY ReadLineKeeps DEF HInv, OInv, CallerIntegrity, ReadLine
<1>2. P!BufReader_read_until(cur) /\ P!TypeOK
  BY SameReadUntil DEF ReadLine, HInv, OInv
<1>3. sent' = sent
  BY <1>2 DEF P!BufReader_read_until
<1>4. \A c \in Ctx \ {cur} : out'[c] = out[c]
  BY <1>1, <1>2, ReaderAssumptions, P!OthersLast
<1>5. out'[cur] \in Seq(Read) /\ IsPrefix(out'[cur], sent[cur])
  <2>1. P!TypeOK' /\ P!ReaderIntegrity(cur)'
    BY <1>1, CtxAssumption DEF OInv, CallerIntegrity
  <2>2. /\ out'[cur] \in Seq(Read) /\ sent'[cur] \in Seq(Token) /\ len'[cur] \in Nat
    BY <1>1, <2>1, ReaderAssumptions DEF P!TypeOK, Read
  <2>3. Len(out'[cur]) + len'[cur] <= Len(sent'[cur])
    BY <1>1, <2>1 DEF P!ReaderIntegrity, P!Continues
  <2>4. Len(out'[cur]) <= Len(sent'[cur])
    BY <2>2, <2>3
  <2> QED
    BY <1>1, <1>3, <2>1, <2>2, <2>4 DEF P!ReaderIntegrity, IsPrefix
<1>6. ASSUME ~LineFailed
      PROVE  LineRead \in Seq(Read) /\ IsLine(LineRead) /\ out'[cur] = out[cur] \o LineRead
  <2>1. ~aborted' /\ last'[cur].ret >= 0
    <3>1. last'[cur].ret \in Int
      BY <1>1 DEF OInv, P!TypeOK
    <3> QED
      BY <1>6, <3>1 DEF LineFailed
  <2>2. P!LineAppended(cur)
    BY <1>1, <1>2, <2>1, ReaderAssumptions, P!UntilAppends
  <2>3. PICK l \in Seq(Read) :
          /\ out' = [out EXCEPT ![cur] = @ \o l]
          /\ P!Matches(l, Len(l)) = {Len(l) - Len(CRLF)}
    BY <2>2 DEF P!LineAppended, Read
  <2>4. IsLine(l)
    BY <2>3, ReaderLine
  <2>5. out'[cur] = out[cur] \o l /\ out[cur] \in Seq(Read)
    BY <1>1, <1>2, <2>3 DEF P!TypeOK, Read
  <2>6. LineRead = l
    <3> DEFINE s == out[cur]
               t == s \o l
    <3>1. /\ Len(s) \in Nat /\ Len(l) \in Nat /\ Len(t) = Len(s) + Len(l)
          /\ \A i \in 1 .. Len(l) : t[Len(s) + i] = l[i]
          /\ t \in Seq(Read)
      BY <2>5
    <3> HIDE DEF s, t
    <3> DEFINE u == SubSeq(t, Len(s) + 1, Len(t))
    <3>2. u \in Seq(Read) /\ Len(u) = Len(l) /\ \A i \in 1 .. Len(l) : u[i] = l[i]
      BY <3>1
    <3> HIDE DEF u
    <3>3. u = l
      BY <3>2, SeqEqual
    <3> QED
      BY <2>5, <3>3 DEF LineRead, u, t, s
  <2> QED
    BY <2>4, <2>5, <2>6
<1> QED
  BY <1>1, <1>3, <1>4, <1>5, <1>6

LEMMA PrefixStartsLines ==
  ASSUME NEW s \in Seq(Read), NEW t \in Seq(Token), IsPrefix(s, t), TokensStartLines(t)
  PROVE  TokensStartLines(s)
<1>1. Len(s) \in Nat /\ Len(t) \in Nat /\ Len(s) <= Len(t)
  BY DEF IsPrefix
<1> SUFFICES ASSUME NEW i \in 1 .. Len(s), s[i][1] \in {"status", "accept"}
             PROVE  StartsLine(s, i)
  BY DEF TokensStartLines
<1>2. i \in 1 .. Len(t) /\ t[i] = s[i]
  BY <1>1 DEF IsPrefix
<1>3. StartsLine(t, i)
  BY <1>2 DEF TokensStartLines
<1>4. CASE i > 2 /\ EndsAt(t, i - 2)
  <2>1. i - 2 \in 1 .. Len(s) /\ (i - 2) + 1 \in 1 .. Len(s)
    BY <1>1, <1>4
  <2>2. EndsAt(s, i - 2)
    BY <1>4, <2>1 DEF EndsAt, IsPrefix
  <2> QED
    BY <1>4, <2>2 DEF StartsLine
<1> QED
  BY <1>3, <1>4 DEF StartsLine

(* A line that was read leaves the calls that have returned alone, and the *)
(* one that reads has not.                                                 *)
LEMMA FinishedKept ==
  ASSUME HInv, ReadLine, pc \notin {"idle", "dead"}
  PROVE  \A c \in Ctx : Finished(c)' /\ Verified(c)'
<1>1. /\ UNCHANGED <<sent, cur, result, request>>
      /\ \A c \in Ctx \ {cur} : out'[c] = out[c]
  BY ReadLineEffect
<1>2. \A c \in Ctx \ {cur} : Finished(c)' /\ Verified(c)'
  BY <1>1, OthersKept DEF HInv
<1>3. ASSUME NEW c \in Ctx, c = cur PROVE Finished(c)' /\ Verified(c)'
  BY <1>1, <1>3 DEF Finished, Verified
<1> QED
  BY <1>2, <1>3

LEMMA HInvStatusLine ==
  ASSUME HInv, ReadStatusLine
  PROVE  HInv'
<1>1. /\ ReadLine /\ pc = "status" /\ headers' = headers
      /\ out[cur] = <<>> /\ headers = <<>>
      /\ key \in Key /\ request[cur] = <<key>>
      /\ headers \in Seq(Seq(Read)) /\ result \in [Ctx -> Outcome]
  BY DEF ReadStatusLine, HInv, Calling
<1>2. /\ OInv' /\ cur \in Ctx
      /\ UNCHANGED <<sent, cur, result, key, request>>
      /\ out'[cur] \in Seq(Read) /\ IsPrefix(out'[cur], sent[cur])
      /\ ~LineFailed => /\ LineRead \in Seq(Read) /\ IsLine(LineRead)
                        /\ out'[cur] = out[cur] \o LineRead
  BY <1>1, ReadLineEffect
<1>3. CASE LineFailed
  <2>1. pc' = "dead"
    BY <1>3 DEF ReadStatusLine
  <2> QED
    BY <1>1, <1>2, <2>1, FinishedKept DEF HInv, Calling
<1>4. CASE ~LineFailed
  <2>1. pc' = "headers" /\ httpLine' = bs_trim(LineRead)
    BY <1>4 DEF ReadStatusLine
  <2> DEFINE l == LineRead
  <2> HIDE DEF l
  <2>2. l \in Seq(Read) /\ IsLine(l) /\ out'[cur] = l /\ httpLine' = bs_trim(l)
    BY <1>1, <1>2, <1>4, <2>1 DEF l
  <2>3. EndsLine(l) /\ NoBlank(l)
    <3>1. <<>> \in Seq(Read) /\ <<>> \o l = l
      BY <2>2
    <3>2. EndsLine(<<>> \o l) /\ NoBlank(<<>> \o l)
      BY <2>2, <3>1, HeaderGrows
    <3> QED
      BY <3>1, <3>2
  <2>4. TokensStartLines(sent[cur]) => Parsed(l, bs_trim(l), <<>>)
    <3>1. sent[cur] \in Seq(Token)
      BY <1>2 DEF HInv, OInv, P!TypeOK
    <3> QED
      BY <1>2, <2>2, <3>1, PrefixStartsLines, StatusLineParsed
  <2>5. Calling'
    BY <1>1, <1>2, <2>1, <2>2, <2>3, <2>4 DEF Calling
  <2> QED
    BY <1>1, <1>2, <2>5, FinishedKept DEF HInv
<1> QED
  BY <1>3, <1>4

LEMMA HInvHeaderLine ==
  ASSUME HInv, ReadHeaderLine
  PROVE  HInv'
<1>1. /\ ReadLine /\ pc = "headers" /\ httpLine' = httpLine
      /\ EndsLine(out[cur]) /\ NoBlank(out[cur])
      /\ key \in Key /\ request[cur] = <<key>>
      /\ TokensStartLines(sent[cur]) => Parsed(out[cur], httpLine, headers)
      /\ headers \in Seq(Seq(Read)) /\ result \in [Ctx -> Outcome]
  BY DEF ReadHeaderLine, HInv, Calling
<1>2. /\ OInv' /\ cur \in Ctx
      /\ UNCHANGED <<sent, cur, result, key, request>>
      /\ out'[cur] \in Seq(Read) /\ IsPrefix(out'[cur], sent[cur])
      /\ ~LineFailed => /\ LineRead \in Seq(Read) /\ IsLine(LineRead)
                        /\ out'[cur] = out[cur] \o LineRead
  BY <1>1, ReadLineEffect
<1>3. CASE pc' = "dead" /\ headers' = headers
  BY <1>1, <1>2, <1>3, FinishedKept DEF HInv, Calling
<1>4. CASE ~LineFailed /\ pc' # "dead"
  <2> DEFINE s == out[cur]
             l == LineRead
             item == bs_trim(l)
  <2>1. \/ l = CRLF /\ pc' = "verify" /\ headers' = headers
        \/ /\ l # CRLF /\ pc' = "headers"
           /\ item # <<>> /\ headers' = Append(headers, item)
    BY <1>1, <1>4 DEF ReadHeaderLine
  <2>2. s \in Seq(Read) /\ sent[cur] \in Seq(Token)
    BY <1>2 DEF HInv, OInv, P!TypeOK, Read
  <2>3. l \in Seq(Read) /\ IsLine(l) /\ out'[cur] = s \o l /\ EndsLine(s) /\ NoBlank(s)
    BY <1>1, <1>2, <1>4
  <2>4. s # <<>>
    BY <1>1, <2>2 DEF EndsLine
  <2>5. TokensStartLines(sent[cur]) => TokensStartLines(s \o l)
    BY <1>2, <2>2, <2>3, PrefixStartsLines
  <2>6. TokensStartLines(sent[cur]) => Parsed(s, httpLine, headers)
    BY <1>1
  <2> HIDE DEF s, l, item
  <2>7. CASE l = CRLF /\ pc' = "verify" /\ headers' = headers
    <3>1. WholeHeader(s \o l)
      BY <2>2, <2>3, <2>4, <2>7, HeaderGrows
    <3>2. TokensStartLines(sent[cur]) => Parsed(s \o l, httpLine, headers)
      BY <2>2, <2>3, <2>4, <2>5, <2>6, <2>7, EmptyLineParsed
    <3>3. Calling'
      BY <1>1, <1>2, <2>3, <2>7, <3>1, <3>2 DEF Calling
    <3> QED
      BY <1>1, <1>2, <3>3, FinishedKept DEF HInv
  <2>8. CASE l # CRLF /\ pc' = "headers" /\ item # <<>> /\ headers' = Append(headers, item)
    <3>1. EndsLine(s \o l) /\ NoBlank(s \o l)
      BY <2>2, <2>3, <2>8, HeaderGrows
    <3>2. TokensStartLines(sent[cur]) => Parsed(s \o l, httpLine, headers')
      BY <1>1, <2>2, <2>3, <2>4, <2>5, <2>6, <2>8, HeaderLineParsed DEF item
    <3>3. headers' \in Seq(Seq(Read))
      <4>1. item \in Seq(Read)
        BY <2>3, TrimType DEF item
      <4> QED
        BY <1>1, <2>8, <4>1
    <3>4. Calling'
      BY <1>1, <1>2, <2>3, <2>8, <3>1, <3>2, <3>3 DEF Calling
    <3> QED
      BY <1>1, <1>2, <3>4, FinishedKept DEF HInv
  <2> QED
    BY <2>1, <2>7, <2>8
<1> QED
  BY <1>1, <1>3, <1>4 DEF ReadHeaderLine

(* The value the code compares is that of the first accept header.         *)
LEMMA AcceptedByFirst ==
  ASSUME NEW s \in Seq(Read), NEW line, NEW items, s # <<>>, Parsed(s, line, items),
         NEW k, _http_status_code(line) = 101,
         NEW i \in _http_payload_header_get(items),
         _ws_verify_websocket_sec_key(k, items[i])
  PROVE  Confirms(s, k)
<1>1. line # <<>> /\ line[1][1] = "status" /\ line[1][2] = 101
  BY DEF _http_status_code
<1>2. s[1] = line[1] /\ s[1] \in Read
  BY <1>1 DEF Parsed, StatusParsed
<1>3. s[1] = <<"status", 101>>
  BY <1>1, <1>2 DEF Read, Token, Space, Tok
<1>4. PICK p \in Accepts(s) : items[i][1] = s[p] /\ \A q \in Accepts(s) : p <= q
  BY <1>3 DEF Parsed, AcceptsParsed
<1>5. items[i][1] = <<"accept", k>>
  BY DEF _ws_verify_websocket_sec_key
<1>6. s[p][2] = k
  BY <1>4, <1>5
<1> QED
  BY <1>3, <1>4, <1>6 DEF Confirms

LEMMA HInvVerify ==
  ASSUME HInv, VerifyResponse
  PROVE  HInv'
<1>1. /\ pc = "verify" /\ UNCHANGED <<readerVars, key, request, httpLine, headers>>
      /\ OInv' /\ cur \in Ctx /\ sent' = sent
  BY VerifyKeeps DEF VerifyResponse, HInv, OInv, CallerIntegrity, readerVars
<1>2. /\ key \in Key /\ request[cur] = <<key>> /\ WholeHeader(out[cur])
      /\ TokensStartLines(sent[cur]) => Parsed(out[cur], httpLine, headers)
      /\ headers \in Seq(Seq(Read)) /\ result \in [Ctx -> Outcome]
  BY <1>1 DEF HInv, Calling
<1>3. CASE pc' = "dead" /\ UNCHANGED <<cur, result>>
  <2>1. Calling'
    BY <1>1, <1>2, <1>3 DEF Calling
  <2> QED
    BY <1>1, <1>3, <2>1 DEF HInv, Finished, Verified, readerVars
<1>4. CASE \E res \in {"WS_SUCCESS", "WS_CONNECTION_FAILURE"} : Return(res)
  <2>1. PICK res \in {"WS_SUCCESS", "WS_CONNECTION_FAILURE"} : Return(res)
    BY <1>4
  <2>2. /\ pc' = "idle" /\ cur' = "none" /\ result'[cur] = res
        /\ result' \in [Ctx -> Outcome]
        /\ \A c \in Ctx \ {cur} : result'[c] = result[c]
    BY <1>1, <1>2, <2>1 DEF Return, Outcome
  <2>3. Calling'
    BY <1>1, <1>2, <2>2 DEF Calling
  <2>4. ASSUME NEW c \in Ctx, c # cur PROVE Finished(c)' /\ Verified(c)'
    BY <1>1, <2>2, <2>4, OthersKept DEF HInv, readerVars
  <2>5. IsPrefix(out[cur], sent[cur]) /\ out[cur] \in Seq(Read)
    <3>1. P!TypeOK /\ P!ReaderIntegrity(cur)
      BY <1>1, CtxAssumption DEF HInv, OInv, CallerIntegrity
    <3>2. out[cur] \in Seq(Read) /\ sent[cur] \in Seq(Token) /\ len[cur] \in Nat
      BY <1>1, <3>1, ReaderAssumptions DEF P!TypeOK, Read
    <3>3. Len(out[cur]) + len[cur] <= Len(sent[cur])
      BY <3>1 DEF P!ReaderIntegrity, P!Continues
    <3>4. Len(out[cur]) <= Len(sent[cur])
      BY <3>2, <3>3
    <3> QED
      BY <3>1, <3>2, <3>4 DEF P!ReaderIntegrity, IsPrefix
  <2>6. out[cur] # <<>>
    BY <1>2, <2>5 DEF WholeHeader
  <2>7. ASSUME res = "WS_SUCCESS", TokensStartLines(sent[cur])
        PROVE  Confirms(out[cur], request[cur][1])
    <3>1. /\ _http_status_code(httpLine) = 101
          /\ \E i \in _http_payload_header_get(headers) :
               _ws_verify_websocket_sec_key(key, headers[i])
      <4>1. pc' = "idle" /\ result' # [result EXCEPT ![cur] = "WS_CONNECTION_FAILURE"]
        BY <1>1, <1>2, <2>2, <2>7
      <4>2. ~Return("WS_CONNECTION_FAILURE") /\ pc' # "dead"
        BY <4>1 DEF Return
      <4> QED
        BY <4>2 DEF VerifyResponse
    <3>2. Parsed(out[cur], httpLine, headers) /\ request[cur][1] = key
      BY <1>2, <2>7
    <3>3. PICK i \in _http_payload_header_get(headers) :
                 _ws_verify_websocket_sec_key(key, headers[i])
      BY <3>1
    <3>4. Confirms(out[cur], key)
      BY <2>5, <2>6, <3>1, <3>2, <3>3, AcceptedByFirst
    <3> QED
      BY <3>2, <3>4
  <2>8. ASSUME NEW c \in Ctx, c = cur PROVE Finished(c)' /\ Verified(c)'
    <3>1. Finished(c)'
      BY <1>1, <1>2, <2>5, <2>8 DEF Finished, readerVars
    <3>2. Verified(c)'
      <4>1. result'[c] = "WS_SUCCESS" => res = "WS_SUCCESS"
        BY <2>2, <2>8
      <4>2. Len(request[cur]) = 1
        BY <1>2
      <4> QED
        BY <1>1, <2>6, <2>7, <2>8, <4>1, <4>2 DEF Verified, readerVars
    <3> QED
      BY <3>1, <3>2
  <2> QED
    BY <1>1, <2>3, <2>4, <2>8 DEF HInv
<1> QED
  BY <1>3, <1>4 DEF VerifyResponse

LEMMA HInvAnswer ==
  ASSUME HInv, NEW c \in Ctx, ServerAnswers(c)
  PROVE  HInv'
<1>1. /\ OInv' /\ c = cur /\ pc # "dead" /\ sent[c] = <<>>
      /\ UNCHANGED <<out, callVars, request>>
  BY AnswerKeeps DEF HInv, ServerAnswers
<1>2. \A d \in Ctx \ {c} : sent'[d] = sent[d]
  BY DEF ServerAnswers, HInv, OInv, P!TypeOK
<1>3. pc \notin {"headers", "verify"}
  <2>1. P!TypeOK /\ P!ReaderIntegrity(cur)
    BY <1>1, CtxAssumption DEF HInv, OInv, CallerIntegrity
  <2>2. Len(out[cur]) \in Nat /\ len[cur] \in Nat /\ Len(sent[cur]) = 0
    BY <1>1, <2>1, ReaderAssumptions DEF P!TypeOK
  <2>3. Len(out[cur]) + len[cur] <= Len(sent[cur])
    BY <2>1 DEF P!ReaderIntegrity, P!Continues
  <2>4. Len(out[cur]) = 0
    BY <2>2, <2>3
  <2> QED
    BY <2>4 DEF HInv, Calling, EndsLine, WholeHeader
<1>4. Calling'
  BY <1>1, <1>3 DEF HInv, Calling, callVars
<1>5. \A d \in Ctx \ {c} : Finished(d)' /\ Verified(d)'
  BY <1>1, <1>2, OthersKept DEF HInv, callVars
<1>6. Finished(c)' /\ Verified(c)'
  BY <1>1 DEF Finished, Verified, callVars
<1> QED
  BY <1>1, <1>4, <1>5, <1>6 DEF HInv

(* How a connection ends says nothing about what was read from it.         *)
LEMMA HInvOther ==
  ASSUME HInv, OInv', UNCHANGED <<out, sent, callVars, request>>
  PROVE  HInv'
<1>1. UNCHANGED <<pc, cur, result, key, httpLine, headers>>
  BY DEF callVars
<1> QED
  BY <1>1 DEF HInv, Calling, Finished, Verified

LEMMA HInvClose ==
  ASSUME HInv, NEW c \in Ctx, R!PeerClose(c), UNCHANGED <<callVars, request>>
  PROVE  HInv'
BY CloseKeeps, HInvOther DEF HInv, R!PeerClose, R!readerVars, callVars

LEMMA HInvClient ==
  ASSUME HInv, Client
  PROVE  HInv'
BY HInvUpgrade, HInvStatusLine, HInvHeaderLine, HInvVerify DEF Client

LEMMA HInvServer ==
  ASSUME HInv, NEW c \in Ctx, Server(c)
  PROVE  HInv'
BY HInvAnswer, HInvClose DEF Server, ServerCloses

LEMMA HInvStutter ==
  ASSUME HInv, UNCHANGED vars
  PROVE  HInv'
BY StutterKeeps, HInvOther DEF HInv, vars, readerVars

LEMMA HInvStep == HInv /\ [Next]_vars => HInv'
BY HInvConnect, HInvClient, HInvServer, HInvStutter DEF Next

LEMMA HInvHeader == HInv => HeaderTakenExactly
<1> SUFFICES ASSUME HInv, NEW c \in Ctx, c # cur, out[c] # <<>>
             PROVE  HeaderEnds(sent[c]) # {} /\ out[c] = HeaderOf(sent[c])
  BY DEF HeaderTakenExactly
<1>1. sent[c] \in Seq(Token) /\ out[c] \in Seq(Read)
  BY DEF HInv, OInv, P!TypeOK, Read
<1>2. WholeHeader(out[c]) /\ IsPrefix(out[c], sent[c])
  BY DEF HInv, Finished
<1> QED
  BY <1>1, <1>2, HeaderIsPrefix

(* For any number of contexts and calls, any answers and any cutting of    *)
(* them, a call of ws_connect that returned after a response took its      *)
(* header and nothing behind it.                                           *)
THEOREM HeaderExact == Spec => []HeaderTakenExactly
<1>1. Init => HInv
  BY HInvInit
<1>2. HInv /\ [Next]_vars => HInv'
  BY HInvStep
<1>3. HInv => HeaderTakenExactly
  BY HInvHeader
<1> QED
  BY <1>1, <1>2, <1>3, PTL DEF Spec

-------------------------------------------------------------------------------
(* What a server has sent on a connection is part of an answer.            *)

PartOfAnswer(s) ==
  s = <<>> \/ \E k \in Key : \E answer \in Response[k] : IsPrefix(s, answer)

AnswersSent == \A c \in Ctx : PartOfAnswer(sent[c])

LEMMA SentInit == Init => AnswersSent
BY DEF Init, R!Init, AnswersSent, PartOfAnswer

LEMMA SentConnect ==
  ASSUME HInv, AnswersSent, NEW c \in Ctx, ws_connect(c)
  PROVE  AnswersSent'
<1>1. sent' = sent \/ sent' = [sent EXCEPT ![c] = <<>>]
  BY DEF ws_connect, ConnectFails, ConnectSucceeds, R!BufReader_init, readerVars
<1>2. \A d \in Ctx : sent'[d] = sent[d] \/ sent'[d] = <<>>
  BY <1>1 DEF HInv, OInv, P!TypeOK
<1>3. PartOfAnswer(<<>>)
  BY DEF PartOfAnswer
<1> QED
  BY <1>2, <1>3 DEF AnswersSent

LEMMA SentAnswer ==
  ASSUME HInv, AnswersSent, NEW c \in Ctx, ServerAnswers(c)
  PROVE  AnswersSent'
<1>1. request[c][1] \in Key
  BY DEF ServerAnswers, HInv, OInv
<1>2. PICK answer \in Response[request[c][1]] :
             \E n \in 1 .. Len(answer) : sent' = [sent EXCEPT ![c] = SubSeq(answer, 1, n)]
  BY DEF ServerAnswers
<1>3. PICK n \in 1 .. Len(answer) : sent' = [sent EXCEPT ![c] = SubSeq(answer, 1, n)]
  BY <1>2
<1>4. answer \in Seq(Token)
  BY <1>1, ResponseAssumption
<1> DEFINE s == SubSeq(answer, 1, n)
<1>5. Len(s) = n /\ n <= Len(answer) /\ \A i \in 1 .. n : s[i] = answer[i]
  BY <1>4
<1> HIDE DEF s
<1>6. PartOfAnswer(s)
  BY <1>1, <1>5 DEF PartOfAnswer, IsPrefix
<1>7. \A d \in Ctx : sent'[d] = sent[d] \/ sent'[d] = s
  BY <1>3 DEF HInv, OInv, P!TypeOK, s
<1> QED
  BY <1>6, <1>7 DEF AnswersSent

LEMMA SentKept ==
  ASSUME AnswersSent, UNCHANGED sent
  PROVE  AnswersSent'
BY DEF AnswersSent

LEMMA SentClient ==
  ASSUME HInv, AnswersSent, Client
  PROVE  AnswersSent'
<1>1. ReadStatusLine \/ ReadHeaderLine => ReadLine /\ pc \notin {"idle", "dead"}
  BY DEF ReadStatusLine, ReadHeaderLine
<1>2. sent' = sent
  BY <1>1, ReadLineEffect DEF Client, ws_do_http_upgrade, VerifyResponse, readerVars
<1> QED
  BY <1>2, SentKept

LEMMA SentServer ==
  ASSUME HInv, AnswersSent, NEW c \in Ctx, Server(c)
  PROVE  AnswersSent'
BY SentAnswer, SentKept DEF Server, ServerCloses, R!PeerClose

-------------------------------------------------------------------------------
(* WS_SUCCESS.                                                             *)

LEMMA NothingSent == TokensStartLines(<<>>)
BY DEF TokensStartLines

LEMMA SentStartsLines ==
  ASSUME AnswersStartLines, HInv, AnswersSent, NEW c \in Ctx
  PROVE  TokensStartLines(sent[c])
<1>1. CASE sent[c] = <<>>
  BY <1>1, NothingSent
<1>2. CASE \E k \in Key : \E answer \in Response[k] : IsPrefix(sent[c], answer)
  <2>1. PICK k \in Key : \E answer \in Response[k] : IsPrefix(sent[c], answer)
    BY <1>2
  <2>2. PICK answer \in Response[k] : IsPrefix(sent[c], answer)
    BY <2>1
  <2>3. answer \in Seq(Token) /\ TokensStartLines(answer) /\ sent[c] \in Seq(Read)
    BY ResponseAssumption DEF AnswersStartLines, HInv, OInv, P!TypeOK, Read
  <2> QED
    BY <2>2, <2>3, PrefixStartsLines
<1> QED
  BY <1>1, <1>2 DEF AnswersSent, PartOfAnswer

LEMMA VerifiedSuffices ==
  ASSUME AnswersStartLines
  PROVE  HInv /\ AnswersSent => SuccessIsVerified
<1> SUFFICES ASSUME HInv, AnswersSent, NEW c \in Ctx, c # cur, result[c] = "WS_SUCCESS"
             PROVE  LET header == HeaderOf(sent[c])
                    IN  /\ Len(request[c]) = 1
                        /\ header[1] = <<"status", 101>>
                        /\ \E i \in Accepts(header) :
                             /\ header[i][2] = request[c][1]
                             /\ \A j \in Accepts(header) : i <= j
  BY DEF SuccessIsVerified, Accepts
<1>1. out[c] # <<>> /\ Len(request[c]) = 1 /\ Confirms(out[c], request[c][1])
  BY SentStartsLines DEF HInv, Verified
<1>2. HeaderOf(sent[c]) = out[c]
  BY <1>1, HInvHeader DEF HeaderTakenExactly
<1> QED
  BY <1>1, <1>2 DEF Confirms

(* WS_SUCCESS is returned only for a 101 answer to this connection's one   *)
(* request whose first Sec-WebSocket-Accept was computed from its key.     *)
THEOREM SuccessVerified ==
  ASSUME AnswersStartLines
  PROVE  Spec => []SuccessIsVerified
<1> DEFINE VInv == HInv /\ AnswersSent
<1>1. Init => VInv
  BY HInvInit, SentInit
<1>2. VInv /\ [Next]_vars => VInv'
  BY HInvStep, SentConnect, SentClient, SentServer, SentKept DEF Next, vars, readerVars
<1>3. VInv => SuccessIsVerified
  BY VerifiedSuffices
<1> QED
  BY <1>1, <1>2, <1>3, PTL DEF Spec

-------------------------------------------------------------------------------
(* What ends the process.                                                  *)

LEMMA PrefixWellFormed ==
  ASSUME NEW s \in Seq(Read), NEW t \in Seq(Token), IsPrefix(s, t), WellFormed(t)
  PROVE  WellFormed(s)
<1>1. Len(s) \in Nat /\ Len(t) \in Nat /\ Len(s) <= Len(t) /\ DestLen \in Nat
  BY SizeAssumption DEF IsPrefix
<1>2. \A i \in 1 .. Len(s) : i \in 1 .. Len(t) /\ s[i] = t[i]
  BY <1>1 DEF IsPrefix
<1>3. TokensStartLines(s)
  BY PrefixStartsLines DEF WellFormed
<1>4. PairedBreaks(s)
  <2> SUFFICES ASSUME NEW i \in 1 .. Len(s)
               PROVE  /\ s[i] = Tok("cr") /\ i < Len(s) => s[i + 1] = Tok("lf")
                      /\ s[i] = Tok("lf") => i > 1 /\ s[i - 1] = Tok("cr")
    BY DEF PairedBreaks
  <2>1. /\ t[i] = Tok("cr") /\ i < Len(t) => t[i + 1] = Tok("lf")
        /\ t[i] = Tok("lf") => i > 1 /\ t[i - 1] = Tok("cr")
    BY <1>2 DEF WellFormed, PairedBreaks
  <2>2. s[i] = t[i] /\ i \in Nat
    BY <1>2
  <2>3. i < Len(s) => i < Len(t) /\ i + 1 \in 1 .. Len(s)
    BY <1>1, <2>2
  <2>4. i > 1 => i - 1 \in 1 .. Len(s)
    BY <1>1
  <2> QED
    BY <1>2, <2>1, <2>2, <2>3, <2>4
<1>5. AcceptsAlone(s)
  <2> SUFFICES ASSUME NEW i \in 1 .. Len(s) - 1, s[i][1] = "accept"
               PROVE  s[i + 1] \in Space
    BY DEF AcceptsAlone
  <2>1. i \in 1 .. Len(s) /\ i + 1 \in 1 .. Len(s) /\ i \in 1 .. Len(t) - 1
    BY <1>1
  <2> QED
    BY <1>2, <2>1 DEF WellFormed, AcceptsAlone
<1>6. LinesFit(s)
  <2> SUFFICES ASSUME NEW i \in 1 .. Len(s) - (DestLen + 1), StartsLine(s, i)
               PROVE  \E j \in i .. i + DestLen - 1 : EndsAt(s, j)
    BY DEF LinesFit
  <2>1. i \in 1 .. Len(t) - (DestLen + 1) /\ i \in Nat /\ i >= 1
    BY <1>1
  <2>2. StartsLine(t, i)
    <3>1. i > 2 => i - 2 \in 1 .. Len(s) /\ (i - 2) + 1 \in 1 .. Len(s)
      BY <1>1
    <3> QED
      BY <1>2, <3>1 DEF StartsLine, EndsAt
  <2>3. PICK j \in i .. i + DestLen - 1 : EndsAt(t, j)
    BY <2>1, <2>2 DEF WellFormed, LinesFit
  <2>4. j \in 1 .. Len(s) /\ j + 1 \in 1 .. Len(s)
    BY <1>1, <2>1
  <2>5. EndsAt(s, j)
    BY <1>2, <2>3, <2>4 DEF EndsAt
  <2> QED
    BY <2>5
<1> QED
  BY <1>3, <1>4, <1>5, <1>6 DEF WellFormed

(* No line of such an answer is too long for the reader.                   *)
LEMMA NoLongLine ==
  ASSUME NEW c \in Ctx, P!TypeOK, out[c] = <<>> \/ EndsLine(out[c]),
         IsPrefix(out[c], sent[c]), WellFormed(sent[c])
  PROVE  ~P!LongLine(c)
<1> SUFFICES ASSUME P!LongLine(c) PROVE FALSE
  OBVIOUS
<1> DEFINE n == Len(out[c])
<1>1. /\ n \in Nat /\ Len(sent[c]) \in Nat /\ DestLen \in Nat
      /\ Len(CRLF) = 2 /\ CRLF[1] = Tok("cr") /\ CRLF[2] = Tok("lf")
  <2>1. out[c] \in Seq(Read) /\ sent[c] \in Seq(Token)
    BY DEF P!TypeOK, Read
  <2>2. Len(CRLF) = 2 /\ CRLF[1] = Tok("cr") /\ CRLF[2] = Tok("lf")
    BY DEF CRLF
  <2> QED
    BY <2>1, <2>2, SizeAssumption
<1>2. PICK idx \in Nat :
        /\ idx >= DestLen
        /\ Len(out[c]) + idx + Len(CRLF) <= Len(sent[c])
        /\ \A k \in 0 .. idx - 1 :
             \E j \in 1 .. Len(CRLF) : sent[c][Len(out[c]) + k + j] # CRLF[j]
  BY DEF P!LongLine
<1>3. StartsLine(sent[c], n + 1)
  <2>1. CASE out[c] = <<>>
    BY <2>1 DEF StartsLine
  <2>2. CASE EndsLine(out[c])
    <3>1. n >= 2 /\ EndsAt(out[c], n - 1)
      BY <2>2 DEF EndsLine
    <3>2. /\ n - 1 \in 1 .. n /\ (n - 1) + 1 \in 1 .. n
          /\ (n + 1) - 2 = n - 1 /\ n + 1 > 2
      BY <1>1, <3>1
    <3>3. EndsAt(sent[c], n - 1)
      BY <3>1, <3>2 DEF EndsAt, IsPrefix
    <3> QED
      BY <3>2, <3>3 DEF StartsLine
  <2> QED
    BY <2>1, <2>2
<1>4. /\ n + idx + 2 <= Len(sent[c])
      /\ \A k \in 0 .. idx - 1 : ~EndsAt(sent[c], n + k + 1)
  <2>1. n + idx + 2 <= Len(sent[c])
    BY <1>1, <1>2
  <2>2. ASSUME NEW k \in 0 .. idx - 1, EndsAt(sent[c], n + k + 1) PROVE FALSE
    <3>1. PICK j \in 1 .. 2 : sent[c][Len(out[c]) + k + j] # CRLF[j]
      BY <1>1, <1>2
    <3>2. n + k + 2 = (n + k + 1) + 1
      BY <1>1
    <3>3. sent[c][n + k + 1] = CRLF[1] /\ sent[c][n + k + 2] = CRLF[2]
      BY <1>1, <2>2, <3>2 DEF EndsAt
    <3>4. j = 1 \/ j = 2
      OBVIOUS
    <3> QED
      BY <3>1, <3>3, <3>4
  <2> QED
    BY <2>1, <2>2
<1> HIDE DEF n
<1>5. n + 1 \in 1 .. Len(sent[c]) - (DestLen + 1)
  <2>1. \A a, b, d, e \in Nat : e >= d /\ a + e + 2 <= b => a + 1 \in 1 .. b - (d + 1)
    OBVIOUS
  <2>2. n \in Nat /\ Len(sent[c]) \in Nat /\ DestLen \in Nat /\ idx >= DestLen
    BY <1>1, <1>2
  <2> QED
    BY <1>4, <2>1, <2>2
<1>6. PICK j \in n + 1 .. (n + 1) + DestLen - 1 : EndsAt(sent[c], j)
  BY <1>3, <1>5 DEF WellFormed, LinesFit
<1> DEFINE k == j - (n + 1)
<1>7. k \in 0 .. idx - 1 /\ n + k + 1 = j
  BY <1>1, <1>2
<1> HIDE DEF k
<1> QED
  BY <1>4, <1>6, <1>7

(* The header of an answer reaches beyond lines without an empty one.      *)
LEMMA HeaderReaches ==
  ASSUME NEW s \in Seq(Read), NEW t \in Seq(Token), NoBlank(s), IsPrefix(s, t),
         Len(s) < Len(t)
  PROVE  /\ Len(HeaderOf(t)) \in Nat
         /\ Len(s) + 1 <= Len(HeaderOf(t))
         /\ HeaderOf(t)[Len(s) + 1] = t[Len(s) + 1]
<1>1. Len(s) \in Nat /\ Len(t) \in Nat
  OBVIOUS
<1>2. CASE HeaderEnds(t) = {}
  BY <1>1, <1>2 DEF HeaderOf
<1>3. CASE HeaderEnds(t) # {}
  <2> DEFINE least == CHOOSE i \in HeaderEnds(t) : \A j \in HeaderEnds(t) : i <= j
  <2>1. HeaderEnds(t) \subseteq 0 .. Len(t) - 4
    BY DEF HeaderEnds
  <2>2. HeaderEnds(t) \subseteq Nat
    BY <1>1, <2>1
  <2>3. \E i \in HeaderEnds(t) : \A j \in HeaderEnds(t) : i <= j
    BY <1>3, <2>2, VP!Least
  <2>4. least \in HeaderEnds(t)
    BY <2>3
  <2>5. HeaderOf(t) = SubSeq(t, 1, 4 + least)
    BY <1>3, Zenon DEF HeaderOf
  <2> HIDE DEF least
  <2>6. least \in 0 .. Len(t) - 4 /\ 4 + least \in 1 .. Len(t) /\ least \in Nat
    BY <1>1, <2>1, <2>4
  <2>7. EndsAt(t, least + 1) /\ EndsAt(t, least + 3)
    BY <2>4, <2>6, BlankIsTwoEnds
  <2>8. Len(s) + 1 <= 4 + least
    <3> SUFFICES ASSUME 4 + least <= Len(s) PROVE FALSE
      BY <1>1, <2>6
    <3>1. /\ least + 1 \in 1 .. Len(s) - 3
          /\ least + 1 \in 1 .. Len(s) /\ (least + 1) + 1 \in 1 .. Len(s)
          /\ least + 3 \in 1 .. Len(s) /\ (least + 3) + 1 \in 1 .. Len(s)
          /\ (least + 1) + 2 = least + 3
      BY <1>1, <2>6
    <3>2. EndsAt(s, least + 1) /\ EndsAt(s, least + 3)
      BY <2>7, <3>1 DEF EndsAt, IsPrefix
    <3> QED
      BY <3>1, <3>2 DEF NoBlank
  <2> DEFINE h == SubSeq(t, 1, 4 + least)
  <2>9. Len(h) = 4 + least /\ \A i \in 1 .. 4 + least : h[i] = t[i]
    BY <2>6
  <2> HIDE DEF h
  <2>10. Len(s) + 1 \in 1 .. 4 + least
    BY <1>1, <2>6, <2>8
  <2> QED
    BY <2>5, <2>6, <2>8, <2>9, <2>10 DEF h
<1> QED
  BY <1>2, <1>3

WrongHeader(header, k) ==
  \/ header[1] \notin {"status"} \X {101, 400}
  \/ Tok("sp") \in {header[i] : i \in 2 .. Len(header)}
  \/ /\ header[1] = <<"status", 101>>
     /\ ~\E i \in Accepts(header) : /\ header[i][2] = k
                                   /\ \A j \in Accepts(header) : i <= j

WrongAnswer(s, k) == WrongHeader(HeaderOf(s), k)

(* A line of nothing but white space starts with a space.                  *)
LEMMA WhiteLine ==
  ASSUME NEW s \in Seq(Read), NEW l \in Seq(Read), NEW t \in Seq(Token), NEW k,
         s # <<>>, EndsLine(s), NoBlank(s), IsLine(l), l # CRLF, bs_trim(l) = <<>>,
         IsPrefix(s \o l, t), WellFormed(t)
  PROVE  WrongAnswer(t, k)
<1> DEFINE u == s \o l
<1>1. /\ Len(s) \in Nat /\ Len(l) \in Nat /\ Len(l) >= 2 /\ Len(s) >= 2 /\ l # <<>>
      /\ u \in Seq(Read) /\ Len(u) = Len(s) + Len(l)
      /\ \A i \in 1 .. Len(s) : u[i] = s[i]
      /\ \A i \in 1 .. Len(l) : u[Len(s) + i] = l[i]
  BY DEF IsLine, EndsLine
<1>2. PairedBreaks(u)
  BY <1>1, PrefixWellFormed DEF WellFormed
<1> HIDE DEF u
<1>3. l[1] \in Space
  <2>1. PICK a \in 0 .. Len(l), b \in 1 .. Len(l) :
           /\ a <= b
           /\ bs_trim(l) = SubSeq(l, a + 1, b)
           /\ \A j \in (1 .. a) \cup (b + 1 .. Len(l)) : l[j] \in Space
    BY <1>1, TrimOfReader, VP!TrimCuts
  <2>2. Len(SubSeq(l, a + 1, b)) = b - a
    BY <1>1, <2>1
  <2>3. Len(SubSeq(l, a + 1, b)) = 0
    <3>1. SubSeq(l, a + 1, b) = <<>>
      BY <2>1, Zenon
    <3> QED
      BY <3>1
  <2>4. 1 \in 1 .. a
    <3>1. b - a = 0
      BY <2>2, <2>3
    <3> QED
      BY <1>1, <3>1
  <2> QED
    BY <2>1, <2>4
<1>4. l[1] # Tok("lf")
  <2> SUFFICES ASSUME l[1] = Tok("lf") PROVE FALSE
    OBVIOUS
  <2>1. /\ Len(s) + 1 \in 1 .. Len(u) /\ (Len(s) + 1) - 1 = Len(s)
        /\ Len(s) \in 1 .. Len(s) /\ 1 \in 1 .. Len(l)
    BY <1>1
  <2>2. u[Len(s) + 1] = Tok("lf")
    BY <1>1, <2>1
  <2>3. u[Len(s)] = Tok("cr")
    BY <1>2, <2>1, <2>2 DEF PairedBreaks
  <2>4. s[Len(s)] = Tok("lf")
    <3>1. (Len(s) - 1) + 1 = Len(s)
      BY <1>1
    <3> QED
      BY <3>1 DEF EndsLine, EndsAt
  <2> QED
    BY <1>1, <2>1, <2>3, <2>4, CrIsNotLf
<1>5. l[1] # Tok("cr")
  <2> SUFFICES ASSUME l[1] = Tok("cr") PROVE FALSE
    OBVIOUS
  <2>1. /\ Len(s) + 1 \in 1 .. Len(u) /\ Len(s) + 1 < Len(u)
        /\ (Len(s) + 1) + 1 = Len(s) + 2 /\ 1 \in 1 .. Len(l) /\ 2 \in 1 .. Len(l)
    BY <1>1
  <2>2. u[Len(s) + 1] = Tok("cr")
    BY <1>1, <2>1
  <2>3. u[Len(s) + 2] = Tok("lf")
    BY <1>2, <2>1, <2>2 DEF PairedBreaks
  <2>4. l[2] = Tok("lf")
    BY <1>1, <2>1, <2>3
  <2>5. EndsAt(l, 1)
    BY <2>4 DEF EndsAt
  <2>6. 1 \in 1 .. Len(l) - 1
    BY <1>1
  <2>7. Len(l) = 2
    <3>1. 1 = Len(l) - 1
      BY <2>5, <2>6 DEF IsLine
    <3> QED
      BY <1>1, <3>1
  <2>8. CRLF \in Seq({Tok("cr"), Tok("lf")}) /\ Len(CRLF) = 2
        /\ CRLF[1] = Tok("cr") /\ CRLF[2] = Tok("lf")
    BY DEF CRLF
  <2>9. \A i \in 1 .. 2 : l[i] = CRLF[i]
    BY <2>4, <2>8
  <2> QED
    BY <2>7, <2>8, <2>9, SeqEqual
<1>6. l[1] = Tok("sp")
  BY <1>3, <1>4, <1>5 DEF Space
<1>7. /\ IsPrefix(s, t) /\ Len(s) < Len(t) /\ t[Len(s) + 1] = Tok("sp")
  <2>1. /\ Len(t) \in Nat /\ Len(u) <= Len(t) /\ \A i \in 1 .. Len(u) : u[i] = t[i]
    BY DEF IsPrefix, u
  <2>2. Len(s) < Len(t) /\ Len(s) <= Len(t) /\ Len(s) + 1 \in 1 .. Len(u) /\ 1 \in 1 .. Len(l)
    BY <1>1, <2>1
  <2>3. \A i \in 1 .. Len(s) : s[i] = t[i]
    <3>1. \A i \in 1 .. Len(s) : i \in 1 .. Len(u)
      BY <1>1
    <3> QED
      BY <1>1, <2>1, <3>1
  <2>4. t[Len(s) + 1] = Tok("sp")
    BY <1>1, <1>6, <2>1, <2>2
  <2> QED
    BY <2>2, <2>3, <2>4 DEF IsPrefix
<1> DEFINE h == HeaderOf(t)
<1>8. Len(h) \in Nat /\ Len(s) + 1 <= Len(h) /\ h[Len(s) + 1] = Tok("sp")
  BY <1>7, HeaderReaches
<1> HIDE DEF h
<1>9. Len(s) + 1 \in 2 .. Len(h)
  BY <1>1, <1>8
<1>10. Tok("sp") \in {h[i] : i \in 2 .. Len(h)}
  BY <1>8, <1>9
<1> QED
  BY <1>10 DEF WrongAnswer, WrongHeader, h

(* Of a header without a space, the accept headers the parser stored are   *)
(* their values and nothing else.                                          *)
ItemsAlone(s, items) ==
  (\A i \in 2 .. Len(s) : s[i] # Tok("sp")) =>
    \A i \in 1 .. Len(items) : items[i][1][1] = "accept" => Len(items[i]) = 1

LEMMA LineAlone ==
  ASSUME NEW s \in Seq(Read), NEW l \in Seq(Read), s # <<>>, EndsLine(s), IsLine(l),
         WellFormed(s \o l), \A i \in 2 .. Len(s \o l) : (s \o l)[i] # Tok("sp"),
         bs_trim(l) # <<>>, bs_trim(l)[1][1] = "accept"
  PROVE  Len(bs_trim(l)) = 1
<1> DEFINE u == s \o l
           item == bs_trim(l)
<1>1. /\ Len(s) \in Nat /\ Len(l) \in Nat /\ Len(l) >= 2 /\ Len(s) >= 2 /\ l # <<>>
      /\ u \in Seq(Read) /\ Len(u) = Len(s) + Len(l)
      /\ \A i \in 1 .. Len(s) : u[i] = s[i]
      /\ \A i \in 1 .. Len(l) : u[Len(s) + i] = l[i]
  BY DEF IsLine, EndsLine
<1>2. /\ TokensStartLines(u) /\ PairedBreaks(u) /\ AcceptsAlone(u)
      /\ \A i \in 2 .. Len(u) : u[i] # Tok("sp")
  BY DEF WellFormed
<1>3. \A q \in 1 .. Len(l) : l[q][1] \in {"status", "accept"} => q = 1
  BY <1>2, TokenIsFirst
<1>4. l[1][1] = "accept"
  BY <1>3, TokenSurvivesTrim
<1>5. PICK a \in 0 .. Len(l), b \in 1 .. Len(l) :
         /\ a <= b
         /\ item = SubSeq(l, a + 1, b)
         /\ \A j \in (1 .. a) \cup (b + 1 .. Len(l)) : l[j] \in Space
         /\ b = 1 \/ l[b] \notin Space
  <2>1. item = VP!bs_trim(l)
    BY TrimOfReader
  <2> QED
    BY <1>1, <2>1, VP!TrimCuts
<1> HIDE DEF u, item
<1>6. \A q \in 1 .. Len(l) : Len(s) + q \in 1 .. Len(u) /\ Len(s) + q \in 2 .. Len(u)
  BY <1>1
<1>7. l[2] \in Space
  <2>1. Len(s) + 1 \in 1 .. Len(u) - 1 /\ (Len(s) + 1) + 1 = Len(s) + 2
    BY <1>1
  <2>2. u[Len(s) + 1] = l[1] /\ u[Len(s) + 2] = l[2]
    BY <1>1
  <2> QED
    BY <1>2, <1>4, <2>1, <2>2 DEF AcceptsAlone
<1>8. l[2] # Tok("sp")
  BY <1>1, <1>2, <1>6
<1>9. l[2] # Tok("lf")
  <2> SUFFICES ASSUME l[2] = Tok("lf") PROVE FALSE
    OBVIOUS
  <2>1. u[Len(s) + 2] = Tok("lf") /\ Len(s) + 2 \in 1 .. Len(u)
        /\ (Len(s) + 2) - 1 = Len(s) + 1
    BY <1>1
  <2>2. u[(Len(s) + 2) - 1] = Tok("cr")
    BY <1>2, <2>1 DEF PairedBreaks
  <2>3. u[Len(s) + 1] = l[1]
    BY <1>1
  <2> QED
    BY <1>4, <2>1, <2>2, <2>3 DEF Tok
<1>10. l[2] = Tok("cr")
  BY <1>7, <1>8, <1>9 DEF Space
<1>11. Len(l) = 3 /\ l[3] = Tok("lf")
  <2>1. l[Len(l)] = Tok("lf")
    <3>1. Len(l) - 1 \in 1 .. Len(l) - 1 /\ (Len(l) - 1) + 1 = Len(l)
      BY <1>1
    <3> QED
      BY <3>1 DEF IsLine, EndsAt
  <2>2. Len(l) >= 3
    <3>1. ASSUME Len(l) = 2 PROVE FALSE
      <4>1. l[2] = Tok("lf")
        BY <2>1, <3>1
      <4> QED
        BY <1>9, <4>1
    <3>2. \A n \in Nat : n >= 2 /\ n # 2 => n >= 3
      OBVIOUS
    <3> QED
      BY <1>1, <3>1, <3>2
  <2>3. /\ Len(s) + 2 \in 1 .. Len(u) /\ Len(s) + 2 < Len(u)
        /\ (Len(s) + 2) + 1 = Len(s) + 3
    BY <1>1, <2>2
  <2>4. u[Len(s) + 2] = l[2] /\ u[Len(s) + 3] = l[3]
    BY <1>1, <2>2
  <2>5. l[3] = Tok("lf")
    BY <1>2, <1>10, <2>3, <2>4 DEF PairedBreaks
  <2>6. EndsAt(l, 2)
    BY <1>10, <2>5 DEF EndsAt
  <2>7. 2 \in 1 .. Len(l) - 1
    BY <1>1, <2>2
  <2>8. 2 = Len(l) - 1
    BY <2>6, <2>7 DEF IsLine
  <2> QED
    BY <1>1, <2>5, <2>8
<1>12. a = 0
  <2>1. l[1] \notin Space
    BY <1>4 DEF Space, Tok
  <2>2. 1 \notin 1 .. a
    BY <1>5, <2>1
  <2> QED
    BY <2>2
<1>13. b = 1
  <2>1. l[2] \in Space /\ l[3] \in Space
    BY <1>7, <1>11 DEF Space
  <2>2. b = 1 \/ b = 2 \/ b = 3
    BY <1>11
  <2> QED
    BY <1>5, <2>1, <2>2
<1>14. Len(item) = 1
  BY <1>5, <1>11, <1>12, <1>13
<1> QED
  BY <1>14 DEF item

(* A response the checks of ws_connect kill the process over is wrong.     *)
Kills(line, items, k) ==
  \/ _http_status_code(line) = 0
  \/ /\ _http_status_code(line) = 101
     /\ ~\E i \in _http_payload_header_get(items) :
           _ws_verify_websocket_sec_key(k, items[i])

LEMMA WrongVerdict ==
  ASSUME NEW s \in Seq(Read), s # <<>>, NEW line, NEW items \in Seq(Seq(Read)),
         Parsed(s, line, items), ItemsAlone(s, items), NEW k \in Key,
         Kills(line, items, k)
  PROVE  WrongHeader(s, k)
<1>1. StatusParsed(s, line) /\ AcceptsParsed(s, items)
  BY DEF Parsed
<1>2. CASE _http_status_code(line) = 0
  <2> SUFFICES ASSUME s[1] \in {"status"} \X {101, 400} PROVE FALSE
    BY DEF WrongHeader
  <2>1. s[1][1] = "status" /\ s[1][2] \in {101, 400}
    OBVIOUS
  <2>2. line # <<>> /\ line[1] = s[1]
    BY <1>1, <2>1 DEF StatusParsed
  <2> QED
    BY <1>2, <2>1, <2>2 DEF _http_status_code
<1>3. CASE /\ _http_status_code(line) = 101
           /\ ~\E i \in _http_payload_header_get(items) :
                 _ws_verify_websocket_sec_key(k, items[i])
  <2>1. line # <<>> /\ line[1][1] = "status" /\ line[1][2] = 101
    BY <1>3 DEF _http_status_code
  <2>2. s[1] = line[1] /\ s[1] \in Read
    BY <1>1, <2>1 DEF StatusParsed
  <2>3. s[1] = <<"status", 101>>
    BY <2>1, <2>2 DEF Read, Token, Space, Tok
  <2> SUFFICES ASSUME \A i \in 2 .. Len(s) : s[i] # Tok("sp"),
                      NEW p \in Accepts(s), s[p][2] = k, \A q \in Accepts(s) : p <= q
               PROVE  FALSE
    BY <2>3 DEF WrongHeader
  <2> DEFINE found == {i \in 1 .. Len(items) : items[i][1][1] = "accept"}
  <2>4. found \subseteq Nat /\ Len(items) \in Nat
    OBVIOUS
  <2>5. found # {}
    <3>1. s[1][1] # "accept" /\ Accepts(s) # {}
      BY <2>3
    <3>2. \E i \in 1 .. Len(items) : items[i][1][1] = "accept"
      BY <1>1, <3>1, Zenon DEF AcceptsParsed
    <3> QED
      BY <3>2
  <2>6. PICK i \in found : \A j \in found : i <= j
    <3> DEFINE S == found
    <3>1. S \subseteq Nat /\ S # {}
      BY <2>4, <2>5
    <3> HIDE DEF S
    <3>2. \E i \in S : \A j \in S : i <= j
      BY <3>1, VP!Least
    <3> QED
      BY <3>2 DEF S
  <2>7. i \in _http_payload_header_get(items)
    <3>1. ASSUME NEW j \in 1 .. i - 1, items[j][1][1] = "accept" PROVE FALSE
      <4>1. j \in found /\ ~(i <= j)
        BY <2>4, <3>1
      <4> QED
        BY <2>6, <4>1
    <3> QED
      BY <3>1 DEF _http_payload_header_get
  <2>8. PICK r \in Accepts(s) : items[i][1] = s[r] /\ \A q \in Accepts(s) : r <= q
    BY <1>1, <2>3, <2>7 DEF AcceptsParsed
  <2>9. Accepts(s) \subseteq 1 .. Len(s) /\ Len(s) \in Nat
    BY DEF Accepts
  <2>10. r = p
    <3>1. r <= p /\ p <= r /\ r \in Int /\ p \in Int
      BY <2>8, <2>9
    <3> QED
      BY <3>1
  <2>11. s[p] \in Read /\ s[p][1] = "accept" /\ s[p][2] = k
    BY <2>9 DEF Accepts
  <2>12. s[p] = <<"accept", k>>
    BY <2>11 DEF Read, Token, Space, Tok
  <2>13. items[i] \in Seq(Read) /\ Len(items[i]) = 1 /\ items[i][1] = <<"accept", k>>
    BY <2>8, <2>10, <2>12 DEF ItemsAlone
  <2>14. items[i] = << <<"accept", k>> >>
    <3> DEFINE x == <<"accept", k>>
               it == items[i]
    <3> HIDE DEF x, it
    <3>1. it \in Seq(Read) /\ Len(it) = 1 /\ it[1] = x
      BY <2>13 DEF x, it
    <3>2. it = <<x>>
      BY <3>1
    <3> QED
      BY <3>2 DEF x, it
  <2> QED
    BY <1>3, <2>7, <2>14 DEF _ws_verify_websocket_sec_key
<1> QED
  BY <1>2, <1>3 DEF Kills

KilledByAnswer ==
  pc = "dead" /\ peer[cur] # "rst" /\ last[cur].ret >= 0 /\ WellFormed(sent[cur]) =>
    WrongAnswer(sent[cur], request[cur][1])

KInv ==
  /\ pc # "idle" => cur \in Ctx
  /\ pc \in {"headers", "verify"} /\ WellFormed(sent[cur]) => ItemsAlone(out[cur], headers)
  /\ KilledByAnswer

LEMMA OutIsPrefix ==
  ASSUME OInv, cur \in Ctx
  PROVE  /\ IsPrefix(out[cur], sent[cur])
         /\ out[cur] \in Seq(Read) /\ sent[cur] \in Seq(Token)
<1>1. P!TypeOK /\ P!ReaderIntegrity(cur)
  BY CtxAssumption DEF OInv, CallerIntegrity
<1>2. out[cur] \in Seq(Read) /\ sent[cur] \in Seq(Token) /\ len[cur] \in Nat
  BY <1>1, ReaderAssumptions DEF P!TypeOK, Read
<1>3. Len(out[cur]) + len[cur] <= Len(sent[cur])
  BY <1>1 DEF P!ReaderIntegrity, P!Continues
<1>4. Len(out[cur]) <= Len(sent[cur])
  BY <1>2, <1>3
<1> QED
  BY <1>1, <1>2, <1>4 DEF P!ReaderIntegrity, IsPrefix

LEMMA KInvInit == Init => KInv
BY DEF Init, KInv, KilledByAnswer

LEMMA KInvConnect ==
  ASSUME HInv, KInv, NEW c \in Ctx, ws_connect(c)
  PROVE  KInv'
BY DEF KInv, KilledByAnswer, ws_connect, ConnectFails, ConnectSucceeds, readerVars

LEMMA KInvUpgrade ==
  ASSUME HInv, KInv, ws_do_http_upgrade
  PROVE  KInv'
BY DEF KInv, KilledByAnswer, ws_do_http_upgrade, readerVars

(* A line that could not be read, of an answer whose lines all fit.        *)
LEMMA LineFailedKill ==
  ASSUME HInv, ReadLine, pc \in {"status", "headers"}, LineFailed
  PROVE  ~(peer'[cur] # "rst" /\ last'[cur].ret >= 0 /\ WellFormed(sent'[cur]))
<1>1. /\ OInv' /\ cur \in Ctx /\ sent' = sent /\ cur' = cur
      /\ P!TypeOK /\ P!ReaderIntegrity(cur)
  BY ReadLineEffect, CtxAssumption DEF HInv, OInv, CallerIntegrity
<1>2. P!BufReader_read_until(cur)
  BY SameReadUntil DEF ReadLine
<1>3. peer' = peer
  BY <1>2 DEF P!BufReader_read_until
<1> SUFFICES ASSUME peer[cur] # "rst", last'[cur].ret >= 0, WellFormed(sent[cur])
             PROVE  FALSE
  BY <1>1, <1>3
<1>4. aborted'
  <2>1. last'[cur].ret \in Int
    BY <1>1 DEF OInv, P!TypeOK
  <2> QED
    BY <2>1 DEF LineFailed
<1>5. P!LongLine(cur)
  BY <1>1, <1>2, <1>4, ReaderAssumptions, P!UntilAbortsBecause
<1>6. out[cur] = <<>> \/ EndsLine(out[cur])
  BY DEF HInv, Calling
<1>7. IsPrefix(out[cur], sent[cur])
  BY <1>1, OutIsPrefix DEF HInv
<1> QED
  BY <1>1, <1>5, <1>6, <1>7, NoLongLine

LEMMA KInvStatusLine ==
  ASSUME HInv, KInv, ReadStatusLine
  PROVE  KInv'
<1>1. /\ ReadLine /\ pc = "status" /\ headers' = headers /\ headers = <<>>
      /\ cur \in Ctx /\ cur' = cur
  BY DEF ReadStatusLine, HInv, Calling, KInv, ReadLine
<1>2. CASE LineFailed
  <2>1. pc' = "dead"
    BY <1>2 DEF ReadStatusLine
  <2>2. ~(peer'[cur] # "rst" /\ last'[cur].ret >= 0 /\ WellFormed(sent'[cur]))
    BY <1>1, <1>2, LineFailedKill
  <2> QED
    BY <1>1, <2>1, <2>2 DEF KInv, KilledByAnswer
<1>3. CASE ~LineFailed
  <2>1. pc' = "headers"
    BY <1>3 DEF ReadStatusLine
  <2>2. \A s : ItemsAlone(s, <<>>)
    BY DEF ItemsAlone
  <2> QED
    BY <1>1, <2>1, <2>2 DEF KInv, KilledByAnswer
<1> QED
  BY <1>2, <1>3

LEMMA ItemsAloneGrows ==
  ASSUME NEW s \in Seq(Read), NEW l \in Seq(Read), s # <<>>, EndsLine(s), IsLine(l),
         WellFormed(s \o l), bs_trim(l) # <<>>,
         NEW items \in Seq(Seq(Read)), ItemsAlone(s, items)
  PROVE  ItemsAlone(s \o l, Append(items, bs_trim(l)))
<1> DEFINE u == s \o l
           item == bs_trim(l)
           more == Append(items, item)
<1>1. item \in Seq(Read)
  BY TrimType
<1>2. (\A i \in 2 .. Len(u) : u[i] # Tok("sp")) /\ item[1][1] = "accept" => Len(item) = 1
  BY LineAlone
<1>3. Len(s) \in Nat /\ Len(s) <= Len(u) /\ Len(u) \in Nat /\ \A i \in 1 .. Len(s) : u[i] = s[i]
  OBVIOUS
<1>4. /\ Len(items) \in Nat /\ Len(more) = Len(items) + 1
      /\ more[Len(items) + 1] = item
      /\ \A i \in 1 .. Len(items) : more[i] = items[i]
  BY <1>1
<1> HIDE DEF u, item, more
<1> SUFFICES ASSUME \A i \in 2 .. Len(u) : u[i] # Tok("sp"),
                    NEW i \in 1 .. Len(more), more[i][1][1] = "accept"
             PROVE  Len(more[i]) = 1
  BY DEF ItemsAlone, u, item, more
<1>5. \A j \in 2 .. Len(s) : s[j] # Tok("sp")
  <2> TAKE j \in 2 .. Len(s)
  <2>1. j \in 2 .. Len(u) /\ j \in 1 .. Len(s)
    BY <1>3
  <2> QED
    BY <1>3, <2>1
<1>6. CASE i \in 1 .. Len(items)
  <2>1. more[i] = items[i]
    BY <1>4, <1>6
  <2> QED
    BY <1>5, <1>6, <2>1 DEF ItemsAlone
<1>7. CASE i = Len(items) + 1
  BY <1>2, <1>4, <1>7
<1> QED
  BY <1>4, <1>6, <1>7

LEMMA ItemsAloneStay ==
  ASSUME NEW s \in Seq(Read), NEW l \in Seq(Read), NEW items, ItemsAlone(s, items)
  PROVE  ItemsAlone(s \o l, items)
<1> DEFINE u == s \o l
<1>1. Len(s) \in Nat /\ Len(s) <= Len(u) /\ Len(u) \in Nat /\ \A i \in 1 .. Len(s) : u[i] = s[i]
  OBVIOUS
<1> HIDE DEF u
<1> SUFFICES ASSUME \A i \in 2 .. Len(u) : u[i] # Tok("sp")
             PROVE  \A i \in 1 .. Len(items) : items[i][1][1] = "accept" => Len(items[i]) = 1
  BY DEF ItemsAlone, u
<1>2. \A j \in 2 .. Len(s) : s[j] # Tok("sp")
  <2> TAKE j \in 2 .. Len(s)
  <2>1. j \in 2 .. Len(u) /\ j \in 1 .. Len(s)
    BY <1>1
  <2> QED
    BY <1>1, <2>1
<1> QED
  BY <1>2 DEF ItemsAlone

LEMMA KInvHeaderLine ==
  ASSUME HInv, KInv, ReadHeaderLine
  PROVE  KInv'
<1>1. /\ ReadLine /\ pc = "headers" /\ httpLine' = httpLine
      /\ EndsLine(out[cur]) /\ NoBlank(out[cur])
      /\ key \in Key /\ request[cur] = <<key>>
      /\ headers \in Seq(Seq(Read))
      /\ WellFormed(sent[cur]) => ItemsAlone(out[cur], headers)
  BY DEF ReadHeaderLine, HInv, Calling, KInv
<1>2. /\ OInv' /\ cur \in Ctx
      /\ UNCHANGED <<sent, cur, result, key, request>>
      /\ out'[cur] \in Seq(Read) /\ IsPrefix(out'[cur], sent[cur])
      /\ ~LineFailed => /\ LineRead \in Seq(Read) /\ IsLine(LineRead)
                        /\ out'[cur] = out[cur] \o LineRead
  BY <1>1, ReadLineEffect
<1>3. CASE LineFailed
  <2>1. pc' = "dead"
    BY <1>3 DEF ReadHeaderLine
  <2>2. ~(peer'[cur] # "rst" /\ last'[cur].ret >= 0 /\ WellFormed(sent'[cur]))
    BY <1>1, <1>3, LineFailedKill
  <2> QED
    BY <1>2, <2>1, <2>2 DEF KInv, KilledByAnswer
<1>4. CASE ~LineFailed
  <2> DEFINE s == out[cur]
             l == LineRead
             t == sent[cur]
             item == bs_trim(l)
  <2>1. \/ l = CRLF /\ pc' = "verify" /\ headers' = headers
        \/ l # CRLF /\ item = <<>> /\ pc' = "dead"
        \/ /\ l # CRLF /\ pc' = "headers"
           /\ item # <<>> /\ headers' = Append(headers, item)
    BY <1>1, <1>4 DEF ReadHeaderLine
  <2>2. s \in Seq(Read) /\ t \in Seq(Token)
    BY <1>2, OutIsPrefix DEF HInv
  <2>3. l \in Seq(Read) /\ IsLine(l) /\ out'[cur] = s \o l /\ EndsLine(s) /\ NoBlank(s)
        /\ IsPrefix(s \o l, t)
    BY <1>1, <1>2, <1>4
  <2>4. s # <<>>
    BY <1>1, <2>2 DEF EndsLine
  <2>5. WellFormed(t) => ItemsAlone(s, headers)
    BY <1>1
  <2>6. sent'[cur] = t
    BY <1>2
  <2> HIDE DEF s, l, t, item
  <2>7. CASE l = CRLF /\ pc' = "verify" /\ headers' = headers
    <3>1. WellFormed(t) => ItemsAlone(s \o l, headers)
      BY <2>2, <2>3, <2>5, ItemsAloneStay
    <3> QED
      BY <1>2, <2>3, <2>6, <2>7, <3>1 DEF KInv, KilledByAnswer
  <2>8. CASE l # CRLF /\ item = <<>> /\ pc' = "dead"
    <3>1. WellFormed(t) => WrongAnswer(t, request[cur][1])
      BY <2>2, <2>3, <2>4, <2>8, WhiteLine DEF item
    <3> QED
      BY <1>2, <2>6, <2>8, <3>1 DEF KInv, KilledByAnswer
  <2>9. CASE l # CRLF /\ pc' = "headers" /\ item # <<>> /\ headers' = Append(headers, item)
    <3>1. s \o l \in Seq(Read)
      BY <2>2, <2>3
    <3>2. WellFormed(t) => WellFormed(s \o l)
      BY <2>2, <2>3, <3>1, PrefixWellFormed
    <3>3. WellFormed(t) => ItemsAlone(s \o l, headers')
      BY <1>1, <2>2, <2>3, <2>4, <2>5, <2>9, <3>2, ItemsAloneGrows DEF item
    <3> QED
      BY <1>2, <2>3, <2>6, <2>9, <3>3 DEF KInv, KilledByAnswer
  <2> QED
    BY <2>1, <2>7, <2>8, <2>9
<1> QED
  BY <1>3, <1>4

LEMMA KInvVerify ==
  ASSUME HInv, KInv, VerifyResponse
  PROVE  KInv'
<1>1. /\ pc = "verify" /\ UNCHANGED <<readerVars, key, request, httpLine, headers>>
      /\ cur \in Ctx /\ sent' = sent
  BY DEF VerifyResponse, KInv, readerVars
<1>2. /\ key \in Key /\ request[cur] = <<key>> /\ WholeHeader(out[cur])
      /\ TokensStartLines(sent[cur]) => Parsed(out[cur], httpLine, headers)
      /\ headers \in Seq(Seq(Read))
      /\ WellFormed(sent[cur]) => ItemsAlone(out[cur], headers)
  BY <1>1 DEF HInv, Calling, KInv
<1>3. CASE pc' = "idle"
  BY <1>3 DEF KInv, KilledByAnswer
<1>4. CASE pc' # "idle"
  <2>1. pc' = "dead" /\ cur' = cur /\ Kills(httpLine, headers, key)
    BY <1>4 DEF VerifyResponse, Return, Kills
  <2>2. /\ out[cur] \in Seq(Read) /\ sent[cur] \in Seq(Token)
        /\ IsPrefix(out[cur], sent[cur]) /\ out[cur] # <<>>
    BY <1>1, <1>2, OutIsPrefix DEF HInv, WholeHeader
  <2>3. HeaderOf(sent[cur]) = out[cur]
    BY <1>2, <2>2, HeaderIsPrefix
  <2>4. WellFormed(sent[cur]) => TokensStartLines(sent[cur])
    BY DEF WellFormed
  <2>5. WellFormed(sent[cur]) => WrongHeader(out[cur], key)
    BY <1>2, <2>1, <2>2, <2>4, WrongVerdict
  <2>6. WellFormed(sent[cur]) => WrongAnswer(sent[cur], request[cur][1])
    <3>1. request[cur][1] = key
      BY <1>2
    <3> QED
      BY <2>3, <2>5, <3>1 DEF WrongAnswer
  <2> QED
    BY <1>1, <2>1, <2>6 DEF KInv, KilledByAnswer
<1> QED
  BY <1>3, <1>4

LEMMA KInvAnswer ==
  ASSUME HInv, KInv, NEW c \in Ctx, ServerAnswers(c)
  PROVE  KInv'
<1>1. c = cur /\ pc # "dead" /\ sent[c] = <<>> /\ UNCHANGED callVars
  BY DEF ServerAnswers
<1>2. out[cur] \in Seq(Read) /\ Len(out[cur]) <= 0
  <2>1. IsPrefix(out[cur], sent[cur]) /\ out[cur] \in Seq(Read) /\ Len(sent[cur]) = 0
    BY <1>1, OutIsPrefix DEF HInv
  <2> QED
    BY <2>1 DEF IsPrefix
<1>3. pc \notin {"headers", "verify"}
  BY <1>2 DEF HInv, Calling, EndsLine, WholeHeader
<1> QED
  BY <1>1, <1>3 DEF KInv, KilledByAnswer, callVars

LEMMA KInvServer ==
  ASSUME HInv, KInv, NEW c \in Ctx, Server(c)
  PROVE  KInv'
<1>1. CASE ServerCloses(c)
  BY <1>1 DEF ServerCloses, R!PeerClose, R!readerVars, KInv, KilledByAnswer, callVars
<1> QED
  BY <1>1, KInvAnswer DEF Server

LEMMA KInvStep == HInv /\ KInv /\ [Next]_vars => KInv'
<1>1. HInv /\ KInv /\ UNCHANGED vars => KInv'
  BY DEF vars, readerVars, callVars, KInv, KilledByAnswer
<1> QED
  BY <1>1, KInvConnect, KInvUpgrade, KInvStatusLine, KInvHeaderLine, KInvVerify, KInvServer
     DEF Next, Client

LEMMA NothingWellFormed == WellFormed(<<>>)
<1>1. Len(<<>>) = 0 /\ DestLen \in Nat
  BY SizeAssumption
<1>2. PairedBreaks(<<>>)
  BY <1>1 DEF PairedBreaks
<1>3. AcceptsAlone(<<>>)
  BY <1>1 DEF AcceptsAlone
<1>4. LinesFit(<<>>)
  BY <1>1 DEF LinesFit
<1> QED
  BY <1>2, <1>3, <1>4, NothingSent DEF WellFormed

LEMMA SentWellFormed ==
  ASSUME AnswersWellFormed, HInv, AnswersSent, NEW c \in Ctx
  PROVE  WellFormed(sent[c])
<1>1. CASE sent[c] = <<>>
  BY <1>1, NothingWellFormed
<1>2. CASE \E k \in Key : \E answer \in Response[k] : IsPrefix(sent[c], answer)
  <2>1. PICK k \in Key : \E answer \in Response[k] : IsPrefix(sent[c], answer)
    BY <1>2
  <2>2. PICK answer \in Response[k] : IsPrefix(sent[c], answer)
    BY <2>1
  <2>3. answer \in Seq(Token) /\ WellFormed(answer) /\ sent[c] \in Seq(Read)
    BY ResponseAssumption DEF AnswersWellFormed, HInv, OInv, P!TypeOK, Read
  <2> QED
    BY <2>2, <2>3, PrefixWellFormed
<1> QED
  BY <1>1, <1>2 DEF AnswersSent, PartOfAnswer

LEMMA KilledSuffices ==
  ASSUME AnswersWellFormed
  PROVE  HInv /\ AnswersSent /\ KInv => OnlyWrongAnswersKill
<1> SUFFICES ASSUME HInv, AnswersSent, KInv,
                    pc = "dead", peer[cur] # "rst", last[cur].ret >= 0
             PROVE  WrongAnswer(sent[cur], request[cur][1])
  BY DEF OnlyWrongAnswersKill, WrongAnswer, WrongHeader, Accepts
<1>1. cur \in Ctx
  BY DEF KInv
<1>2. WellFormed(sent[cur])
  BY <1>1, SentWellFormed
<1> QED
  BY <1>2 DEF KInv, KilledByAnswer

(* As long as the connection is not reset and no line ends early, an       *)
(* answer that ends the process of ws_connect has no status code that is   *)
(* read, or a line of white space, or is a 101 without the right accept    *)
(* header first: however the network cuts it.                              *)
THEOREM OnlyWrongKill ==
  ASSUME AnswersWellFormed
  PROVE  Spec => []OnlyWrongAnswersKill
<1> DEFINE DInv == HInv /\ AnswersSent /\ KInv
<1>1. Init => DInv
  BY HInvInit, SentInit, KInvInit
<1>2. HInv /\ AnswersSent /\ [Next]_vars => AnswersSent'
  BY SentConnect, SentClient, SentServer, SentKept DEF Next, vars, readerVars
<1>3. DInv /\ [Next]_vars => DInv'
  BY <1>2, HInvStep, KInvStep
<1>4. DInv => OnlyWrongAnswersKill
  BY KilledSuffices
<1> QED
  BY <1>1, <1>3, <1>4, PTL DEF Spec

-------------------------------------------------------------------------------
(* Every system call of ws_connect brings it nearer its end.               *)

LEMMA AnswerLength ==
  ASSUME HInv, AnswersSent, NEW c \in Ctx
  PROVE  Len(sent[c]) \in 0 .. MaxLen
<1>1. sent[c] \in Seq(Token) /\ MaxLen \in Nat
  BY BoundAssumption DEF HInv, OInv, P!TypeOK
<1>2. CASE sent[c] = <<>>
  BY <1>1, <1>2
<1>3. ASSUME NEW k \in Key, NEW answer \in Response[k], IsPrefix(sent[c], answer)
      PROVE  Len(sent[c]) \in 0 .. MaxLen
  <2>1. Len(answer) \in 1 .. MaxLen
    BY ResponseAssumption
  <2>2. Len(sent[c]) <= Len(answer)
    BY <1>3 DEF IsPrefix
  <2>3. Len(sent[c]) \in Nat
    BY <1>1
  <2> QED
    BY <1>1, <2>1, <2>2, <2>3
<1> QED
  BY <1>2, <1>3 DEF AnswersSent, PartOfAnswer

(* A call never takes more than an answer.                                 *)
LEMMA TakenLength ==
  ASSUME HInv, AnswersSent, cur \in Ctx
  PROVE  Len(out[cur]) \in 0 .. MaxLen /\ MaxLen \in Nat
<1>1. IsPrefix(out[cur], sent[cur]) /\ out[cur] \in Seq(Read)
  BY OutIsPrefix DEF HInv
<1>2. Len(out[cur]) \in Nat /\ Len(out[cur]) <= Len(sent[cur])
  BY <1>1 DEF IsPrefix
<1> QED
  BY <1>2, AnswerLength, BoundAssumption

(* A line that is read takes at least its two last bytes.                  *)
LEMMA LineTakes ==
  ASSUME HInv, AnswersSent, ReadLine, pc \notin {"idle", "dead"}, ~LineFailed
  PROVE  Len(out'[cur]) \in Len(out[cur]) + 2 .. MaxLen
<1>1. /\ cur \in Ctx /\ out'[cur] \in Seq(Read) /\ IsPrefix(out'[cur], sent[cur])
      /\ LineRead \in Seq(Read) /\ IsLine(LineRead)
      /\ out'[cur] = out[cur] \o LineRead
  BY ReadLineEffect
<1>2. Len(out'[cur]) <= Len(sent[cur]) /\ Len(LineRead) >= 2
  BY <1>1 DEF IsPrefix, IsLine
<1>3. out[cur] \in Seq(Read)
  BY <1>1, OutIsPrefix DEF HInv
<1>4. Len(out'[cur]) = Len(out[cur]) + Len(LineRead)
  BY <1>1, <1>3
<1>5. Len(out[cur]) \in Nat /\ Len(LineRead) \in Nat /\ Len(sent[cur]) \in 0 .. MaxLen
  BY <1>1, <1>3, AnswerLength
<1>6. MaxLen \in Nat
  BY BoundAssumption
<1> QED
  BY <1>2, <1>4, <1>5, <1>6

LEMMA CallAdvancesStep ==
  ASSUME HInv, AnswersSent, Client
  PROVE  0 <= ToDo' /\ ToDo' < ToDo
<1>1. pc \in {"upgrade", "status", "headers", "verify"}
  BY DEF Client, ws_do_http_upgrade, ReadStatusLine, ReadHeaderLine, VerifyResponse
<1>2. cur \in Ctx
  BY <1>1 DEF HInv, OInv, CallerIntegrity
<1> DEFINE taken == Len(out[cur])
<1>3. taken \in 0 .. MaxLen /\ MaxLen \in Nat
  BY <1>2, TakenLength
<1>4. PhasesLeft \in 1 .. 3 /\ ToDo = PhasesLeft + MaxLen - taken
  BY <1>1 DEF PhasesLeft, ToDo
<1>5. CASE pc' \in {"idle", "dead"}
  <2>1. ToDo' = 0
    BY <1>5 DEF ToDo
  <2> HIDE DEF taken
  <2> QED
    BY <1>3, <1>4, <2>1
<1>6. CASE pc' \notin {"idle", "dead"}
  <2>1. CASE ws_do_http_upgrade
    <3>1. pc = "upgrade" /\ pc' = "status" /\ out' = out /\ cur' = cur
      BY <1>6, <2>1 DEF ws_do_http_upgrade, readerVars
    <3>2. PhasesLeft = 3 /\ PhasesLeft' = 2
      BY <3>1 DEF PhasesLeft
    <3>3. ToDo' = PhasesLeft' + MaxLen - taken
      BY <3>1 DEF ToDo
    <3> HIDE DEF taken
    <3> QED
      BY <1>3, <1>4, <3>2, <3>3
  <2>2. CASE ReadStatusLine \/ ReadHeaderLine
    <3>1. ReadLine /\ ~LineFailed /\ pc \notin {"idle", "dead"} /\ cur' = cur
      BY <1>1, <1>6, <2>2 DEF ReadStatusLine, ReadHeaderLine, ReadLine
    <3>2. Len(out'[cur]) \in taken + 2 .. MaxLen
      BY <3>1, LineTakes
    <3>3. PhasesLeft' \in 1 .. PhasesLeft
      BY <1>1, <1>6, <2>2 DEF PhasesLeft, ReadStatusLine, ReadHeaderLine
    <3>4. ToDo' = PhasesLeft' + MaxLen - Len(out'[cur])
      BY <1>6, <3>1 DEF ToDo
    <3> DEFINE after == Len(out'[cur])
               before == PhasesLeft
               rest == PhasesLeft'
    <3>5. after \in taken + 2 .. MaxLen /\ rest \in 1 .. before /\ before \in 1 .. 3
          /\ ToDo' = rest + MaxLen - after /\ ToDo = before + MaxLen - taken
      BY <1>4, <3>2, <3>3, <3>4
    <3> HIDE DEF taken, after, before, rest
    <3> QED
      BY <1>3, <3>5
  <2>3. CASE VerifyResponse
    BY <1>6, <2>3 DEF VerifyResponse, Return
  <2> QED
    BY <2>1, <2>2, <2>3 DEF Client
<1> QED
  BY <1>5, <1>6

(* Every system call of ws_connect takes it to a later phase or takes      *)
(* bytes of an answer that ends, or ends the call.                         *)
THEOREM CallAdvance == Spec => CallAdvances
<1> DEFINE LInv == HInv /\ AnswersSent
<1>1. Init => LInv
  BY HInvInit, SentInit
<1>2. HInv /\ AnswersSent /\ [Next]_vars => AnswersSent'
  BY SentConnect, SentClient, SentServer, SentKept DEF Next, vars, readerVars
<1>3. LInv /\ [Next]_vars => LInv'
  BY <1>2, HInvStep
<1>4. LInv /\ [Next]_vars => [Client => 0 <= ToDo' /\ ToDo' < ToDo]_vars
  BY CallAdvancesStep
<1> QED
  BY <1>1, <1>3, <1>4, PTL DEF Spec, CallAdvances

-------------------------------------------------------------------------------
(* Types.  What the parser stores are tokens the server sent, never a byte *)
(* of the array nobody has written.                                        *)

CallTypes ==
  /\ pc \in {"idle", "upgrade", "status", "headers", "verify", "dead"}
  /\ cur \in Ctx \cup {"none"}
  /\ key \in Key \cup {0}
  /\ httpLine \in Seq(Token)
  /\ headers \in Seq(Seq(Token))
  /\ attempts \in 0 .. MaxAttempts

LEMMA TypesInit == Init => CallTypes
<1>1. 0 \in 0 .. MaxAttempts
  BY BoundAssumption
<1> QED
  BY <1>1 DEF Init, CallTypes

LEMMA TypesConnect ==
  ASSUME CallTypes, NEW c \in Ctx, ws_connect(c)
  PROVE  CallTypes'
<1>1. attempts' \in 0 .. MaxAttempts
  <2>1. attempts \in 0 .. MaxAttempts /\ attempts < MaxAttempts /\ attempts' = attempts + 1
    BY DEF CallTypes, ws_connect
  <2> QED
    BY <2>1, BoundAssumption
<1>2. (pc' = pc /\ cur' = cur) \/ (pc' = "upgrade" /\ cur' = c)
  BY DEF ws_connect, ConnectFails, ConnectSucceeds
<1>3. httpLine' = <<>> /\ headers' = <<>> /\ key' = 0
  BY DEF ws_connect
<1> QED
  BY <1>1, <1>2, <1>3 DEF CallTypes

(* A line that was read, and what is left of it when it is trimmed.        *)
LEMMA LineType ==
  ASSUME HInv, ReadLine, pc \notin {"idle", "dead"}, ~LineFailed
  PROVE  bs_trim(LineRead) \in Seq(Token)
<1>1. /\ cur \in Ctx
      /\ out'[cur] \in Seq(Read) /\ IsPrefix(out'[cur], sent[cur])
      /\ LineRead \in Seq(Read) /\ IsLine(LineRead)
      /\ out'[cur] = out[cur] \o LineRead
  BY ReadLineEffect
<1>2. out[cur] \in Seq(Read) /\ sent[cur] \in Seq(Token)
  BY <1>1, OutIsPrefix DEF HInv
<1> DEFINE s == out[cur]
           l == LineRead
           t == sent[cur]
<1> HIDE DEF s, l, t
<1>3. /\ l \in Seq(Read) /\ IsLine(l) /\ s \in Seq(Read) /\ t \in Seq(Token)
      /\ IsPrefix(s \o l, t)
  BY <1>1, <1>2 DEF s, l, t
<1>4. \A i \in 1 .. Len(l) : l[i] \in Token
  <2> TAKE i \in 1 .. Len(l)
  <2>1. Len(s) + i \in 1 .. Len(s \o l) /\ (s \o l)[Len(s) + i] = l[i]
    BY <1>3
  <2>2. Len(s \o l) \in Nat /\ Len(t) \in Nat
    BY <1>3
  <2>3. Len(s) + i \in 1 .. Len(t) /\ l[i] = t[Len(s) + i]
    BY <1>3, <2>1, <2>2 DEF IsPrefix
  <2> QED
    BY <1>3, <2>3
<1>5. l \in Seq(Token) /\ l # <<>>
  <2>1. Len(l) \in Nat /\ l = [i \in 1 .. Len(l) |-> l[i]]
    BY <1>3
  <2>2. [i \in 1 .. Len(l) |-> l[i]] \in Seq(Token)
    BY <1>4, <2>1
  <2> QED
    BY <1>3, <2>1, <2>2 DEF IsLine
<1>6. PICK a \in 0 .. Len(l), b \in 1 .. Len(l) : bs_trim(l) = SubSeq(l, a + 1, b)
  BY <1>5, TrimOfReader, VP!TrimCuts
<1>7. SubSeq(l, a + 1, b) \in Seq(Token)
  BY <1>5, <1>6
<1> QED
  BY <1>6, <1>7 DEF l

LEMMA TypesClient ==
  ASSUME HInv, CallTypes, Client
  PROVE  CallTypes'
<1>1. CASE ws_do_http_upgrade
  BY <1>1 DEF ws_do_http_upgrade, CallTypes
<1>2. CASE ReadStatusLine
  <2>1. ReadLine /\ pc = "status" /\ UNCHANGED <<cur, key, attempts, headers>>
    BY <1>2 DEF ReadStatusLine, ReadLine
  <2>2. httpLine' \in Seq(Token) /\ pc' \in {"dead", "headers"}
    BY <1>2, <2>1, LineType DEF ReadStatusLine, CallTypes
  <2> QED
    BY <2>1, <2>2 DEF CallTypes
<1>3. CASE ReadHeaderLine
  <2>1. ReadLine /\ pc = "headers" /\ UNCHANGED <<cur, key, attempts, httpLine>>
    BY <1>3 DEF ReadHeaderLine, ReadLine
  <2>2. /\ pc' \in {"dead", "headers", "verify"}
        /\ \/ headers' = headers
           \/ ~LineFailed /\ headers' = Append(headers, bs_trim(LineRead))
    BY <1>3 DEF ReadHeaderLine
  <2>3. headers' \in Seq(Seq(Token))
    BY <2>1, <2>2, LineType, SMTT(40) DEF CallTypes
  <2> QED
    BY <2>1, <2>2, <2>3 DEF CallTypes
<1>4. CASE VerifyResponse
  BY <1>4 DEF VerifyResponse, Return, CallTypes
<1> QED
  BY <1>1, <1>2, <1>3, <1>4 DEF Client

LEMMA TypesKept ==
  ASSUME CallTypes, UNCHANGED callVars
  PROVE  CallTypes'
BY DEF CallTypes, callVars

LEMMA TypesServer ==
  ASSUME CallTypes, NEW c \in Ctx, Server(c)
  PROVE  CallTypes'
BY TypesKept DEF Server, ServerAnswers, ServerCloses

LEMMA TypesSuffice == HInv /\ CallTypes => TypeOK
<1>1. P!TypeOK => R!TypeOK
  BY DEF P!TypeOK, R!TypeOK, P!Slot, R!Slot
<1> QED
  BY <1>1 DEF HInv, OInv, Calling, CallTypes, TypeOK

(* Every variable of ws_connect keeps its type.                            *)
THEOREM TypeCorrect == Spec => []TypeOK
<1> DEFINE TInv == HInv /\ CallTypes
<1>1. Init => TInv
  BY HInvInit, TypesInit
<1>2. HInv /\ CallTypes /\ [Next]_vars => CallTypes'
  BY TypesConnect, TypesClient, TypesServer, TypesKept DEF Next, vars
<1>3. TInv /\ [Next]_vars => TInv'
  BY <1>2, HInvStep
<1>4. TInv => TypeOK
  BY TypesSuffice
<1> QED
  BY <1>1, <1>3, <1>4, PTL DEF Spec
===============================================================================
