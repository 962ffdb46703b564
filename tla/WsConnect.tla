------------------------------- MODULE WsConnect -------------------------------
(***************************************************************************)
(* ws_connect of websocket.c: the TCP connection, the upgrade request and  *)
(* the parsing and verification of the server's response, on top of the    *)
(* buffered reader, against a server that answers in any way and a network *)
(* that cuts its answer into any pieces.                                   *)
(*                                                                         *)
(* The calling program is single-threaded: at most one context (cur) is    *)
(* inside ws_connect.  One step runs from one blocking system call to the  *)
(* next.  An assertion that fails, a NULL dereference and SIGPIPE all end  *)
(* the process (pc = "dead").                                              *)
(*                                                                         *)
(* A text line is a sequence of tokens: what the parser tells apart.  A    *)
(* token is a pair: <<"cr", 0>>, <<"lf", 0>> and <<"sp", 0>> are white     *)
(* space, <<"status", code>> a status line, <<"accept", k>> the header     *)
(* Sec-WebSocket-Accept computed from key k, <<"Accept", k>> that header   *)
(* in another spelling, <<"header", n>> any other header, <<"frame", n>> a *)
(* byte of the frames that follow the response.                            *)
(***************************************************************************)
EXTENDS Integers, Sequences

CONSTANTS
  Ctx,          \* the contexts of the program
  IsTls,        \* the contexts whose options ask for TLS
  Key,          \* the values _generate_sec_websocket_key may return
  Capacity,     \* size of the static array behind every reader
  DestLen,      \* size of the line buffer of ws__http_read_header
  Response,     \* Response[k]: the answers a server may give to key k
  MaxLen,       \* bound: a length no answer exceeds
  MaxAttempts   \* bound: calls of ws_connect

ASSUME CtxAssumption == IsTls \subseteq Ctx /\ "none" \notin Ctx
ASSUME SizeAssumption == Capacity \in Nat \ {0} /\ DestLen \in Nat
ASSUME KeyAssumption == Key \subseteq Nat \ {0}
ASSUME BoundAssumption == MaxLen \in Nat /\ MaxAttempts \in Nat

VARIABLES
  mem, len, sent, rcvd, peer, out, last, aborted, \* of the buffered reader
  pc,        \* where the program is
  cur,       \* the context inside ws_connect
  result,    \* result[c]: what the last ws_connect of c returned
  key,       \* sec_websocket_key of the call
  request,   \* request[c]: the keys the server of c received
  httpLine,  \* payload.http_line
  headers,   \* payload.items
  attempts   \* calls so far

readerVars == <<mem, len, sent, rcvd, peer, out, last, aborted>>
callVars == <<pc, cur, result, key, httpLine, headers, attempts>>
vars == <<readerVars, callVars, request>>

Tok(name) == <<name, 0>>
Space == {Tok("cr"), Tok("lf"), Tok("sp")}
CRLF == <<Tok("cr"), Tok("lf")>>

Token ==
  Space \cup ({"status"} \X {101, 400, 0}) \cup ({"accept", "Accept"} \X Key)
    \cup {Tok("header"), Tok("frame")}

ASSUME ResponseAssumption ==
  /\ DOMAIN Response = Key
  /\ \A k \in Key : \A answer \in Response[k] :
       answer \in Seq(Token) /\ Len(answer) \in 1 .. MaxLen

(* Every context's reader is given the one static array of                 *)
(* ws_establish_tcp_connection, and F_SETFD leaves the descriptor          *)
(* blocking.                                                               *)
R == INSTANCE BufReader
       WITH Reader <- Ctx, Buffer <- {"static"},
            BufferOf <- [c \in Ctx |-> "static"],
            Byte <- Token, Nul <- Tok("nul"), Until <- CRLF,
            NonBlocking <- FALSE, MaxRead <- 0, MaxSent <- MaxLen

Outcome == {"none", "WS_SUCCESS", "WS_CONNECTION_FAILURE"}

TypeOK ==
  /\ R!TypeOK
  /\ pc \in {"idle", "upgrade", "status", "headers", "verify", "dead"}
  /\ cur \in Ctx \cup {"none"}
  /\ result \in [Ctx -> Outcome]
  /\ key \in Key \cup {0}
  /\ request \in [Ctx -> Seq(Key)]
  /\ httpLine \in Seq(Token)
  /\ headers \in Seq(Seq(Token))
  /\ attempts \in 0 .. MaxAttempts

-------------------------------------------------------------------------------
(* The parser.                                                             *)

V == INSTANCE StringViews

bs_trim(line) == V!bs_trim(line)

(* The second of the fields separated by single spaces; 0 when the trimmed *)
(* line has fewer than two separators or nothing between them.             *)
_http_status_code(line) ==
  IF line # <<>> /\ line[1][1] = "status" THEN line[1][2] ELSE 0

\* Mutated form of _http_payload_header_get: the loop ends one header early.
_http_payload_header_get_Early(items) ==
  {i \in 1 .. Len(items) - 1 :
     /\ items[i][1][1] = "accept"
     /\ \A j \in 1 .. i - 1 : items[j][1][1] # "accept"}

(* Sec-WebSocket-Accept: the first header with exactly this name, if any.  *)
_http_payload_header_get(items) ==
  {i \in 1 .. Len(items) :
     /\ items[i][1][1] = "accept"
     /\ \A j \in 1 .. i - 1 : items[j][1][1] # "accept"}

\* Mutated form of _ws_verify_websocket_sec_key: any accept header will do.
_ws_verify_websocket_sec_key_AnyKey(k, item) == item[1][1] = "accept"

(* The one value the header must have.                                     *)
_ws_verify_websocket_sec_key(k, item) == item = << <<"accept", k>> >>

-------------------------------------------------------------------------------
(* The calls.                                                              *)

Return(res) ==
  /\ result' = [result EXCEPT ![cur] = res]
  /\ pc' = "idle"
  /\ cur' = "none"

\* Mutated form of ConnectFails: the array is cleared before connect(2).
ConnectFails_Clears(c) ==
  /\ mem' = [mem EXCEPT !["static"] = [i \in R!Slot |-> Tok("nul")]]
  /\ result' = [result EXCEPT ![c] = "WS_CONNECTION_FAILURE"]
  /\ UNCHANGED <<pc, cur, len, sent, rcvd, peer, out, last, aborted, request>>

(* ws_connect up to the upgrade: TLS is refused, a failed connect is       *)
(* reported, a successful one attaches the reader.                         *)
ConnectFails(c) ==
  /\ result' = [result EXCEPT ![c] = "WS_CONNECTION_FAILURE"]
  /\ UNCHANGED <<pc, cur, readerVars, request>>

ConnectSucceeds(c) ==
  /\ c \notin IsTls
  /\ R!BufReader_init(c)
  /\ request' = [request EXCEPT ![c] = <<>>]
  /\ pc' = "upgrade"
  /\ cur' = c
  /\ UNCHANGED result

ws_connect(c) ==
  /\ pc = "idle"
  /\ attempts < MaxAttempts
  /\ attempts' = attempts + 1
  /\ ConnectFails(c) \/ ConnectSucceeds(c)
  /\ httpLine' = <<>>
  /\ headers' = <<>>
  /\ key' = 0

(* One write(2) carries the request.  On a blocking socket it takes all of *)
(* it; on a connection that was reset it fails, and the assertion on its   *)
(* result or SIGPIPE ends the process.                                     *)
ws_do_http_upgrade ==
  /\ pc = "upgrade"
  /\ key' \in Key
  /\ \/ /\ peer[cur] # "rst"
        /\ request' = [request EXCEPT ![cur] = Append(@, key')]
        /\ pc' = "status"
     \/ /\ peer[cur] = "rst"
        /\ pc' = "dead"
        /\ UNCHANGED request
  /\ UNCHANGED <<readerVars, cur, result, httpLine, headers, attempts>>

(* The line a successful read_until has just copied out.                   *)
LineRead == SubSeq(out'[cur], Len(out[cur]) + 1, Len(out'[cur]))

(* Read one line.  An assertion in the reader and every failed read end    *)
(* the process.                                                            *)
ReadLine ==
  /\ R!BufReader_read_until(cur)
  /\ UNCHANGED <<cur, result, key, request, attempts>>

LineFailed == aborted' \/ last'[cur].ret < 0

ReadStatusLine ==
  /\ pc = "status"
  /\ ReadLine
  /\ IF LineFailed
       THEN pc' = "dead" /\ UNCHANGED httpLine
       ELSE pc' = "headers" /\ httpLine' = bs_trim(LineRead)
  /\ UNCHANGED headers

\* Mutated form of ReadHeaderLine: a line of white space ends the headers.
ReadHeaderLine_BlankEnds ==
  /\ pc = "headers"
  /\ ReadLine
  /\ IF LineFailed
       THEN pc' = "dead" /\ UNCHANGED headers
       ELSE IF bs_trim(LineRead) = <<>>
         THEN pc' = "verify" /\ UNCHANGED headers
         ELSE headers' = Append(headers, bs_trim(LineRead)) /\ UNCHANGED pc
  /\ UNCHANGED httpLine

\* Mutated form of ReadHeaderLine: a failed read is tried again.
ReadHeaderLine_Retries ==
  /\ pc = "headers"
  /\ ReadLine
  /\ IF LineFailed \/ bs_trim(LineRead) = <<>>
       THEN /\ pc' = IF ~LineFailed /\ LineRead = CRLF THEN "verify" ELSE pc
            /\ UNCHANGED headers
       ELSE headers' = Append(headers, bs_trim(LineRead)) /\ UNCHANGED pc
  /\ UNCHANGED httpLine

(* An empty line ends the headers; a line of white space is unreachable.   *)
ReadHeaderLine ==
  /\ pc = "headers"
  /\ ReadLine
  /\ \/ LineFailed /\ pc' = "dead" /\ UNCHANGED headers
     \/ /\ ~LineFailed
        /\ LineRead = CRLF
        /\ pc' = "verify"
        /\ UNCHANGED headers
     \/ /\ ~LineFailed
        /\ LineRead # CRLF
        /\ \/ bs_trim(LineRead) = <<>> /\ pc' = "dead" /\ UNCHANGED headers
           \/ /\ bs_trim(LineRead) # <<>>
              /\ headers' = Append(headers, bs_trim(LineRead))
              /\ UNCHANGED pc
  /\ UNCHANGED httpLine

(* The checks of ws_connect on the parsed response.  A response that has   *)
(* no Sec-WebSocket-Accept header is dereferenced all the same, and a      *)
(* wrong value fails an assertion.                                         *)
VerifyResponse ==
  /\ pc = "verify"
  /\ LET code == _http_status_code(httpLine)
         found == _http_payload_header_get(headers)
         accepted ==
           \E i \in found : _ws_verify_websocket_sec_key(key, headers[i])
     IN  \/ /\ code \notin {0, 101}
            /\ Return("WS_CONNECTION_FAILURE")
         \/ /\ code = 101
            /\ accepted
            /\ Return("WS_SUCCESS")
         \/ /\ code = 0 \/ (code = 101 /\ ~accepted)
            /\ pc' = "dead"
            /\ UNCHANGED <<cur, result>>
  /\ UNCHANGED <<readerVars, key, request, httpLine, headers, attempts>>

-------------------------------------------------------------------------------
(* The server and the network, while a call is in progress: nothing reads  *)
(* or writes a connection between two calls of ws_connect.                 *)

(* The server answers the request, completely or breaking off anywhere.    *)
ServerAnswers(c) ==
  /\ c = cur
  /\ pc # "dead"
  /\ peer[c] = "open"
  /\ request[c] # <<>>
  /\ sent[c] = <<>>
  /\ \E answer \in Response[request[c][1]] :
       \E n \in 1 .. Len(answer) :
         sent' = [sent EXCEPT ![c] = SubSeq(answer, 1, n)]
  /\ UNCHANGED <<mem, len, rcvd, peer, out, last, aborted, callVars, request>>

ServerCloses(c) ==
  /\ c = cur
  /\ pc # "dead"
  /\ R!PeerClose(c)
  /\ UNCHANGED <<callVars, request>>

Server(c) == ServerAnswers(c) \/ ServerCloses(c)

-------------------------------------------------------------------------------
Init ==
  /\ R!Init
  /\ pc = "idle"
  /\ cur = "none"
  /\ result = [c \in Ctx |-> "none"]
  /\ key = 0
  /\ request = [c \in Ctx |-> <<>>]
  /\ httpLine = <<>>
  /\ headers = <<>>
  /\ attempts = 0

Client ==
  \/ ws_do_http_upgrade
  \/ ReadStatusLine
  \/ ReadHeaderLine
  \/ VerifyResponse

Next ==
  \/ \E c \in Ctx : ws_connect(c) \/ Server(c)
  \/ Client

Spec == Init /\ [][Next]_vars

-------------------------------------------------------------------------------
(* Properties.                                                             *)

Blank == CRLF \o CRLF
HeaderEnds(s) ==
  {i \in 0 .. Len(s) - 4 : SubSeq(s, i + 1, i + 4) = Blank}

Unread(c) == R!Unread(c)

(* The part of a connection's bytes that is the response header, as far as *)
(* it was sent.                                                            *)
HeaderOf(s) ==
  IF HeaderEnds(s) = {} THEN s
  ELSE SubSeq(s, 1, 4 + CHOOSE i \in HeaderEnds(s) : \A j \in HeaderEnds(s) : i <= j)

(* Whatever earlier attempts and other contexts left in the static array,  *)
(* the call sees the bytes of its own connection, in order and complete.   *)
OwnResponseOnly ==
  cur # "none" => out[cur] \o Unread(cur) = SubSeq(sent[cur], 1, rcvd[cur])

(* A call that read a response took exactly its header: the blank line is  *)
(* the last thing handed out and the first frame has not been touched.     *)
HeaderTakenExactly ==
  \A c \in Ctx :
    c # cur /\ out[c] # <<>> =>
      /\ HeaderEnds(sent[c]) # {}
      /\ out[c] = HeaderOf(sent[c])

(* WS_SUCCESS is returned only for the server's 101 answer to the one      *)
(* request of this connection, whose first Sec-WebSocket-Accept is the one *)
(* computed from the key the server was sent.                              *)
SuccessIsVerified ==
  \A c \in Ctx :
    c # cur /\ result[c] = "WS_SUCCESS" =>
      LET header == HeaderOf(sent[c])
          accepts == {i \in 1 .. Len(header) : header[i][1] = "accept"}
      IN  /\ Len(request[c]) = 1
          /\ header[1] = <<"status", 101>>
          /\ \E i \in accepts : header[i][2] = request[c][1]
                               /\ \A j \in accepts : i <= j

(* As long as the connection is not reset and no line was incomplete when  *)
(* it was read, the process survives every answer that has a status code,  *)
(* no blank header line and, when the code is 101, the right accept value  *)
(* first, in whatever pieces the network delivers its lines.               *)
OnlyWrongAnswersKill ==
  pc = "dead" /\ peer[cur] # "rst" /\ last[cur].ret >= 0 =>
    LET header == HeaderOf(sent[cur])
        accepts == {i \in 1 .. Len(header) : header[i][1] = "accept"}
    IN  \/ header[1] \notin {"status"} \X {101, 400}
        \/ Tok("sp") \in {header[i] : i \in 2 .. Len(header)}
        \/ /\ header[1] = <<"status", 101>>
           /\ ~\E i \in accepts : /\ header[i][2] = request[cur][1]
                                 /\ \A j \in accepts : i <= j

(* What a call of ws_connect still has to do: its phases and the bytes of  *)
(* an answer of any length it has not taken.                               *)
PhasesLeft == CASE pc = "upgrade" -> 3 [] pc = "status" -> 2 [] OTHER -> 1

ToDo ==
  IF pc \in {"idle", "dead"} THEN 0 ELSE PhasesLeft + MaxLen - Len(out[cur])

(* Every system call of ws_connect brings it nearer its end, in a verdict  *)
(* or in the death of the process: no line is read twice, no failed read   *)
(* is tried again, and no answer keeps it going for ever.                  *)
CallAdvances == [][Client => 0 <= ToDo' /\ ToDo' < ToDo]_vars

(* "failed to read": a line read of ws__http_read_header fails only on a   *)
(* connection that has failed.                                             *)
FailedReadMeansFailedConnection ==
  pc = "dead" /\ last[cur].ret < 0 => peer[cur] # "open"

-------------------------------------------------------------------------------
(* Answers the theorems are about.  Their tokens are what the parser tells *)
(* apart: a status line or an accept header is one where a line starts     *)
(* with it, so white space in front of one is not among them.              *)

EndsAt(s, i) == s[i] = Tok("cr") /\ s[i + 1] = Tok("lf")
StartsLine(s, i) == i = 1 \/ (i > 2 /\ EndsAt(s, i - 2))

TokensStartLines(s) ==
  \A i \in 1 .. Len(s) : s[i][1] \in {"status", "accept"} => StartsLine(s, i)

\* A line break is a CR followed by an LF.
PairedBreaks(s) ==
  \A i \in 1 .. Len(s) :
    /\ s[i] = Tok("cr") /\ i < Len(s) => s[i + 1] = Tok("lf")
    /\ s[i] = Tok("lf") => i > 1 /\ s[i - 1] = Tok("cr")

\* An accept header consists of its value and white space.
AcceptsAlone(s) ==
  \A i \in 1 .. Len(s) - 1 : s[i][1] = "accept" => s[i + 1] \in Space

\* A line fits the line buffer.
LinesFit(s) ==
  \A i \in 1 .. Len(s) - (DestLen + 1) :
    StartsLine(s, i) => \E j \in i .. i + DestLen - 1 : EndsAt(s, j)

WellFormed(s) ==
  TokensStartLines(s) /\ PairedBreaks(s) /\ AcceptsAlone(s) /\ LinesFit(s)

AnswersStartLines ==
  \A k \in Key : \A answer \in Response[k] : TokensStartLines(answer)

AnswersWellFormed ==
  \A k \in Key : \A answer \in Response[k] : WellFormed(answer)
===============================================================================
