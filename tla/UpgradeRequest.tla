----------------------------- MODULE UpgradeRequest -----------------------------
(***************************************************************************)
(* ws_do_http_upgrade of websocket.c: the upgrade request is built line by *)
(* line in a string builder, whose realloc may fail, and written to the    *)
(* socket in one piece.                                                    *)
(*                                                                         *)
(* A line is its number; a step is one call of the builder.  A failed      *)
(* append is not looked at, a failed sprintf fails an assertion            *)
(* (pc = Dead).  Once a byte was stored behind the allocation anything may *)
(* follow, and the model stops.                                            *)
(***************************************************************************)
EXTENDS StringBuilder, FiniteSets

CONSTANTS
  MaxPath, \* bound: length of opts.path
  MaxOoms  \* bound: calls of realloc that fail

ASSUME BoundAssumption == MaxPath \in Nat /\ MaxOoms \in Nat

VARIABLES
  upgrade_request, \* the builder
  ooms,            \* failed calls of realloc
  path,            \* length of opts.path
  pc,              \* the line appended next, or one of the values below
  sent             \* the request on the wire: its lines, and those cut

vars == <<upgrade_request, ooms, path, pc, sent>>

(* The lengths of the lines, in the order in which they are appended.      *)
RequestLine == 1
SecWebSocketKey == 5
LineLen == <<15 + path, 17, 20, 21, 45, 26, 30, 27, 2>>
Line == DOMAIN LineLen
Sprintf == {RequestLine, SecWebSocketKey}
Write == 10
Done == 11
Dead == 12

NotSent == [lines |-> <<>>, cut |-> {}]

TypeOK ==
  /\ upgrade_request.capacity \in Nat
  /\ upgrade_request.len \in 0 .. upgrade_request.capacity
  /\ upgrade_request.alloc \in Nat
  /\ upgrade_request.pieces \in Seq(Line)
  /\ upgrade_request.cut \subseteq Line
  /\ upgrade_request.overrun \in BOOLEAN
  /\ ooms \in 0 .. MaxOoms
  /\ path \in 0 .. MaxPath
  /\ pc \in 1 .. Dead
  /\ sent \in [lines : Seq(Line), cut : SUBSET Line]

Running == pc \in Line /\ ~upgrade_request.overrun

Called(r) ==
  /\ upgrade_request' = r.b
  /\ ooms' = ooms + Failed(r)
  /\ ooms' <= MaxOoms
  /\ UNCHANGED <<path, sent>>

AppendLine ==
  /\ Running
  /\ pc \notin Sprintf
  /\ \E r \in bs_builder_append_sv(upgrade_request, pc, LineLen[pc]) : Called(r)
  /\ pc' = pc + 1

\* Mutated form of FormatLine: a failed sprintf is not looked at either.
FormatLine_Unchecked ==
  /\ Running
  /\ pc \in Sprintf
  /\ \E r \in bs_builder_vsprintf(upgrade_request, pc, LineLen[pc]) : Called(r)
  /\ pc' = pc + 1

FormatLine ==
  /\ Running
  /\ pc \in Sprintf
  /\ \E r \in bs_builder_vsprintf(upgrade_request, pc, LineLen[pc]) :
       /\ Called(r)
       /\ pc' = IF r.ok THEN pc + 1 ELSE Dead

(* write(2) takes the whole request or the assertion on its result fails.  *)
ws__write_raw ==
  /\ pc = Write
  /\ ~upgrade_request.overrun
  /\ \/ /\ sent' = [lines |-> upgrade_request.pieces, cut |-> upgrade_request.cut]
        /\ upgrade_request' = bs_builder_destory(upgrade_request)
        /\ pc' = Done
     \/ /\ pc' = Dead
        /\ UNCHANGED <<upgrade_request, sent>>
  /\ UNCHANGED <<ooms, path>>

Init ==
  /\ upgrade_request = bs_builder_new
  /\ ooms = 0
  /\ path \in 0 .. MaxPath
  /\ pc = RequestLine
  /\ sent = NotSent

Next == AppendLine \/ FormatLine \/ ws__write_raw

Spec == Init /\ [][Next]_vars

-------------------------------------------------------------------------------
(* Properties.                                                             *)

(* As long as every realloc succeeds, capacity never claims more than was  *)
(* allocated and no line is stored behind the allocation.                  *)
InAllocation ==
  ooms = 0 => /\ upgrade_request.capacity <= upgrade_request.alloc
              /\ ~upgrade_request.overrun

(* A request on the wire has its lines in order and each once; what a      *)
(* failed realloc may take away is a line that was appended without a look *)
(* at the result, one for each failure, and never the request line or the  *)
(* key.                                                                    *)
OnlyAppendedLinesLost ==
  pc = Done =>
    LET lines == sent.lines
        kept == {lines[i] : i \in DOMAIN lines}
    IN  /\ \A i, j \in DOMAIN lines : i < j => lines[i] < lines[j]
        /\ Sprintf \subseteq kept
        /\ Cardinality(Line \ kept) <= ooms

(* The request line is never cut: on a fresh builder the reservation is    *)
(* larger than the text.                                                   *)
RequestLineWhole == RequestLine \notin upgrade_request.cut \cup sent.cut

(* The text "Sec-WebSocket-Key: ...\r\n" reaches the server as it is       *)
(* written in the code.                                                    *)
KeyLineWhole == ooms = 0 => SecWebSocketKey \notin sent.cut
===============================================================================
