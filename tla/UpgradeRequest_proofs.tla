------------------------- MODULE UpgradeRequest_proofs -------------------------
(***************************************************************************)
(* What is proved of the upgrade request for every length of the path and  *)
(* any number of failed allocations: that it is built in its allocation,   *)
(* which lines may be missing from it and that the first is never cut.     *)
(*                                                                         *)
(* Space is of no interest here; it comes with the lemmas on strings.      *)
(***************************************************************************)
EXTENDS UpgradeRequest, Strings_proofs, FiniteSetTheorems

-------------------------------------------------------------------------------
(* The lines.                                                              *)

Kept(pieces) == {pieces[i] : i \in DOMAIN pieces}

(* What a list of lines satisfies when the lines before next were          *)
(* attempted in order, lost of them without success.                       *)
Attempted(pieces, next, lost) ==
  /\ pieces \in Seq(1 .. Write - 1)
  /\ \A i, j \in DOMAIN pieces : i < j => pieces[i] < pieces[j]
  /\ Kept(pieces) \subseteq 1 .. next - 1
  /\ Sprintf \cap 1 .. next - 1 \subseteq Kept(pieces)
  /\ Cardinality((1 .. next - 1) \ Kept(pieces)) <= lost

LEMMA LinesAreNumbers == Line = 1 .. Write - 1
BY DEF Line, LineLen, Write

LEMMA KeptOfAppend ==
  ASSUME NEW pieces \in Seq(1 .. Write - 1), NEW line \in 1 .. Write - 1
  PROVE  Kept(Append(pieces, line)) = Kept(pieces) \cup {line}
<1> DEFINE p == Append(pieces, line)
<1>1. Len(pieces) \in Nat /\ DOMAIN pieces = 1 .. Len(pieces)
  OBVIOUS
<1>2. /\ DOMAIN p = 1 .. Len(pieces) + 1
      /\ p[Len(pieces) + 1] = line
      /\ \A i \in 1 .. Len(pieces) : p[i] = pieces[i]
  BY <1>1
<1> HIDE DEF p
<1>3. Kept(p) = {p[i] : i \in 1 .. Len(pieces) + 1}
  BY <1>2 DEF Kept
<1>4. \A i \in 1 .. Len(pieces) + 1 : i \in 1 .. Len(pieces) \/ i = Len(pieces) + 1
  BY <1>1
<1>5. Kept(p) \subseteq Kept(pieces) \cup {line}
  BY <1>1, <1>2, <1>3, <1>4 DEF Kept
<1>6. Kept(pieces) \subseteq Kept(p)
  <2>1. \A i \in 1 .. Len(pieces) : i \in 1 .. Len(pieces) + 1
    BY <1>1
  <2> QED
    BY <1>1, <1>2, <1>3, <2>1 DEF Kept
<1>7. line \in Kept(p)
  <2>1. Len(pieces) + 1 \in 1 .. Len(pieces) + 1
    BY <1>1
  <2> QED
    BY <1>2, <1>3, <2>1
<1> QED
  BY <1>5, <1>6, <1>7 DEF p

(* A line that was appended.                                               *)
LEMMA AttemptAppended ==
  ASSUME NEW pieces, NEW next \in 1 .. Write - 1, NEW lost \in Nat,
         Attempted(pieces, next, lost)
  PROVE  Attempted(Append(pieces, next), next + 1, lost)
<1> DEFINE p == Append(pieces, next)
<1>1. next \in 1 .. 9 /\ pieces \in Seq(1 .. Write - 1)
  BY DEF Attempted, Write
<1>2. Kept(p) = Kept(pieces) \cup {next}
  BY <1>1, KeptOfAppend
<1>3. p \in Seq(1 .. Write - 1)
  BY <1>1 DEF Write
<1>4. \A i, j \in DOMAIN p : i < j => p[i] < p[j]
  <2>1. SUFFICES ASSUME NEW i \in DOMAIN p, NEW j \in DOMAIN p, i < j
                 PROVE  p[i] < p[j]
    OBVIOUS
  <2>2. /\ Len(pieces) \in Nat /\ DOMAIN pieces = 1 .. Len(pieces)
        /\ DOMAIN p = 1 .. Len(pieces) + 1
        /\ p[Len(pieces) + 1] = next
        /\ \A k \in 1 .. Len(pieces) : p[k] = pieces[k]
    BY <1>1
  <2> HIDE DEF p
  <2>3. i \in 1 .. Len(pieces) /\ p[i] = pieces[i]
    BY <2>1, <2>2
  <2>4. CASE j \in 1 .. Len(pieces)
    BY <2>1, <2>2, <2>3, <2>4 DEF Attempted
  <2>5. CASE j = Len(pieces) + 1
    <3>1. pieces[i] \in Kept(pieces)
      BY <2>2, <2>3 DEF Kept
    <3>2. pieces[i] \in 1 .. next - 1
      BY <3>1 DEF Attempted
    <3> QED
      BY <1>1, <2>2, <2>3, <2>5, <3>2
  <2> QED
    BY <2>1, <2>2, <2>4, <2>5
<1>5. 1 .. (next + 1) - 1 = (1 .. next - 1) \cup {next} /\ next \notin 1 .. next - 1
  BY <1>1
<1>6. (1 .. (next + 1) - 1) \ Kept(p) = (1 .. next - 1) \ Kept(pieces)
  BY <1>2, <1>5 DEF Attempted
<1> HIDE DEF p
<1>7. /\ Kept(p) \subseteq 1 .. (next + 1) - 1
      /\ Sprintf \cap 1 .. (next + 1) - 1 \subseteq Kept(p)
  BY <1>2, <1>5 DEF Attempted
<1>8. Cardinality((1 .. (next + 1) - 1) \ Kept(p)) <= lost
  BY <1>6 DEF Attempted
<1> QED
  BY <1>3, <1>4, <1>7, <1>8 DEF Attempted, p

(* A line that was not, and is none of those whose loss is noticed.        *)
LEMMA AttemptLost ==
  ASSUME NEW pieces, NEW next \in 1 .. Write - 1, NEW lost \in Nat,
         next \notin Sprintf,
         Attempted(pieces, next, lost)
  PROVE  Attempted(pieces, next + 1, lost + 1)
<1> DEFINE missing == (1 .. next - 1) \ Kept(pieces)
<1>1. next \in 1 .. 9
  BY DEF Write
<1>2. 1 .. (next + 1) - 1 = (1 .. next - 1) \cup {next} /\ next \notin 1 .. next - 1
  BY <1>1
<1>3. (1 .. (next + 1) - 1) \ Kept(pieces) = missing \cup {next} /\ next \notin missing
  BY <1>2 DEF Attempted
<1>4. IsFiniteSet(missing) /\ Cardinality(missing) \in Nat
  <2>1. IsFiniteSet(1 .. next - 1)
    BY <1>1, FS_Interval
  <2>2. IsFiniteSet(missing)
    BY <2>1, FS_Subset
  <2> QED
    BY <2>2, FS_CardinalityType
<1>5. Cardinality(missing \cup {next}) = Cardinality(missing) + 1
  BY <1>3, <1>4, FS_AddElement
<1>6. Cardinality(missing) <= lost
  BY DEF Attempted
<1>7. Cardinality((1 .. (next + 1) - 1) \ Kept(pieces)) <= lost + 1
  <2> HIDE DEF missing
  <2>1. Cardinality((1 .. (next + 1) - 1) \ Kept(pieces)) = Cardinality(missing) + 1
    BY <1>3, <1>5
  <2> QED
    BY <1>4, <1>6, <2>1
<1>8. /\ Kept(pieces) \subseteq 1 .. (next + 1) - 1
      /\ Sprintf \cap 1 .. (next + 1) - 1 \subseteq Kept(pieces)
  BY <1>2 DEF Attempted
<1> QED
  BY <1>7, <1>8 DEF Attempted

-------------------------------------------------------------------------------
(* The builder along the lines.                                            *)

AllocInv ==
  /\ upgrade_request \in BuilderOf(1 .. Write - 1)
  /\ Fits(upgrade_request)
  /\ ooms \in 0 .. MaxOoms
  /\ path \in 0 .. MaxPath
  /\ pc \in 1 .. Dead
  /\ sent \in [lines : Seq(1 .. Write - 1), cut : SUBSET (1 .. Write - 1)]
  /\ ooms = 0 => Owned(upgrade_request)
  /\ pc = RequestLine => upgrade_request.len = 0 /\ upgrade_request.capacity = 0
  /\ RequestLineWhole

LEMMA AllocInvInit == Init => AllocInv
<1> SUFFICES ASSUME Init PROVE AllocInv
  OBVIOUS
<1> DEFINE new == bs_builder_new
<1>1. /\ new \in BuilderOf(1 .. Write - 1) /\ new.len = 0 /\ new.capacity = 0 /\ new.alloc = 0
      /\ new.cut = {} /\ new.overrun = FALSE
  BY DEF bs_builder_new, BuilderOf
<1>2. upgrade_request = new /\ ooms = 0 /\ path \in 0 .. MaxPath /\ pc = RequestLine
      /\ sent = NotSent
  BY DEF Init
<1>3. sent \in [lines : Seq(1 .. Write - 1), cut : SUBSET (1 .. Write - 1)] /\ sent.cut = {}
  BY <1>2 DEF NotSent
<1> HIDE DEF new
<1>4. Fits(new) /\ Owned(new)
  BY <1>1 DEF Fits, Owned
<1> QED
  BY <1>1, <1>2, <1>3, <1>4, BoundAssumption
  DEF AllocInv, RequestLineWhole, RequestLine, Dead

(* The lines are texts of some length.                                     *)
LEMMA LineTypes ==
  ASSUME AllocInv
  PROVE  /\ Line = 1 .. 9 /\ Write - 1 = 9
         /\ \A line \in Line : LineLen[line] \in Nat
         /\ LineLen[RequestLine] > 0
<1>1. path \in Nat
  BY BoundAssumption DEF AllocInv
<1> QED
  BY <1>1 DEF Line, LineLen, RequestLine, Write

LEMMA AppendLineAllocates == AllocInv /\ AppendLine => AllocInv'
<1> SUFFICES ASSUME AllocInv, AppendLine PROVE AllocInv'
  OBVIOUS
<1>1. /\ pc \in Line /\ pc # RequestLine /\ pc' = pc + 1
      /\ UNCHANGED <<path, sent>>
  BY DEF AppendLine, Running, Called, Sprintf
<1>2. PICK r \in bs_builder_append_sv(upgrade_request, pc, LineLen[pc]) :
           /\ upgrade_request' = r.b
           /\ ooms' = ooms + Failed(r)
           /\ ooms' <= MaxOoms
  BY DEF AppendLine, Called
<1>3. /\ r.ok \in BOOLEAN /\ r.b \in BuilderOf(1 .. Write - 1) /\ Fits(r.b)
      /\ r.b.cut = upgrade_request.cut
      /\ r.ok /\ Owned(upgrade_request) => Owned(r.b)
  <2>1. upgrade_request \in BuilderOf(1 .. Write - 1) /\ Fits(upgrade_request)
        /\ LineLen[pc] \in Nat /\ pc \in 1 .. Write - 1
    <3>1. LineLen[pc] \in Nat /\ pc \in 1 .. Write - 1
      BY <1>1, LineTypes, LinesAreNumbers
    <3> QED
      BY <3>1 DEF AllocInv
  <2>2. Appends(1 .. Write - 1, upgrade_request, pc, LineLen[pc], r)
    BY <1>2, <2>1, AppendAdds
  <2> QED
    BY <2>2 DEF Appends, Adds, Owned
<1>4. ooms' \in 0 .. MaxOoms /\ (ooms' = 0 => ooms = 0 /\ r.ok)
  BY <1>2, <1>3, BoundAssumption DEF AllocInv, Failed
<1>5. pc' \in 1 .. Dead /\ pc' # RequestLine
  BY <1>1, LineTypes DEF Dead, RequestLine
<1> QED
  BY <1>1, <1>2, <1>3, <1>4, <1>5 DEF AllocInv, RequestLineWhole

LEMMA FormatLineAllocates == AllocInv /\ FormatLine => AllocInv'
<1> SUFFICES ASSUME AllocInv, FormatLine PROVE AllocInv'
  OBVIOUS
<1>1. /\ pc \in Line
      /\ UNCHANGED <<path, sent>>
  BY DEF FormatLine, Running, Called
<1>2. PICK r \in bs_builder_vsprintf(upgrade_request, pc, LineLen[pc]) :
           /\ upgrade_request' = r.b
           /\ ooms' = ooms + Failed(r)
           /\ ooms' <= MaxOoms
           /\ pc' = IF r.ok THEN pc + 1 ELSE Dead
  BY DEF FormatLine, Called
<1>3. /\ r.ok \in BOOLEAN /\ r.b \in BuilderOf(1 .. Write - 1) /\ Fits(r.b)
      /\ RequestLine \notin r.b.cut
      /\ r.ok /\ Owned(upgrade_request) => Owned(r.b)
  <2>1. upgrade_request \in BuilderOf(1 .. Write - 1) /\ Fits(upgrade_request)
        /\ LineLen[pc] \in Nat /\ pc \in 1 .. Write - 1
    <3>1. LineLen[pc] \in Nat /\ pc \in 1 .. Write - 1
      BY <1>1, LineTypes, LinesAreNumbers
    <3> QED
      BY <3>1 DEF AllocInv
  <2>2. Prints(1 .. Write - 1, upgrade_request, pc, LineLen[pc], r)
    BY <1>2, <2>1, SprintfAdds
  <2>3. CASE pc = RequestLine
    <3>1. upgrade_request.len = 0 /\ upgrade_request.capacity = 0
          /\ LineLen[pc] \in Nat /\ LineLen[pc] > 0
      BY <2>1, <2>3, LineTypes DEF AllocInv
    <3>2. ~(upgrade_request.capacity >= upgrade_request.len + LineLen[pc])
      BY <3>1
    <3> QED
      BY <2>2, <3>2 DEF AllocInv, RequestLineWhole, Prints, Adds
  <2>4. CASE pc # RequestLine
    BY <2>2, <2>4 DEF AllocInv, RequestLineWhole, Prints, Adds
  <2> QED
    BY <2>3, <2>4
<1>4. ooms' \in 0 .. MaxOoms /\ (ooms' = 0 => ooms = 0 /\ r.ok)
  BY <1>2, <1>3, BoundAssumption DEF AllocInv, Failed
<1>5. pc' \in 1 .. Dead /\ pc' # RequestLine
  BY <1>1, <1>2, LineTypes DEF Dead, RequestLine
<1> QED
  BY <1>1, <1>2, <1>3, <1>4, <1>5 DEF AllocInv, RequestLineWhole

LEMMA AllocInvStep == AllocInv /\ [Next]_vars => AllocInv'
<1> SUFFICES ASSUME AllocInv, [Next]_vars PROVE AllocInv'
  OBVIOUS
<1>1. CASE AppendLine
  BY <1>1, AppendLineAllocates
<1>2. CASE FormatLine
  BY <1>2, FormatLineAllocates
<1>3. CASE ws__write_raw
  <2>1. CASE /\ sent' = [lines |-> upgrade_request.pieces, cut |-> upgrade_request.cut]
             /\ upgrade_request' = bs_builder_destory(upgrade_request)
             /\ pc' = Done
    <3> DEFINE left == bs_builder_destory(upgrade_request)
    <3>1. ~upgrade_request.overrun /\ UNCHANGED <<ooms, path>>
          /\ upgrade_request.overrun \in BOOLEAN
      BY <1>3 DEF ws__write_raw, AllocInv, BuilderOf
    <3>2. /\ left \in BuilderOf(1 .. Write - 1) /\ left.len = 0 /\ left.capacity = 0
          /\ left.alloc = 0 /\ left.cut = {} /\ left.overrun = upgrade_request.overrun
      <4> DEFINE new == bs_builder_new
      <4>1. /\ new \in BuilderOf(1 .. Write - 1) /\ new.len = 0 /\ new.capacity = 0
            /\ new.alloc = 0 /\ new.cut = {}
        BY DEF bs_builder_new, BuilderOf
      <4>2. left = [new EXCEPT !.overrun = upgrade_request.overrun]
        BY DEF bs_builder_destory
      <4> HIDE DEF new
      <4> QED
        BY <3>1, <4>1, <4>2 DEF BuilderOf
    <3>3. /\ sent' \in [lines : Seq(1 .. Write - 1), cut : SUBSET (1 .. Write - 1)]
          /\ sent'.cut = upgrade_request.cut
      BY <2>1 DEF AllocInv, BuilderOf
    <3> HIDE DEF left
    <3>4. Fits(left) /\ Owned(left)
      BY <3>1, <3>2 DEF Fits, Owned
    <3> QED
      BY <2>1, <3>1, <3>2, <3>3, <3>4
      DEF AllocInv, RequestLineWhole, RequestLine, Done, Dead, left
  <2>2. CASE pc' = Dead /\ UNCHANGED <<upgrade_request, sent>>
    BY <1>3, <2>2 DEF ws__write_raw, AllocInv, RequestLineWhole, RequestLine, Dead
  <2> QED
    BY <1>3, <2>1, <2>2 DEF ws__write_raw
<1>4. CASE UNCHANGED vars
  BY <1>4 DEF AllocInv, vars, RequestLineWhole
<1> QED
  BY <1>1, <1>2, <1>3, <1>4 DEF Next

-------------------------------------------------------------------------------
(* The lines attempted so far: OnlyAppendedLinesLost of an unsent request. *)

LossInv ==
  /\ pc \in 1 .. Write => Attempted(upgrade_request.pieces, pc, ooms)
  /\ pc = Done => Attempted(sent.lines, Write, ooms)

LEMMA LossInvInit == Init => LossInv
<1> SUFFICES ASSUME Init PROVE LossInv
  OBVIOUS
<1> DEFINE new == bs_builder_new
<1>1. new.pieces = <<>>
  BY DEF bs_builder_new
<1>2. pc = 1 /\ ooms = 0 /\ upgrade_request = new
  BY DEF Init, RequestLine
<1>3. Attempted(<<>>, 1, 0)
  <2>1. Kept(<<>>) = {}
    BY DEF Kept
  <2>2. 1 .. 1 - 1 = {}
    OBVIOUS
  <2>3. Cardinality((1 .. 1 - 1) \ Kept(<<>>)) = 0
    BY <2>1, <2>2, FS_EmptySet
  <2> QED
    BY <2>1, <2>2, <2>3 DEF Attempted, Write
<1> HIDE DEF new
<1> QED
  BY <1>1, <1>2, <1>3 DEF LossInv, Write, Done

LEMMA LossInvStep == AllocInv /\ LossInv /\ [Next]_vars => LossInv'
<1> SUFFICES ASSUME AllocInv, LossInv, [Next]_vars PROVE LossInv'
  OBVIOUS
<1> USE DEF Write, Done, Dead
<1>0. ooms \in Nat
  BY BoundAssumption DEF AllocInv
<1>1. /\ upgrade_request \in BuilderOf(1 .. Write - 1) /\ Fits(upgrade_request)
      /\ Line = 1 .. 9 /\ \A line \in Line : LineLen[line] \in Nat
  BY LineTypes DEF AllocInv
<1>2. CASE AppendLine
  <2>1. pc \in 1 .. 9 /\ pc \notin Sprintf /\ pc' = pc + 1
    BY <1>1, <1>2 DEF AppendLine, Running
  <2>2. PICK r \in bs_builder_append_sv(upgrade_request, pc, LineLen[pc]) : Called(r)
    BY <1>2 DEF AppendLine
  <2>3. Attempted(upgrade_request.pieces, pc, ooms)
    BY <2>1 DEF LossInv
  <2>4. Adds(upgrade_request, pc, LineLen[pc], r)
    <3>1. pc \in 1 .. Write - 1 /\ LineLen[pc] \in Nat
      BY <1>1, <2>1
    <3> QED
      BY <1>1, <3>1, AppendAdds DEF Appends
  <2>5. CASE r.ok
    <3>1. /\ ooms' = ooms
          /\ upgrade_request'.pieces = Append(upgrade_request.pieces, pc)
      BY <1>0, <2>2, <2>4, <2>5 DEF Called, Failed, Adds
    <3>2. Attempted(upgrade_request'.pieces, pc', ooms')
      BY <1>0, <2>1, <2>3, <3>1, AttemptAppended
    <3> QED
      BY <2>1, <3>1, <3>2 DEF LossInv
  <2>6. CASE ~r.ok
    <3>1. /\ ooms' = ooms + 1
          /\ upgrade_request'.pieces = upgrade_request.pieces
      BY <1>0, <2>2, <2>4, <2>6 DEF Called, Failed, Adds
    <3>2. Attempted(upgrade_request'.pieces, pc', ooms')
      BY <1>0, <2>1, <2>3, <3>1, AttemptLost
    <3> QED
      BY <2>1, <3>1, <3>2 DEF LossInv
  <2> QED
    BY <2>5, <2>6
<1>3. CASE FormatLine
  <2>1. pc \in 1 .. 9
    BY <1>1, <1>3 DEF FormatLine, Running
  <2>2. PICK r \in bs_builder_vsprintf(upgrade_request, pc, LineLen[pc]) :
               Called(r) /\ pc' = IF r.ok THEN pc + 1 ELSE Dead
    BY <1>3 DEF FormatLine
  <2>3. Attempted(upgrade_request.pieces, pc, ooms)
    BY <2>1 DEF LossInv
  <2>4. Adds(upgrade_request, pc, LineLen[pc], r)
    <3>1. pc \in 1 .. Write - 1 /\ LineLen[pc] \in Nat
      BY <1>1, <2>1
    <3> QED
      BY <1>1, <3>1, SprintfAdds DEF Prints
  <2>5. CASE r.ok
    <3>1. /\ ooms' = ooms /\ pc' = pc + 1
          /\ upgrade_request'.pieces = Append(upgrade_request.pieces, pc)
      BY <1>0, <2>2, <2>4, <2>5 DEF Called, Failed, Adds
    <3>2. Attempted(upgrade_request'.pieces, pc', ooms')
      BY <1>0, <2>1, <2>3, <3>1, AttemptAppended
    <3> QED
      BY <2>1, <3>1, <3>2 DEF LossInv
  <2>6. CASE ~r.ok
    BY <2>2, <2>6 DEF LossInv
  <2> QED
    BY <2>5, <2>6
<1>4. CASE ws__write_raw
  <2>1. CASE pc' = Done /\ sent' = [lines |-> upgrade_request.pieces,
                                    cut |-> upgrade_request.cut]
    BY <1>4, <2>1 DEF ws__write_raw, LossInv
  <2>2. CASE pc' = Dead
    BY <1>4, <2>2 DEF ws__write_raw, LossInv
  <2> QED
    BY <1>4, <2>1, <2>2 DEF ws__write_raw
<1>5. CASE UNCHANGED vars
  BY <1>5 DEF LossInv, vars
<1> QED
  BY <1>2, <1>3, <1>4, <1>5 DEF Next

LEMMA LossInvSuffices == LossInv => OnlyAppendedLinesLost
<1> SUFFICES ASSUME LossInv, pc = Done
             PROVE  /\ \A i, j \in DOMAIN sent.lines : i < j => sent.lines[i] < sent.lines[j]
                    /\ Sprintf \subseteq Kept(sent.lines)
                    /\ Cardinality(Line \ Kept(sent.lines)) <= ooms
  BY DEF OnlyAppendedLinesLost, Kept
<1>1. Attempted(sent.lines, Write, ooms)
  BY DEF LossInv
<1>2. Sprintf \subseteq 1 .. Write - 1
  BY DEF Sprintf, RequestLine, SecWebSocketKey, Write
<1> QED
  BY <1>1, <1>2, LinesAreNumbers DEF Attempted

-------------------------------------------------------------------------------
(* The theorems.                                                           *)

LEMMA AllocInvAlways == Spec => []AllocInv
BY AllocInvInit, AllocInvStep, PTL DEF Spec

(* Every state of ws_do_http_upgrade's builder is well-typed: whatever     *)
(* realloc answers, the length never passes the recorded capacity.         *)
THEOREM TypeCorrect == Spec => []TypeOK
<1>1. AllocInv => TypeOK
  BY LinesAreNumbers DEF AllocInv, TypeOK, BuilderOf, Fits
<1> QED
  BY <1>1, AllocInvAlways, PTL

(* Whatever the length of the path, as long as memory lasts nothing is     *)
(* stored behind the allocation: what bs_builder_reserve asks for is       *)
(* always enough, its strict and its lax comparison included.              *)
THEOREM StaysInAllocation == Spec => []InAllocation
<1>1. AllocInv => InAllocation
  BY DEF AllocInv, InAllocation, Owned
<1> QED
  BY <1>1, AllocInvAlways, PTL

(* The request line is never cut, however long the path is and however     *)
(* many allocations fail.                                                  *)
THEOREM RequestLineUncut == Spec => []RequestLineWhole
<1>1. AllocInv => RequestLineWhole
  BY DEF AllocInv
<1> QED
  BY <1>1, AllocInvAlways, PTL

(* Whatever the length of the path and however many of its allocations     *)
(* fail, an upgrade request on the wire has its lines in order and lacks   *)
(* only lines ws_do_http_upgrade appended without a look at the result.    *)
THEOREM LinesLost == Spec => []OnlyAppendedLinesLost
<1>1. Init => LossInv
  BY LossInvInit
<1>2. AllocInv /\ LossInv /\ [Next]_vars => LossInv'
  BY LossInvStep
<1>3. LossInv => OnlyAppendedLinesLost
  BY LossInvSuffices
<1> QED
  BY <1>1, <1>2, <1>3, AllocInvAlways, PTL DEF Spec
===============================================================================
