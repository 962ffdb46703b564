--------------------------- MODULE HttpPayload_proofs ---------------------------
(***************************************************************************)
(* What is proved of the parsed response, for every response, whichever    *)
(* allocations fail: the headers are those of the lines, nothing is stored *)
(* outside a block, the verdict is the one the response deserves, and      *)
(* while memory lasts only a wrong response ends the process.              *)
(***************************************************************************)
EXTENDS HttpPayload, Strings_proofs

-------------------------------------------------------------------------------
(* Trimmed text.                                                           *)

(* text lies behind the first i tokens of str, and white space around it.  *)
LiesAt(str, text, i) ==
  /\ i \in 0 .. Len(str) - Len(text)
  /\ \A k \in 1 .. Len(text) : text[k] = str[i + k]
  /\ \A j \in 1 .. i : str[j] \in Space
  /\ \A j \in i + Len(text) + 1 .. Len(str) : str[j] \in Space

Edges(text) == text # <<>> => text[1] \notin Space /\ text[Len(text)] \notin Space

LEMMA TrimmedLies ==
  ASSUME NEW str \in Seq(Token), NEW text \in Seq(Token)
  PROVE  Trimmed(str, text) <=> Edges(text) /\ \E i : LiesAt(str, text, i)
<1>1. Len(str) \in Nat /\ Len(text) \in Nat
  OBVIOUS
<1>2. ASSUME NEW i \in 0 .. Len(str) - Len(text)
      PROVE  SubSeq(str, i + 1, i + Len(text)) = text
               <=> \A k \in 1 .. Len(text) : text[k] = str[i + k]
  <2> DEFINE part == SubSeq(str, i + 1, i + Len(text))
  <2>1. i \in Nat /\ i + Len(text) \in Nat /\ i <= i + Len(text) /\ i + Len(text) <= Len(str)
        /\ (i + Len(text)) - i = Len(text)
    BY <1>1
  <2>2. /\ part \in Seq(Token) /\ Len(part) = Len(text)
        /\ \A k \in 1 .. Len(text) : part[k] = str[i + k]
    <3> DEFINE b == i + Len(text)
    <3>1. b \in Nat /\ i <= b /\ b <= Len(str) /\ b - i = Len(text)
      BY <2>1
    <3> HIDE DEF b
    <3>2. /\ SubSeq(str, i + 1, b) \in Seq(Token)
          /\ Len(SubSeq(str, i + 1, b)) = b - i
          /\ \A k \in 1 .. b - i : SubSeq(str, i + 1, b)[k] = str[i + k]
      BY <2>1, <3>1, PartOf
    <3> QED
      BY <3>1, <3>2 DEF b
  <2> HIDE DEF part
  <2>3. (\A k \in 1 .. Len(text) : text[k] = str[i + k]) => part = text
    <3> SUFFICES ASSUME \A k \in 1 .. Len(text) : text[k] = str[i + k] PROVE part = text
      OBVIOUS
    <3>1. \A k \in 1 .. Len(part) : part[k] = text[k]
      BY <2>2
    <3> QED
      BY <2>2, <3>1, SameView
  <2>4. part = text => \A k \in 1 .. Len(text) : text[k] = str[i + k]
    BY <2>2
  <2> QED
    BY <2>3, <2>4 DEF part
<1>3. ASSUME NEW i \in 0 .. Len(str) - Len(text)
      PROVE  (\A j \in (1 .. i) \cup (i + Len(text) + 1 .. Len(str)) : str[j] \in Space)
               <=> /\ \A j \in 1 .. i : str[j] \in Space
                   /\ \A j \in i + Len(text) + 1 .. Len(str) : str[j] \in Space
  OBVIOUS
<1> QED
  BY <1>2, <1>3 DEF Trimmed, Edges, LiesAt

LEMMA TrimIsTrimmed ==
  ASSUME NEW str \in Seq(Token)
  PROVE  bs_trim(str) \in Seq(Token) /\ Trimmed(str, bs_trim(str))
<1> DEFINE text == bs_trim(str)
<1>1. Len(str) \in Nat
  OBVIOUS
<1>2. CASE str = <<>>
  <2>1. text = <<>>
    BY <1>2 DEF bs_trim
  <2>2. LiesAt(str, <<>>, 0)
    BY <1>2 DEF LiesAt
  <2>3. Edges(<<>>)
    BY DEF Edges
  <2>4. <<>> \in Seq(Token)
    OBVIOUS
  <2> QED
    BY <2>1, <2>2, <2>3, <2>4, TrimmedLies
<1>3. CASE str # <<>>
  <2>1. PICK a \in 0 .. Len(str), b \in 1 .. Len(str) :
           /\ a <= b
           /\ text = SubSeq(str, a + 1, b)
           /\ \A j \in (1 .. a) \cup (b + 1 .. Len(str)) : str[j] \in Space
           /\ a = b \/ str[a + 1] \notin Space
           /\ b = 1 \/ str[b] \notin Space
    BY <1>3, TrimCuts
  <2> HIDE DEF text
  <2>2. /\ text \in Seq(Token) /\ Len(text) = b - a
        /\ \A k \in 1 .. b - a : text[k] = str[a + k]
    <3>1. a \in Nat /\ b \in Nat /\ a <= b /\ b <= Len(str)
      BY <1>1, <2>1
    <3> QED
      BY <2>1, <3>1, PartOf
  <2>3. LiesAt(str, text, a)
    BY <1>1, <2>1, <2>2 DEF LiesAt
  <2>4. Edges(text)
    <3>1. SUFFICES ASSUME text # <<>>
                   PROVE  text[1] \notin Space /\ text[Len(text)] \notin Space
      BY DEF Edges
    <3>2. a < b
      <4>1. Len(text) # 0
        BY <2>2, <3>1
      <4> QED
        BY <2>1, <2>2, <4>1
    <3>3. text[1] = str[a + 1] /\ text[b - a] = str[b]
      <4>1. 1 \in 1 .. b - a /\ b - a \in 1 .. b - a /\ a + (b - a) = b
        BY <2>1, <3>2
      <4> QED
        BY <2>2, <4>1
    <3>4. b = 1 => a + 1 = b
      BY <2>1, <3>2
    <3> QED
      BY <2>1, <2>2, <3>2, <3>3, <3>4
  <2> QED
    BY <2>2, <2>3, <2>4, TrimmedLies DEF text
<1> QED
  BY <1>2, <1>3

(* There is only one way to trim a text.                                   *)
LEMMA TrimmedOnce ==
  ASSUME NEW str \in Seq(Token), NEW s \in Seq(Token), NEW t \in Seq(Token),
         Trimmed(str, s), Trimmed(str, t)
  PROVE  s = t
<1>1. PICK i : LiesAt(str, s, i)
  BY TrimmedLies
<1>2. PICK j : LiesAt(str, t, j)
  BY TrimmedLies
<1>3. Edges(s) /\ Edges(t)
  BY TrimmedLies
<1>4. Len(str) \in Nat /\ Len(s) \in Nat /\ Len(t) \in Nat
  OBVIOUS
<1>5. i \in Nat /\ j \in Nat /\ i + Len(s) <= Len(str) /\ j + Len(t) <= Len(str)
  BY <1>1, <1>2, <1>4 DEF LiesAt
<1>6. \A u \in Seq(Token) : u # <<>> => Len(u) > 0
  OBVIOUS
<1>7. ASSUME NEW u \in Seq(Token), NEW k \in Nat, LiesAt(str, u, k), Edges(u), u # <<>>
      PROVE  /\ str[k + 1] \notin Space
             /\ str[k + Len(u)] \notin Space
  <2>1. Len(u) \in Nat /\ Len(u) > 0
    BY <1>6, <1>7
  <2>2. 1 \in 1 .. Len(u) /\ Len(u) \in 1 .. Len(u)
    BY <2>1
  <2>3. u[1] = str[k + 1] /\ u[Len(u)] = str[k + Len(u)]
    BY <1>7, <2>2 DEF LiesAt
  <2> QED
    BY <1>7, <2>3 DEF Edges
<1>8. ASSUME s = <<>>, t # <<>> PROVE FALSE
  <2>1. j + 1 \in 1 .. Len(str) /\ Len(t) > 0
    BY <1>4, <1>5, <1>6, <1>8
  <2>2. j + 1 \in 1 .. i \/ j + 1 \in i + Len(s) + 1 .. Len(str)
    <3>1. Len(s) = 0
      BY <1>8
    <3> QED
      BY <1>5, <2>1, <3>1
  <2>3. str[j + 1] \in Space
    BY <1>1, <2>2 DEF LiesAt
  <2> QED
    BY <1>2, <1>3, <1>5, <1>7, <1>8, <2>3
<1>9. ASSUME t = <<>>, s # <<>> PROVE FALSE
  <2>1. i + 1 \in 1 .. Len(str) /\ Len(s) > 0
    BY <1>4, <1>5, <1>6, <1>9
  <2>2. i + 1 \in 1 .. j \/ i + 1 \in j + Len(t) + 1 .. Len(str)
    <3>1. Len(t) = 0
      BY <1>9
    <3> QED
      BY <1>5, <2>1, <3>1
  <2>3. str[i + 1] \in Space
    BY <1>2, <2>2 DEF LiesAt
  <2> QED
    BY <1>1, <1>3, <1>5, <1>7, <1>9, <2>3
<1>10. CASE s # <<>> /\ t # <<>>
  <2>1. /\ str[i + 1] \notin Space /\ str[i + Len(s)] \notin Space
        /\ str[j + 1] \notin Space /\ str[j + Len(t)] \notin Space
    BY <1>1, <1>2, <1>3, <1>5, <1>7, <1>10
  <2>2. Len(s) > 0 /\ Len(t) > 0
    BY <1>6, <1>10
  <2>3. ~(i < j)
    <3>1. i < j => i + 1 \in 1 .. j
      BY <1>5
    <3> QED
      BY <1>2, <2>1, <3>1 DEF LiesAt
  <2>4. ~(j < i)
    <3>1. j < i => j + 1 \in 1 .. i
      BY <1>5
    <3> QED
      BY <1>1, <2>1, <3>1 DEF LiesAt
  <2>5. i = j
    BY <1>5, <2>3, <2>4
  <2>6. ~(Len(s) < Len(t))
    <3>1. Len(s) < Len(t) => j + Len(t) \in i + Len(s) + 1 .. Len(str)
      BY <1>4, <1>5, <2>5
    <3> QED
      BY <1>1, <2>1, <3>1 DEF LiesAt
  <2>7. ~(Len(t) < Len(s))
    <3>1. Len(t) < Len(s) => i + Len(s) \in j + Len(t) + 1 .. Len(str)
      BY <1>4, <1>5, <2>5
    <3> QED
      BY <1>2, <2>1, <3>1 DEF LiesAt
  <2>8. Len(s) = Len(t)
    BY <1>4, <2>6, <2>7
  <2>9. \A k \in 1 .. Len(s) : s[k] = t[k]
    BY <1>1, <1>2, <2>5, <2>8 DEF LiesAt
  <2> QED
    BY <2>8, <2>9, SameView
<1> QED
  BY <1>8, <1>9, <1>10

(* White space around a text makes no difference.                          *)
LEMMA TrimmedWithin ==
  ASSUME NEW str \in Seq(Token), NEW part \in Seq(Token), NEW a, LiesAt(str, part, a),
         NEW text \in Seq(Token), Trimmed(part, text)
  PROVE  Trimmed(str, text)
<1>1. PICK i : LiesAt(part, text, i)
  BY TrimmedLies
<1>2. Edges(text)
  BY TrimmedLies
<1>3. Len(str) \in Nat /\ Len(part) \in Nat /\ Len(text) \in Nat
  OBVIOUS
<1>4. /\ a \in Nat /\ i \in Nat /\ a + Len(part) <= Len(str) /\ i + Len(text) <= Len(part)
  BY <1>1, <1>3 DEF LiesAt
<1>5. a + i \in 0 .. Len(str) - Len(text)
  BY <1>3, <1>4
<1>6. ASSUME NEW k \in 1 .. Len(text) PROVE text[k] = str[(a + i) + k]
  <2>1. text[k] = part[i + k]
    BY <1>1 DEF LiesAt
  <2>2. i + k \in 1 .. Len(part) /\ a + (i + k) = (a + i) + k
    BY <1>3, <1>4
  <2> QED
    BY <2>1, <2>2 DEF LiesAt
<1>7. ASSUME NEW j \in 1 .. a + i PROVE str[j] \in Space
  <2>1. CASE j <= a
    <3>1. j \in 1 .. a
      BY <1>4, <2>1
    <3> QED
      BY <3>1 DEF LiesAt
  <2>2. CASE a < j
    <3>1. j - a \in 1 .. i /\ j - a \in 1 .. Len(part) /\ a + (j - a) = j
      BY <1>3, <1>4, <2>2
    <3>2. part[j - a] \in Space
      BY <1>1, <3>1 DEF LiesAt
    <3> QED
      BY <3>1, <3>2 DEF LiesAt
  <2> QED
    BY <1>4, <2>1, <2>2
<1>8. ASSUME NEW j \in (a + i) + Len(text) + 1 .. Len(str) PROVE str[j] \in Space
  <2>1. CASE j <= a + Len(part)
    <3>1. j - a \in i + Len(text) + 1 .. Len(part) /\ j - a \in 1 .. Len(part)
          /\ a + (j - a) = j
      BY <1>3, <1>4, <2>1
    <3>2. part[j - a] \in Space
      BY <1>1, <3>1 DEF LiesAt
    <3> QED
      BY <3>1, <3>2 DEF LiesAt
  <2>2. CASE a + Len(part) < j
    <3>1. j \in a + Len(part) + 1 .. Len(str)
      BY <1>3, <1>4, <2>2
    <3> QED
      BY <3>1 DEF LiesAt
  <2> QED
    BY <1>3, <1>4, <2>1, <2>2
<1>9. LiesAt(str, text, a + i)
  BY <1>5, <1>6, <1>7, <1>8 DEF LiesAt
<1> QED
  BY <1>2, <1>9, TrimmedLies

-------------------------------------------------------------------------------
(* A header line.                                                          *)

KeyOf(line) == bs_trim(bs_split_once_by_delim(bs_trim(line), ":").chopped.text)
ValueOf(line) == bs_trim(bs_split_once_by_delim(bs_trim(line), ":").rest)

(* _http_parse_header finds the key and the value.                         *)
LEMMA HeaderParsed ==
  ASSUME NEW line \in Seq(Token)
  PROVE  /\ KeyOf(line) \in Seq(Token)
         /\ ValueOf(line) \in Seq(Token)
         /\ IsHeaderOf(line, [key |-> KeyOf(line), value |-> ValueOf(line)])
<1> DEFINE t == bs_trim(line)
           split == bs_split_once_by_delim(t, ":")
<1>1. t \in Seq(Token) /\ Trimmed(line, t)
  BY TrimIsTrimmed
<1>2. KeyOf(line) = bs_trim(split.chopped.text) /\ ValueOf(line) = bs_trim(split.rest)
  BY DEF KeyOf, ValueOf
<1>3. split = Split(t, bs_char_at(t, ":"), 1)
  BY DEF bs_split_once_by_delim
<1> HIDE DEF t, split
<1>4. PICK a : LiesAt(line, t, a)
  BY <1>1, TrimmedLies
<1>5. Len(line) \in Nat /\ Len(t) \in Nat /\ a \in Nat /\ a + Len(t) <= Len(line)
  <2>1. Len(line) \in Nat /\ Len(t) \in Nat
    BY <1>1
  <2> QED
    BY <1>4, <2>1 DEF LiesAt
<1>6. ASSUME NEW c \in 1 .. Len(line), line[c] = ":"
      PROVE  c - a \in 1 .. Len(t) /\ t[c - a] = ":"
  <2>1. c \notin 1 .. a /\ c \notin a + Len(t) + 1 .. Len(line)
    BY <1>4, <1>6, SpaceAssumption DEF LiesAt
  <2>2. c - a \in 1 .. Len(t) /\ a + (c - a) = c
    BY <1>5, <2>1
  <2> QED
    BY <1>4, <1>6, <2>2 DEF LiesAt
<1>7. DOMAIN line = 1 .. Len(line)
  OBVIOUS
<1>8. CASE /\ bs_char_at(t, ":") = -1
           /\ \A k \in 1 .. Len(t) : t[k] # ":"
  <2>1. split.chopped.text = <<>> /\ split.rest = t
    BY <1>3, <1>8 DEF Split, NullView
  <2>2. KeyOf(line) = <<>>
    BY <1>2, <2>1 DEF bs_trim
  <2>3. Colons(line) = {}
    BY <1>6, <1>7, <1>8 DEF Colons
  <2>4. ValueOf(line) \in Seq(Token) /\ Trimmed(t, ValueOf(line))
    BY <1>1, <1>2, <2>1, TrimIsTrimmed
  <2>5. Trimmed(line, ValueOf(line))
    BY <1>1, <1>4, <2>4, TrimmedWithin
  <2> QED
    BY <2>2, <2>3, <2>4, <2>5 DEF IsHeaderOf
<1>9. ASSUME NEW i \in 0 .. Len(t) - 1,
             bs_char_at(t, ":") = i,
             t[i + 1] = ":",
             \A k \in 1 .. i : t[k] # ":"
      PROVE  /\ KeyOf(line) \in Seq(Token)
             /\ ValueOf(line) \in Seq(Token)
             /\ IsHeaderOf(line, [key |-> KeyOf(line), value |-> ValueOf(line)])
  <2> DEFINE c == a + (i + 1)
             before == SubSeq(t, 1, i)
             behind == SubSeq(t, (i + 1) + 1, Len(t))
             left == SubSeq(line, 1, c - 1)
             right == SubSeq(line, c + 1, Len(line))
  <2>1. i \in Nat /\ i + 1 <= Len(t) /\ i # -1
    BY <1>5
  <2>2. split.chopped.text = before /\ split.rest = behind
    BY <1>3, <1>9, <2>1 DEF Split, View
  <2>3. /\ before \in Seq(Token) /\ Len(before) = i
        /\ \A k \in 1 .. i : before[k] = t[k]
    BY <1>1, <1>5, <2>1
  <2>4. /\ behind \in Seq(Token) /\ Len(behind) = Len(t) - (i + 1)
        /\ \A k \in 1 .. Len(t) - (i + 1) : behind[k] = t[(i + 1) + k]
    <3> DEFINE m == i + 1
               n == Len(t)
    <3>1. m \in Nat /\ n \in Nat /\ m <= n /\ n <= Len(t)
      BY <1>5, <2>1
    <3> HIDE DEF m, n
    <3>2. /\ SubSeq(t, m + 1, n) \in Seq(Token)
          /\ Len(SubSeq(t, m + 1, n)) = n - m
          /\ \A k \in 1 .. n - m : SubSeq(t, m + 1, n)[k] = t[m + k]
      BY <1>1, <3>1, PartOf
    <3> QED
      BY <3>2 DEF m, n
  <2>5. /\ c \in 1 .. Len(line) /\ c - 1 \in Nat
    BY <1>5, <2>1
  <2>6. /\ left \in Seq(Token) /\ Len(left) = c - 1
        /\ \A k \in 1 .. c - 1 : left[k] = line[k]
    BY <1>5, <2>5
  <2>7. /\ right \in Seq(Token) /\ Len(right) = Len(line) - c
        /\ \A k \in 1 .. Len(line) - c : right[k] = line[c + k]
    <3> DEFINE n == Len(line)
    <3>1. c \in Nat /\ n \in Nat /\ c <= n /\ n <= Len(line)
      BY <1>5, <2>5
    <3> HIDE DEF c, n
    <3>2. /\ SubSeq(line, c + 1, n) \in Seq(Token)
          /\ Len(SubSeq(line, c + 1, n)) = n - c
          /\ \A k \in 1 .. n - c : SubSeq(line, c + 1, n)[k] = line[c + k]
      BY <3>1, PartOf
    <3> QED
      BY <3>2 DEF n
  <2> HIDE DEF before, behind, left, right
  <2>8. LiesAt(left, before, a)
    <3>1. a \in 0 .. Len(left) - Len(before)
      BY <1>5, <2>1, <2>3, <2>6
    <3>2. ASSUME NEW k \in 1 .. Len(before) PROVE before[k] = left[a + k]
      <4>1. k \in 1 .. i /\ k \in 1 .. Len(t) /\ a + k \in 1 .. c - 1
        BY <1>5, <2>1, <2>3
      <4>2. before[k] = t[k] /\ t[k] = line[a + k] /\ left[a + k] = line[a + k]
        BY <1>4, <2>3, <2>6, <4>1 DEF LiesAt
      <4> QED
        BY <4>2
    <3>3. ASSUME NEW j \in 1 .. a PROVE left[j] \in Space
      <4>1. j \in 1 .. c - 1
        BY <1>5, <2>1
      <4> QED
        BY <1>4, <2>6, <4>1 DEF LiesAt
    <3>4. ASSUME NEW j \in a + Len(before) + 1 .. Len(left) PROVE FALSE
      BY <1>5, <2>1, <2>3, <2>6
    <3> QED
      BY <3>1, <3>2, <3>3, <3>4 DEF LiesAt
  <2>9. LiesAt(right, behind, 0)
    <3>1. 0 \in 0 .. Len(right) - Len(behind)
      BY <1>5, <2>1, <2>4, <2>7
    <3>2. ASSUME NEW k \in 1 .. Len(behind) PROVE behind[k] = right[0 + k]
      <4>1. /\ k \in 1 .. Len(t) - (i + 1) /\ (i + 1) + k \in 1 .. Len(t)
            /\ k \in 1 .. Len(line) - c /\ a + ((i + 1) + k) = c + k /\ 0 + k = k
        BY <1>5, <2>1, <2>4
      <4>2. behind[k] = t[(i + 1) + k] /\ t[(i + 1) + k] = line[a + ((i + 1) + k)]
            /\ right[k] = line[c + k]
        <5>1. behind[k] = t[(i + 1) + k]
          BY <2>4, <4>1
        <5>2. t[(i + 1) + k] = line[a + ((i + 1) + k)]
          BY <1>4, <4>1 DEF LiesAt
        <5>3. right[k] = line[c + k]
          BY <2>7, <4>1
        <5> QED
          BY <5>1, <5>2, <5>3
      <4> QED
        BY <4>1, <4>2
    <3>3. ASSUME NEW j \in 0 + Len(behind) + 1 .. Len(right) PROVE right[j] \in Space
      <4>1. j \in 1 .. Len(line) - c /\ c + j \in a + Len(t) + 1 .. Len(line)
        BY <1>5, <2>1, <2>4, <2>5, <2>7
      <4>2. line[c + j] \in Space
        BY <1>4, <4>1 DEF LiesAt
      <4> QED
        BY <2>7, <4>1, <4>2
    <3>4. \A j \in 1 .. 0 : right[j] \in Space
      OBVIOUS
    <3> QED
      BY <3>1, <3>2, <3>3, <3>4 DEF LiesAt
  <2>10. KeyOf(line) \in Seq(Token) /\ Trimmed(left, KeyOf(line))
    <3>1. KeyOf(line) = bs_trim(before)
      BY <1>2, <2>2
    <3> QED
      BY <2>3, <2>6, <2>8, <3>1, TrimIsTrimmed, TrimmedWithin
  <2>11. ValueOf(line) \in Seq(Token) /\ Trimmed(right, ValueOf(line))
    <3>1. ValueOf(line) = bs_trim(behind)
      BY <1>2, <2>2
    <3> QED
      BY <2>4, <2>7, <2>9, <3>1, TrimIsTrimmed, TrimmedWithin
  <2>12. c \in Colons(line)
    <3>1. i + 1 \in 1 .. Len(t)
      BY <1>5, <2>1
    <3>2. t[i + 1] = line[a + (i + 1)]
      BY <1>4, <3>1 DEF LiesAt
    <3> QED
      BY <1>7, <1>9, <2>5, <3>2 DEF Colons
  <2>13. ASSUME NEW d \in Colons(line) PROVE c <= d
    <3>1. d \in 1 .. Len(line) /\ line[d] = ":"
      BY <1>7 DEF Colons
    <3>2. d - a \in 1 .. Len(t) /\ t[d - a] = ":"
      BY <1>6, <3>1
    <3>3. d - a \notin 1 .. i
      BY <1>9, <3>2
    <3> QED
      BY <1>5, <2>1, <3>1, <3>2, <3>3
  <2> QED
    BY <2>10, <2>11, <2>12, <2>13 DEF IsHeaderOf, left, right
<1> QED
  <2>1. \/ /\ bs_char_at(t, ":") = -1
           /\ \A k \in 1 .. Len(t) : t[k] # ":"
        \/ \E i \in 0 .. Len(t) - 1 :
             /\ bs_char_at(t, ":") = i
             /\ t[i + 1] = ":"
             /\ \A k \in 1 .. i : t[k] # ":"
    BY <1>1, CharAt
  <2> QED
    BY <1>8, <1>9, <2>1

(* A line has one header.                                                  *)
LEMMA HeaderOnce ==
  ASSUME NEW line \in Seq(Token), NEW g, NEW h,
         g.key \in Seq(Token), g.value \in Seq(Token),
         h.key \in Seq(Token), h.value \in Seq(Token),
         IsHeaderOf(line, g), IsHeaderOf(line, h)
  PROVE  g.key = h.key /\ g.value = h.value
<1>1. Colons(line) \subseteq 1 .. Len(line) /\ Len(line) \in Nat
  BY DEF Colons
<1>2. CASE Colons(line) = {}
  BY <1>2, TrimmedOnce DEF IsHeaderOf
<1>3. CASE Colons(line) # {}
  <2>1. PICK c \in Colons(line) :
           /\ \A d \in Colons(line) : c <= d
           /\ Trimmed(SubSeq(line, 1, c - 1), g.key)
           /\ Trimmed(SubSeq(line, c + 1, Len(line)), g.value)
    BY <1>3 DEF IsHeaderOf
  <2>2. PICK e \in Colons(line) :
           /\ \A d \in Colons(line) : e <= d
           /\ Trimmed(SubSeq(line, 1, e - 1), h.key)
           /\ Trimmed(SubSeq(line, e + 1, Len(line)), h.value)
    BY <1>3 DEF IsHeaderOf
  <2>3. c = e
    <3>1. c <= e /\ e <= c /\ c \in Nat /\ e \in Nat
      BY <1>1, <2>1, <2>2
    <3> QED
      BY <3>1
  <2>4. SubSeq(line, 1, c - 1) \in Seq(Token) /\ SubSeq(line, c + 1, Len(line)) \in Seq(Token)
    BY <1>1, <2>1
  <2> QED
    BY <2>1, <2>2, <2>3, <2>4, TrimmedOnce
<1> QED
  BY <1>2, <1>3

-------------------------------------------------------------------------------
(* The allocating helpers.                                                 *)

(* An owned copy is whole if it has the length of the text: a copy of      *)
(* nothing is, even if nothing could be allocated for it.                  *)
Copied(str, k) ==
  /\ k.ooms \in Nat
  /\ k.b.overrun = FALSE
  /\ k.b.len = Len(str) => Text(k.b) = str
  /\ k.ooms = 0 => k.b.len = Len(str)

LEMMA CopyOwned ==
  ASSUME NEW str \in Seq(Token), NEW k \in OwnedCopy(str)
  PROVE  Copied(str, k)
<1> DEFINE n == Len(str)
           new == bs_builder_new
           P == Seq(Token)
<1>1. n \in Nat
  OBVIOUS
<1>2. /\ new \in BuilderOf(P) /\ new.len = 0 /\ new.capacity = 0 /\ new.alloc = 0
      /\ new.pieces = <<>> /\ new.overrun = FALSE
  BY DEF bs_builder_new, BuilderOf
<1>3. PICK r \in bs_builder_reserve_exact(new, n) :
      \E a \in bs_builder_append_sv(r.b, str, n) :
        k = [ooms |-> Failed(r) + Failed(a), b |-> a.b]
  BY DEF OwnedCopy
<1>4. PICK a \in bs_builder_append_sv(r.b, str, n) :
           k = [ooms |-> Failed(r) + Failed(a), b |-> a.b]
  BY <1>3
<1>5. r = Ok([new EXCEPT !.capacity = n, !.alloc = n])
      \/ r = OutOfMemory([new EXCEPT !.capacity = n])
  BY <1>3 DEF bs_builder_reserve_exact
<1> HIDE DEF n, new, P
<1>6. /\ r.ok \in BOOLEAN /\ r.b \in BuilderOf(P) /\ r.b.len = 0 /\ r.b.capacity = n
      /\ r.b.pieces = <<>> /\ r.b.overrun = FALSE
  <2> DEFINE d == [new EXCEPT !.capacity = n, !.alloc = n]
             e == [new EXCEPT !.capacity = n]
  <2>1. /\ d \in BuilderOf(P) /\ d.len = 0 /\ d.capacity = n
        /\ d.pieces = <<>> /\ d.overrun = FALSE
    BY <1>1, <1>2 DEF BuilderOf
  <2>2. /\ e \in BuilderOf(P) /\ e.len = 0 /\ e.capacity = n
        /\ e.pieces = <<>> /\ e.overrun = FALSE
    BY <1>1, <1>2 DEF BuilderOf
  <2>3. (r.ok = TRUE /\ r.b = d) \/ (r.ok = FALSE /\ r.b = e)
    <3> HIDE DEF d, e
    <3>1. r = Ok(d) \/ r = OutOfMemory(e)
      BY <1>5 DEF d, e
    <3> QED
      BY <3>1 DEF Ok, OutOfMemory
  <2> HIDE DEF d, e
  <2> QED
    BY <2>1, <2>2, <2>3
<1>7. Fits(r.b) /\ ~bs_builder_has_enough_capacity(r.b, n)
  BY <1>1, <1>6 DEF Fits, bs_builder_has_enough_capacity
<1>8. Appends(P, r.b, str, n, a)
  <2>1. str \in P
    BY DEF P
  <2> QED
    BY <1>1, <1>4, <1>6, <1>7, <2>1, AppendAdds
<1>9. a.ok \in BOOLEAN /\ a.b.overrun = FALSE
      /\ a.b.pieces = (IF a.ok THEN Append(<<>>, str) ELSE <<>>)
      /\ a.b.len = IF a.ok THEN 0 + n ELSE 0
  <2>1. a.b.overrun \in BOOLEAN
    BY <1>8 DEF Appends, BuilderOf
  <2> QED
    BY <1>6, <1>7, <1>8, <2>1 DEF Appends, Adds, Owned
<1>10. k.ooms = Failed(r) + Failed(a) /\ k.b = a.b
  BY <1>4
<1>11. Failed(r) \in Nat /\ Failed(a) \in Nat /\ (Failed(a) = 0 => a.ok)
  BY <1>6, <1>9 DEF Failed
<1>12. CASE a.ok
  <2> DEFINE one == Append(<<>>, str)
  <2>1. one # <<>> /\ one[1] = str
    OBVIOUS
  <2>2. Text(k.b) = str
    <3>1. k.b.pieces = one
      BY <1>9, <1>10, <1>12
    <3> HIDE DEF one
    <3> QED
      BY <2>1, <3>1 DEF Text
  <2>3. k.b.len = Len(str)
    BY <1>1, <1>9, <1>10, <1>12 DEF n
  <2> QED
    BY <1>9, <1>10, <1>11, <2>2, <2>3 DEF Copied
<1>13. CASE ~a.ok
  <2>1. Text(k.b) = <<>> /\ k.b.len = 0
    BY <1>9, <1>10, <1>13 DEF Text
  <2>2. Len(str) = 0 => str = <<>>
    OBVIOUS
  <2>3. k.ooms # 0 /\ k.ooms \in Nat
    BY <1>10, <1>11, <1>13
  <2> QED
    BY <1>9, <1>10, <2>1, <2>2, <2>3 DEF Copied
<1> QED
  BY <1>12, <1>13

-------------------------------------------------------------------------------
(* The invariant.                                                          *)

HeaderRecord == [key : Seq(Token), value : Seq(Token)]

ParseTypes ==
  /\ response \in Response
  /\ read \in 0 .. Len(response)
  /\ pc \in {"status", "headers", "verify", "returned", "dead"}
  /\ http_line \in [null : BOOLEAN, text : Seq(Token)]
  /\ payload \in ArrayOf(HeaderRecord)
  /\ Holds(payload)
  /\ overrun = FALSE
  /\ ooms \in 0 .. MaxOoms
  /\ result \in {"none", WS_SUCCESS, WS_CONNECTION_FAILURE}

(* How far the parser is.                                                  *)
Progress ==
  /\ pc = "status" => read = 0 /\ payload.items = <<>>
  /\ pc # "status" => read >= 1
  /\ pc \in {"verify", "returned"} => read = Len(response)
  /\ pc # "dead" => payload.alloc = payload.capacity
  /\ result # "none" => pc = "returned"

(* The status line is kept trimmed, or lost with an allocation.            *)
StatusKept ==
  pc # "status" =>
    \/ http_line = View(bs_trim(response[1]))
    \/ http_line = NullView /\ ooms > 0

ParseInv == ParseTypes /\ Progress /\ StatusKept /\ HeadersWhole

(* The response is a sequence of lines.                                    *)
LEMMA Lines ==
  ASSUME NEW r \in Response
  PROVE  /\ r \in Seq(Seq(Token)) /\ Len(r) \in Nat /\ Len(r) >= 1
         /\ DOMAIN r = 1 .. Len(r)
         /\ \A i \in 1 .. Len(r) : r[i] \in Seq(Token) /\ r[i] # <<>>
<1>1. r \in Seq(Seq(Token)) /\ r # <<>> /\ \A i \in DOMAIN r : r[i] # <<>>
  BY ResponseAssumption
<1>2. Len(r) \in Nat /\ Len(r) # 0 /\ DOMAIN r = 1 .. Len(r)
  BY <1>1
<1>3. \A i \in 1 .. Len(r) : r[i] \in Seq(Token)
  BY <1>1, <1>2
<1>4. Len(r) >= 1
  BY <1>2
<1>5. \A i \in 1 .. Len(r) : r[i] # <<>>
  BY <1>1, <1>2
<1> QED
  BY <1>1, <1>2, <1>3, <1>4, <1>5

LEMMA ParseInvInit == Init => ParseInv
<1> SUFFICES ASSUME Init PROVE ParseInv
  OBVIOUS
<1> DEFINE new == da_new
<1>1. /\ new \in ArrayOf(HeaderRecord) /\ new.items = <<>> /\ new.capacity = 0
      /\ new.alloc = 0 /\ new.overrun = FALSE
  BY DEF da_new, ArrayOf
<1>2. /\ response \in Response /\ read = 0 /\ pc = "status" /\ http_line = NullView
      /\ payload = new /\ overrun = FALSE /\ ooms = 0 /\ result = "none"
  BY DEF Init
<1> HIDE DEF new
<1>3. Holds(new) /\ Len(new.items) = 0
  BY <1>1 DEF Holds
<1>4. http_line \in [null : BOOLEAN, text : Seq(Token)]
  BY <1>2 DEF NullView
<1>5. read \in 0 .. Len(response) /\ ooms \in 0 .. MaxOoms
  BY <1>2, Lines, OomAssumption
<1>6. HeadersWhole
  BY <1>1, <1>2, <1>3 DEF HeadersWhole
<1> QED
  BY <1>1, <1>2, <1>3, <1>4, <1>5, <1>6 DEF ParseInv, ParseTypes, Progress, StatusKept

LEMMA StatusLineParsed == ParseInv /\ ReadStatusLine => ParseInv'
<1> SUFFICES ASSUME ParseInv, ReadStatusLine PROVE ParseInv'
  OBVIOUS
<1>1. /\ pc = "status" /\ read' = 1 /\ pc' = "headers"
      /\ UNCHANGED <<response, payload, overrun, result>>
  BY DEF ReadStatusLine
<1>2. PICK clone \in bs_clone(bs_trim(response[1])) :
           /\ ooms' = ooms + clone.ooms /\ ooms' <= MaxOoms
           /\ http_line' = clone.view
  BY DEF ReadStatusLine, Fails
<1>3. response \in Response /\ Len(response) \in Nat /\ Len(response) >= 1
      /\ response[1] \in Seq(Token)
  BY Lines DEF ParseInv, ParseTypes
<1>4. bs_trim(response[1]) \in Seq(Token)
  BY <1>3, TrimIsTrimmed
<1>5. \/ clone.ooms = 0 /\ clone.view = View(bs_trim(response[1]))
      \/ clone.ooms = 1 /\ clone.view = NullView
  BY <1>2 DEF bs_clone, bs_builder_reserve_exact, Ok, OutOfMemory, Failed
<1>6. ooms' \in 0 .. MaxOoms /\ (clone.ooms = 1 => ooms' > 0)
  BY <1>2, <1>5, OomAssumption DEF ParseInv, ParseTypes
<1>7. http_line' \in [null : BOOLEAN, text : Seq(Token)]
  <2>1. View(bs_trim(response[1])) \in [null : BOOLEAN, text : Seq(Token)]
    BY <1>4 DEF View
  <2>2. NullView \in [null : BOOLEAN, text : Seq(Token)]
    BY DEF NullView
  <2> QED
    BY <1>2, <1>5, <2>1, <2>2
<1>8. read' \in 0 .. Len(response')
  BY <1>1, <1>3
<1>9. payload.items = <<>> /\ payload.alloc = payload.capacity
  BY <1>1 DEF ParseInv, Progress
<1>10. Len(payload'.items) = 0 /\ DOMAIN payload'.items = {}
  BY <1>1, <1>9
<1>11. HeadersWhole'
  BY <1>1, <1>10 DEF HeadersWhole
<1>12. Progress'
  BY <1>1, <1>9 DEF ParseInv, Progress
<1>13. StatusKept'
  BY <1>1, <1>2, <1>5, <1>6 DEF StatusKept
<1>14. ParseTypes'
  BY <1>1, <1>6, <1>7, <1>8 DEF ParseInv, ParseTypes
<1> QED
  BY <1>11, <1>12, <1>13, <1>14 DEF ParseInv

(* A header is appended, or the process ends.                              *)
LEMMA HeaderAppended ==
  ASSUME ParseInv, NEW header \in HeaderRecord, NEW failed \in Nat,
         pc = "headers",
         _http_payload_append_header(header, failed)
  PROVE  /\ payload' \in ArrayOf(HeaderRecord)
         /\ Holds(payload')
         /\ ooms' \in 0 .. MaxOoms
         /\ ooms' >= ooms + failed
         /\ \/ /\ pc' = "headers"
               /\ payload'.items = Append(payload.items, header)
               /\ payload'.alloc = payload'.capacity
            \/ pc' = "dead" /\ ooms' > 0
<1>1. PICK a \in da_append(payload, header) :
           /\ ooms' = ooms + (failed + Failed(a)) /\ ooms' <= MaxOoms
           /\ payload' = a.xs
           /\ pc' = IF a.ok THEN pc ELSE "dead"
  BY DEF _http_payload_append_header, Fails
<1>2. payload \in ArrayOf(HeaderRecord) /\ Holds(payload) /\ payload.alloc = payload.capacity
  BY DEF ParseInv, ParseTypes, Progress
<1>3. Extends(HeaderRecord, payload, header, a)
  BY <1>1, <1>2, ArrayAppends
<1>4. a.ok \in BOOLEAN /\ (~a.ok => Failed(a) = 1) /\ Failed(a) \in Nat
  BY <1>3 DEF Extends, Failed
<1>5. ooms \in Nat
  BY OomAssumption DEF ParseInv, ParseTypes
<1>6. ooms' \in 0 .. MaxOoms /\ ooms' >= ooms + failed /\ (Failed(a) = 1 => ooms' > 0)
  BY <1>1, <1>4, <1>5, OomAssumption
<1>7. CASE a.ok
  BY <1>1, <1>3, <1>6, <1>7 DEF Extends
<1>8. CASE ~a.ok
  BY <1>1, <1>3, <1>4, <1>6, <1>8 DEF Extends
<1> QED
  BY <1>7, <1>8

(* What _http_parse_header does with a line: its header is appended, or    *)
(* the process ends for lack of memory.                                    *)
LEMMA LineParsed ==
  ASSUME ParseInv, NEW line \in Seq(Token),
         pc = "headers",
         _http_parse_header(line)
  PROVE  /\ overrun' = FALSE
         /\ payload' \in ArrayOf(HeaderRecord)
         /\ Holds(payload')
         /\ ooms' \in 0 .. MaxOoms
         /\ ooms' >= ooms
         /\ \/ /\ pc' = "headers"
               /\ payload'.items
                    = Append(payload.items, [key |-> KeyOf(line), value |-> ValueOf(line)])
               /\ payload'.alloc = payload'.capacity
            \/ pc' = "dead" /\ ooms' > 0
<1>1. KeyOf(line) \in Seq(Token) /\ ValueOf(line) \in Seq(Token)
  BY HeaderParsed
<1>2. PICK k \in OwnedCopy(KeyOf(line)), v \in OwnedCopy(ValueOf(line)) :
        /\ overrun' = (overrun \/ k.b.overrun \/ v.b.overrun)
        /\ \/ /\ k.b.len = Len(KeyOf(line)) /\ v.b.len = Len(ValueOf(line))
              /\ _http_payload_append_header([key |-> Text(k.b), value |-> Text(v.b)],
                                             k.ooms + v.ooms)
           \/ /\ k.b.len # Len(KeyOf(line)) \/ v.b.len # Len(ValueOf(line))
              /\ Fails(k.ooms + v.ooms)
              /\ pc' = "dead"
              /\ UNCHANGED payload
  BY DEF _http_parse_header, KeyOf, ValueOf
<1>3. Copied(KeyOf(line), k) /\ Copied(ValueOf(line), v)
  BY <1>1, <1>2, CopyOwned
<1>4. overrun = FALSE /\ ooms \in Nat
  BY OomAssumption DEF ParseInv, ParseTypes
<1>5. overrun' = FALSE
  BY <1>2, <1>3, <1>4 DEF Copied
<1>6. k.ooms + v.ooms \in Nat
  BY <1>3 DEF Copied
<1>7. CASE /\ k.b.len = Len(KeyOf(line)) /\ v.b.len = Len(ValueOf(line))
           /\ _http_payload_append_header([key |-> Text(k.b), value |-> Text(v.b)],
                                          k.ooms + v.ooms)
  <2> DEFINE header == [key |-> KeyOf(line), value |-> ValueOf(line)]
             failed == k.ooms + v.ooms
  <2>1. Text(k.b) = KeyOf(line) /\ Text(v.b) = ValueOf(line)
    BY <1>3, <1>7 DEF Copied
  <2>2. header \in HeaderRecord
    BY <1>1 DEF HeaderRecord
  <2>3. _http_payload_append_header(header, failed)
    BY <1>7, <2>1
  <2>4. failed \in Nat
    BY <1>6
  <2> HIDE DEF header, failed
  <2>5. /\ payload' \in ArrayOf(HeaderRecord)
        /\ Holds(payload')
        /\ ooms' \in 0 .. MaxOoms
        /\ ooms' >= ooms + failed
        /\ \/ /\ pc' = "headers"
              /\ payload'.items = Append(payload.items, header)
              /\ payload'.alloc = payload'.capacity
           \/ pc' = "dead" /\ ooms' > 0
    BY <2>2, <2>3, <2>4, HeaderAppended
  <2>6. ooms' >= ooms
    BY <1>4, <2>4, <2>5, OomAssumption
  <2> QED
    BY <1>5, <2>5, <2>6 DEF header
<1>8. CASE /\ k.b.len # Len(KeyOf(line)) \/ v.b.len # Len(ValueOf(line))
           /\ Fails(k.ooms + v.ooms)
           /\ pc' = "dead"
           /\ UNCHANGED payload
  <2>1. k.ooms \in Nat /\ v.ooms \in Nat /\ (k.ooms # 0 \/ v.ooms # 0)
    BY <1>3, <1>8 DEF Copied
  <2>2. ooms' = ooms + (k.ooms + v.ooms) /\ ooms' <= MaxOoms
    BY <1>8 DEF Fails
  <2>3. ooms' \in 0 .. MaxOoms /\ ooms' >= ooms /\ ooms' > 0
    BY <1>4, <2>1, <2>2, OomAssumption, SMTT(40)
  <2> QED
    BY <1>5, <1>8, <2>3 DEF ParseInv, ParseTypes
<1> QED
  BY <1>2, <1>7, <1>8

LEMMA HeaderLineParsed == ParseInv /\ ReadHeaderLine => ParseInv'
<1> SUFFICES ASSUME ParseInv, ReadHeaderLine PROVE ParseInv'
  OBVIOUS
<1> DEFINE line == response[read + 1]
<1>1. /\ pc = "headers" /\ read < Len(response) /\ read' = read + 1
      /\ UNCHANGED <<response, http_line, result>>
      /\ \/ /\ bs_trim(line) # <<>> /\ _http_parse_header(line)
         \/ /\ bs_trim(line) = <<>> /\ pc' = "dead"
            /\ UNCHANGED <<payload, overrun, ooms>>
  BY DEF ReadHeaderLine
<1>2. /\ response \in Response /\ Len(response) \in Nat
      /\ read \in 0 .. Len(response) /\ read >= 1
      /\ \A i \in 1 .. Len(response) : response[i] \in Seq(Token)
  BY <1>1, Lines DEF ParseInv, ParseTypes, Progress
<1>3. read + 1 \in 1 .. Len(response) /\ line \in Seq(Token)
  BY <1>1, <1>2
<1> HIDE DEF line
<1>4. CASE bs_trim(line) = <<>> /\ pc' = "dead" /\ UNCHANGED <<payload, overrun, ooms>>
  <2>1. ParseTypes'
    BY <1>1, <1>2, <1>3, <1>4 DEF ParseInv, ParseTypes
  <2>2. Progress' /\ StatusKept' /\ HeadersWhole'
    BY <1>1, <1>2, <1>4 DEF ParseInv, Progress, StatusKept, HeadersWhole
  <2> QED
    BY <2>1, <2>2 DEF ParseInv
<1>5. CASE bs_trim(line) # <<>> /\ _http_parse_header(line)
  <2> DEFINE header == [key |-> KeyOf(line), value |-> ValueOf(line)]
  <2>1. /\ overrun' = FALSE
        /\ payload' \in ArrayOf(HeaderRecord)
        /\ Holds(payload')
        /\ ooms' \in 0 .. MaxOoms
        /\ ooms' >= ooms
        /\ \/ /\ pc' = "headers"
              /\ payload'.items = Append(payload.items, header)
              /\ payload'.alloc = payload'.capacity
           \/ pc' = "dead" /\ ooms' > 0
    BY <1>1, <1>3, <1>5, LineParsed
  <2>2. header \in HeaderRecord /\ IsHeaderOf(line, header)
    BY <1>3, HeaderParsed DEF HeaderRecord
  <2> HIDE DEF header
  <2>3. ParseTypes'
    BY <1>1, <1>2, <1>3, <2>1 DEF ParseInv, ParseTypes
  <2>4. Progress'
    BY <1>1, <1>2, <2>1 DEF ParseInv, Progress
  <2>5. StatusKept'
    <3>1. ooms > 0 => ooms' > 0
      BY <2>1, OomAssumption DEF ParseInv, ParseTypes
    <3> QED
      BY <1>1, <3>1 DEF ParseInv, StatusKept
  <2>6. HeadersWhole'
    <3>1. CASE pc' = "dead"
      BY <3>1 DEF HeadersWhole
    <3>2. CASE pc' = "headers" /\ payload'.items = Append(payload.items, header)
      <4> DEFINE old == payload.items
                 new == Append(old, header)
      <4>1. old \in Seq(HeaderRecord)
        BY DEF ParseInv, ParseTypes, ArrayOf
      <4>2. Len(old) = read - 1 /\ \A i \in DOMAIN old : IsHeaderOf(response[i + 1], old[i])
        BY <1>1, <1>2 DEF ParseInv, HeadersWhole
      <4> HIDE DEF old
      <4>3. Len(old) \in Nat /\ DOMAIN old = 1 .. Len(old)
        BY <4>1
      <4>4. /\ Len(new) = Len(old) + 1 /\ DOMAIN new = 1 .. Len(old) + 1
            /\ new[Len(old) + 1] = header
            /\ \A i \in 1 .. Len(old) : new[i] = old[i]
        BY <2>2, <4>1, <4>3
      <4> HIDE DEF new
      <4>5. Len(new) = (read + 1) - 1 /\ read + 1 # 0
        BY <1>2, <4>2, <4>4
      <4>6. ASSUME NEW i \in DOMAIN new PROVE IsHeaderOf(response[i + 1], new[i])
        <5>1. CASE i \in 1 .. Len(old)
          BY <4>2, <4>3, <4>4, <5>1
        <5>2. CASE i = Len(old) + 1
          <6>1. i + 1 = read + 1
            BY <1>2, <4>2, <5>2
          <6> QED
            BY <2>2, <4>4, <5>2, <6>1 DEF line
        <5> QED
          BY <4>3, <4>4, <5>1, <5>2
      <4>7. payload'.items = new
        BY <3>2 DEF new, old
      <4> QED
        BY <1>1, <4>5, <4>6, <4>7 DEF HeadersWhole
    <3> QED
      BY <2>1, <3>1, <3>2
  <2> QED
    BY <2>3, <2>4, <2>5, <2>6 DEF ParseInv
<1> QED
  BY <1>1, <1>4, <1>5

LEMMA BlankLineParsed == ParseInv /\ ReadBlankLine => ParseInv'
<1> SUFFICES ASSUME ParseInv, ReadBlankLine PROVE ParseInv'
  OBVIOUS
<1>1. /\ pc = "headers" /\ read = Len(response) /\ pc' = "verify"
      /\ UNCHANGED <<response, read, http_line, payload, overrun, ooms, result>>
  BY DEF ReadBlankLine
<1>2. ParseTypes'
  BY <1>1 DEF ParseInv, ParseTypes
<1>3. Progress' /\ StatusKept' /\ HeadersWhole'
  BY <1>1 DEF ParseInv, Progress, StatusKept, HeadersWhole
<1> QED
  BY <1>2, <1>3 DEF ParseInv

(* The comparison of the accept value: what base64_encode left in the      *)
(* buffer is the digest, or nothing if there was no buffer.                *)
LEMMA KeyVerified ==
  ASSUME NEW value, NEW v \in _ws_verify_websocket_sec_key(value)
  PROVE  /\ v.ooms \in {0, 1}
         /\ v.alive => value = <<Digest>> \/ (value = <<>> /\ v.ooms = 1)
         /\ v.ooms = 0 /\ ~v.alive => value # <<Digest>>
<1>1. PICK k \in bs_builder_vsprintf(bs_builder_new, "key", KeyAndGuid) :
        v \in IF ~k.ok THEN {[ooms |-> 1, alive |-> FALSE]}
              ELSE {[ooms |-> Failed(d), alive |-> value = Encoded(d.b.capacity)] :
                      d \in bs_builder_new_alloc(DigestRequired)}
  BY DEF _ws_verify_websocket_sec_key
<1>2. CASE ~k.ok
  <2>1. v = [ooms |-> 1, alive |-> FALSE]
    BY <1>1, <1>2
  <2> QED
    BY <2>1
<1>3. CASE k.ok
  <2>1. PICK d \in bs_builder_new_alloc(DigestRequired) :
               v = [ooms |-> Failed(d), alive |-> value = Encoded(d.b.capacity)]
    BY <1>1, <1>3
  <2>2. v.ooms = Failed(d) /\ v.alive = (value = Encoded(d.b.capacity))
    BY <2>1
  <2>3. CASE d = Ok([bs_builder_new EXCEPT !.capacity = DigestRequired,
                                           !.alloc = DigestRequired])
    <3>1. d.ok = TRUE /\ d.b.capacity = 32
      BY <2>3 DEF Ok, bs_builder_new, DigestRequired
    <3>2. Failed(d) = 0 /\ Encoded(d.b.capacity) = <<Digest>>
      BY <3>1 DEF Failed, Encoded
    <3> QED
      BY <2>2, <3>2
  <2>4. CASE d = OutOfMemory(bs_builder_new)
    <3>1. d.ok = FALSE /\ d.b.capacity = 0
      BY <2>4 DEF OutOfMemory, bs_builder_new
    <3>2. Failed(d) = 1 /\ Encoded(d.b.capacity) = <<>>
      BY <3>1 DEF Failed, Encoded
    <3>3. v.ooms = 1
      BY <2>2, <3>2
    <3>4. v.alive => value = <<>>
      BY <2>2, <3>2
    <3> QED
      BY <3>3, <3>4
  <2> QED
    BY <2>1, <2>3, <2>4 DEF bs_builder_new_alloc
<1> QED
  BY <1>2, <1>3

Status == _http_status_code(http_line)
Found == _http_payload_header_get(payload.items, <<Accept>>)

(* What the rest of ws_connect does: the outcome, and why.                 *)
Judges ==
  \/ /\ result' = WS_CONNECTION_FAILURE /\ pc' = "returned" /\ ooms' = ooms
     /\ ~Status.dies /\ Status.code # <<"101">>
  \/ /\ ~Status.dies /\ Status.code = <<"101">>
     /\ \E i \in Found :
          LET value == payload.items[i].value
          IN  \/ /\ result' = WS_SUCCESS /\ pc' = "returned"
                 /\ value = <<Digest>> \/ (value = <<>> /\ ooms' > 0)
              \/ /\ UNCHANGED result /\ pc' = "dead"
                 /\ value # <<Digest>> \/ ooms' > 0
  \/ /\ UNCHANGED result /\ pc' = "dead" /\ ooms' = ooms
     /\ Status.dies \/ (Status.code = <<"101">> /\ Found = {})

LEMMA ResponseJudged ==
  ASSUME ParseInv, VerifyResponse
  PROVE  /\ pc = "verify"
         /\ UNCHANGED <<response, read, http_line, payload, overrun>>
         /\ ooms' \in 0 .. MaxOoms
         /\ ooms' >= ooms
         /\ Judges
<1>1. /\ pc = "verify"
      /\ UNCHANGED <<response, read, http_line, payload, overrun>>
      /\ \/ /\ ~Status.dies
            /\ Status.code # <<"101">>
            /\ result' = WS_CONNECTION_FAILURE /\ pc' = "returned"
            /\ UNCHANGED ooms
         \/ /\ ~Status.dies
            /\ Status.code = <<"101">>
            /\ \E i \in Found :
                 \E v \in _ws_verify_websocket_sec_key(payload.items[i].value) :
                   /\ Fails(v.ooms)
                   /\ \/ v.alive /\ result' = WS_SUCCESS /\ pc' = "returned"
                      \/ ~v.alive /\ pc' = "dead" /\ UNCHANGED result
         \/ /\ Status.dies \/ (Status.code = <<"101">> /\ Found = {})
            /\ pc' = "dead"
            /\ UNCHANGED <<ooms, result>>
  BY DEF VerifyResponse, Status, Found
<1>2. ooms \in 0 .. MaxOoms /\ ooms \in Nat
  BY OomAssumption DEF ParseInv, ParseTypes
<1>3. CASE /\ ~Status.dies
           /\ Status.code # <<"101">>
           /\ result' = WS_CONNECTION_FAILURE /\ pc' = "returned"
           /\ UNCHANGED ooms
  BY <1>1, <1>2, <1>3 DEF Judges
<1>4. ASSUME ~Status.dies, Status.code = <<"101">>, NEW i \in Found,
             NEW v \in _ws_verify_websocket_sec_key(payload.items[i].value),
             Fails(v.ooms),
             \/ v.alive /\ result' = WS_SUCCESS /\ pc' = "returned"
             \/ ~v.alive /\ pc' = "dead" /\ UNCHANGED result
      PROVE  ooms' \in 0 .. MaxOoms /\ ooms' >= ooms /\ Judges
  <2> DEFINE value == payload.items[i].value
  <2>1. /\ v.ooms \in {0, 1}
        /\ v.alive => value = <<Digest>> \/ (value = <<>> /\ v.ooms = 1)
        /\ v.ooms = 0 /\ ~v.alive => value # <<Digest>>
    BY <1>4, KeyVerified
  <2>2. ooms' = ooms + v.ooms /\ ooms' <= MaxOoms
    BY <1>4 DEF Fails
  <2>3. ooms' \in 0 .. MaxOoms /\ ooms' >= ooms /\ (v.ooms = 1 => ooms' > 0)
    BY <1>2, <2>1, <2>2, OomAssumption
  <2>4. v.alive \/ ~v.alive
    OBVIOUS
  <2> HIDE DEF value
  <2>5. \/ /\ result' = WS_SUCCESS /\ pc' = "returned"
           /\ value = <<Digest>> \/ (value = <<>> /\ ooms' > 0)
        \/ /\ UNCHANGED result /\ pc' = "dead"
           /\ value # <<Digest>> \/ ooms' > 0
    BY <1>4, <2>1, <2>3
  <2> QED
    BY <1>4, <2>3, <2>5 DEF Judges, value
<1>5. CASE /\ Status.dies \/ (Status.code = <<"101">> /\ Found = {})
           /\ pc' = "dead"
           /\ UNCHANGED <<ooms, result>>
  BY <1>1, <1>2, <1>5 DEF Judges
<1> QED
  BY <1>1, <1>3, <1>4, <1>5

LEMMA ParseInvStep == ParseInv /\ [Next]_vars => ParseInv'
<1> SUFFICES ASSUME ParseInv, [Next]_vars PROVE ParseInv'
  OBVIOUS
<1>1. CASE VerifyResponse
  <2>1. /\ pc = "verify"
        /\ UNCHANGED <<response, read, http_line, payload, overrun>>
        /\ ooms' \in 0 .. MaxOoms
        /\ ooms' >= ooms
        /\ Judges
    BY <1>1, ResponseJudged
  <2>2. \/ pc' = "returned" /\ result' \in {WS_SUCCESS, WS_CONNECTION_FAILURE}
        \/ pc' = "dead" /\ result' = result
    BY <2>1 DEF Judges
  <2>3. ParseTypes'
    BY <2>1, <2>2 DEF ParseInv, ParseTypes
  <2>4. Progress'
    BY <2>1, <2>2 DEF ParseInv, Progress
  <2>5. StatusKept'
    <3>1. ooms > 0 => ooms' > 0
      BY <2>1, OomAssumption DEF ParseInv, ParseTypes
    <3> QED
      BY <2>1, <3>1 DEF ParseInv, StatusKept
  <2>6. HeadersWhole'
    BY <2>1 DEF ParseInv, HeadersWhole
  <2> QED
    BY <2>3, <2>4, <2>5, <2>6 DEF ParseInv
<1>2. CASE UNCHANGED vars
  BY <1>2 DEF vars, ParseInv, ParseTypes, Progress, StatusKept, HeadersWhole
<1> QED
  BY <1>1, <1>2, StatusLineParsed, HeaderLineParsed, BlankLineParsed DEF Next

LEMMA ParseInvAlways == Spec => []ParseInv
BY ParseInvInit, ParseInvStep, PTL DEF Spec

(* Every state of the parser is well-typed, whichever allocations fail: in *)
(* particular the list of headers never claims to be longer than it may be. *)
THEOREM TypeCorrect == Spec => []TypeOK
<1>1. ParseInv => TypeOK
  BY DEF ParseInv, ParseTypes, TypeOK, ArrayOf, Holds
<1> QED
  BY <1>1, ParseInvAlways, PTL

(* For every response and any failures of the allocations of               *)
(* ws__http_read_header, a process that goes on has read every header      *)
(* whole and in order.                                                     *)
THEOREM HeadersKept == Spec => []HeadersWhole
<1>1. ParseInv => HeadersWhole
  BY DEF ParseInv
<1> QED
  BY <1>1, ParseInvAlways, PTL

(* Whichever allocations fail, the appends behind unchecked reservations   *)
(* store nothing outside a block, and neither does da_append.              *)
THEOREM StoresInside == Spec => []NothingStoredOutside
<1>1. ParseInv => NothingStoredOutside
  BY DEF ParseInv, ParseTypes, Holds, NothingStoredOutside
<1> QED
  BY <1>1, ParseInvAlways, PTL

-------------------------------------------------------------------------------
(* The status code.                                                        *)

LEMMA CharAtIs ==
  ASSUME NEW str \in Seq(Token), NEW x, NEW m \in 1 .. Len(str),
         str[m] = x, \A k \in 1 .. m - 1 : str[k] # x
  PROVE  bs_char_at(str, x) = m - 1
<1>1. Len(str) \in Nat
  OBVIOUS
<1>2. PICK i \in 0 .. Len(str) - 1 :
           /\ bs_char_at(str, x) = i
           /\ str[i + 1] = x
           /\ \A k \in 1 .. i : str[k] # x
  BY CharAt
<1>3. ~(i + 1 < m)
  <2>1. i + 1 < m => i + 1 \in 1 .. m - 1
    BY <1>1, <1>2
  <2> QED
    BY <1>2, <2>1
<1>4. ~(m < i + 1)
  <2>1. m < i + 1 => m \in 1 .. i
    BY <1>1, <1>2
  <2> QED
    BY <1>2, <2>1
<1> QED
  BY <1>1, <1>2, <1>3, <1>4

LEMMA FindOne ==
  ASSUME NEW str \in Seq(Token), NEW x
  PROVE  bs_find(str, <<x>>) = bs_char_at(str, x)
<1> DEFINE one == <<x>>
           a == {i \in 0 .. Len(str) - Len(one) : Occurs(str, one, i)}
           b == {i \in 0 .. Len(str) - 1 : str[i + 1] = x}
<1>1. Len(str) \in Nat /\ Len(one) = 1 /\ one[1] = x
  OBVIOUS
<1>2. ASSUME NEW i \in 0 .. Len(str) - 1
      PROVE  Occurs(str, one, i) <=> str[i + 1] = x
  <2>1. i \in Nat /\ i + 1 \in Nat /\ i <= i + 1 /\ i + 1 <= Len(str) /\ (i + 1) - i = 1
    BY <1>1
  <2> DEFINE c == i + 1
             part == SubSeq(str, i + 1, c)
  <2>2. part \in Seq(Token) /\ Len(part) = 1 /\ part[1] = str[i + 1]
    <3> HIDE DEF c
    <3>1. /\ SubSeq(str, i + 1, c) \in Seq(Token)
          /\ Len(SubSeq(str, i + 1, c)) = c - i
          /\ \A k \in 1 .. c - i : SubSeq(str, i + 1, c)[k] = str[i + k]
      BY <2>1, PartOf DEF c
    <3>2. c - i = 1 /\ 1 \in 1 .. 1
      BY <2>1 DEF c
    <3>3. 1 \in 1 .. c - i
      BY <3>2
    <3> QED
      BY <3>1, <3>2, <3>3
  <2> HIDE DEF part
  <2>3. part = <<x>> <=> part[1] = x
    BY <2>2
  <2>4. part = one <=> str[i + 1] = x
    BY <2>2, <2>3
  <2> QED
    BY <1>1, <2>4 DEF Occurs, part
<1>3. a = b
  <2> HIDE DEF one
  <2> QED
    BY <1>1, <1>2
<1>4. bs_find(str, one)
        = IF a = {} THEN -1 ELSE CHOOSE i \in a : \A j \in a : i <= j
  BY DEF bs_find
<1>5. bs_char_at(str, x)
        = IF b = {} THEN -1 ELSE CHOOSE i \in b : \A j \in b : i <= j
  BY DEF bs_char_at
<1> HIDE DEF a, b
<1>6. bs_find(str, one) = bs_char_at(str, x)
  BY <1>3, <1>4, <1>5
<1> QED
  BY <1>6

(* The first two spaces of a text are at m and n.                          *)
Field(t, m, n) ==
  /\ m \in 1 .. Len(t) /\ n \in 1 .. Len(t) /\ m < n
  /\ t[m] = " " /\ t[n] = " "
  /\ \A k \in 1 .. n - 1 : t[k] = " " => k = m

LEMMA StatusOfView ==
  ASSUME NEW t \in Seq(Token)
  PROVE  LET version == Split(t, bs_char_at(t, " "), 1)
             code == Split(version.rest, bs_char_at(version.rest, " "), 1).chopped
         IN  version.rest \in Seq(Token) =>
               /\ _http_status_code(View(t)).dies = (code.null \/ code.text = <<>>)
               /\ _http_status_code(View(t)).code = code.text
<1> DEFINE version == Split(t, bs_char_at(t, " "), 1)
           code == Split(version.rest, bs_char_at(version.rest, " "), 1).chopped
<1>1. View(t).text = t /\ View(t).null = FALSE
  BY DEF View
<1>2. bs_split_once_by_bs(t, <<" ">>) = version
  <2>1. Len(<<" ">>) = 1
    OBVIOUS
  <2> QED
    BY <2>1, FindOne DEF bs_split_once_by_bs
<1>3. ASSUME version.rest \in Seq(Token)
      PROVE  bs_split_once_by_bs(version.rest, <<" ">>).chopped = code
  <2> DEFINE u == version.rest
  <2> HIDE DEF version
  <2>1. Len(<<" ">>) = 1
    OBVIOUS
  <2> QED
    BY <1>3, <2>1, FindOne DEF bs_split_once_by_bs
<1> HIDE DEF version, code
<1>4. ASSUME version.rest \in Seq(Token)
      PROVE  _http_status_code(View(t))
               = [dies |-> code.null \/ code.text = <<>>, code |-> code.text]
  BY <1>1, <1>2, <1>3, <1>4 DEF _http_status_code
<1>5. ASSUME version.rest \in Seq(Token)
      PROVE  /\ _http_status_code(View(t)).dies = (code.null \/ code.text = <<>>)
             /\ _http_status_code(View(t)).code = code.text
  BY <1>4, <1>5
<1> QED
  BY <1>5 DEF version, code

(* The code is the text between the first two spaces.                      *)
LEMMA CodeOfField ==
  ASSUME NEW t \in Seq(Token), NEW m \in Nat, NEW n \in Nat, Field(t, m, n)
  PROVE  /\ _http_status_code(View(t)).dies = (n = m + 1)
         /\ _http_status_code(View(t)).code = SubSeq(t, m + 1, n - 1)
<1> DEFINE b == n - 1
           u == SubSeq(t, m + 1, Len(t))
           d == b - m
           text == SubSeq(u, 1, d)
<1>1. Len(t) \in Nat
  OBVIOUS
<1>2. m \in 1 .. Len(t) /\ n \in 1 .. Len(t) /\ m < n
  BY DEF Field
<1>3. 1 <= m /\ m < n /\ n <= Len(t)
  BY <1>1, <1>2
<1>4. t[m] = " " /\ t[n] = " "
  BY DEF Field
<1>5. \A k \in 1 .. n - 1 : t[k] = " " => k = m
  BY DEF Field
<1>6. b \in Nat /\ n = b + 1 /\ m <= b /\ b <= Len(t) /\ d \in Nat /\ n - m = d + 1
  BY <1>1, <1>3
<1> HIDE DEF b, d
<1>7. bs_char_at(t, " ") = m - 1
  <2>1. m \in 1 .. Len(t)
    BY <1>1, <1>3
  <2>2. ASSUME NEW k \in 1 .. m - 1 PROVE t[k] # " "
    <3>1. k \in 1 .. n - 1 /\ k # m
      BY <1>1, <1>3
    <3> QED
      BY <1>5, <3>1
  <2> QED
    BY <1>4, <2>1, <2>2, CharAtIs
<1>8. /\ u \in Seq(Token) /\ Len(u) = Len(t) - m
      /\ \A k \in 1 .. Len(t) - m : u[k] = t[m + k]
  <2>1. m <= Len(t)
    BY <1>1, <1>3
  <2> QED
    BY <1>1, <2>1, PartOf
<1>9. Split(t, m - 1, 1) = [chopped |-> View(SubSeq(t, 1, m - 1)), rest |-> u]
  <2>1. m - 1 # -1 /\ (m - 1) + 1 + 1 = m + 1
    BY <1>3
  <2> QED
    BY <2>1 DEF Split
<1> HIDE DEF u
<1>10. bs_char_at(u, " ") = d
  <2>1. /\ d + 1 \in 1 .. Len(u) /\ m + (d + 1) = n /\ d + 1 \in 1 .. Len(t) - m
        /\ (d + 1) - 1 = d
    BY <1>1, <1>3, <1>6, <1>8
  <2>2. u[d + 1] = " "
    BY <1>4, <1>8, <2>1
  <2>3. ASSUME NEW k \in 1 .. (d + 1) - 1 PROVE u[k] # " "
    <3>1. k \in 1 .. Len(t) - m /\ m + k \in 1 .. n - 1 /\ m + k # m
      BY <1>1, <1>3, <1>6
    <3> QED
      BY <1>5, <1>8, <3>1
  <2>4. bs_char_at(u, " ") = (d + 1) - 1
    BY <1>8, <2>1, <2>2, <2>3, CharAtIs
  <2> QED
    BY <2>1, <2>4
<1>11. Split(u, d, 1).chopped = View(text)
  <2>1. d # -1
    BY <1>6
  <2> QED
    BY <2>1 DEF Split
<1>12. /\ text \in Seq(Token) /\ Len(text) = d
      /\ \A k \in 1 .. d : text[k] = u[k]
  <2>1. d <= Len(u)
    BY <1>1, <1>3, <1>6, <1>8
  <2> QED
    BY <1>6, <1>8, <2>1
<1> HIDE DEF text
<1>13. /\ _http_status_code(View(t)).dies = (View(text).null \/ View(text).text = <<>>)
      /\ _http_status_code(View(t)).code = View(text).text
  <2> DEFINE version == Split(t, bs_char_at(t, " "), 1)
             code == Split(version.rest, bs_char_at(version.rest, " "), 1).chopped
  <2>0. version = [chopped |-> View(SubSeq(t, 1, m - 1)), rest |-> u]
    BY <1>7, <1>9, Zenon
  <2>1. version.rest = u
    <3> HIDE DEF version
    <3> QED
      BY <2>0
  <2>2. code = View(text)
    <3> HIDE DEF version
    <3> QED
      BY <1>10, <1>11, <2>1, Zenon
  <2>3. version.rest \in Seq(Token) =>
          /\ _http_status_code(View(t)).dies = (code.null \/ code.text = <<>>)
          /\ _http_status_code(View(t)).code = code.text
    BY StatusOfView
  <2> HIDE DEF version, code
  <2> QED
    BY <1>8, <2>1, <2>2, <2>3
<1>14. View(text).null = FALSE /\ View(text).text = text
  BY DEF View
<1>15. text = <<>> <=> n = m + 1
  <2>1. text = <<>> <=> Len(text) = 0
    BY <1>12
  <2>2. d = 0 <=> n = m + 1
    BY <1>6
  <2>3. Len(text) = d
    BY <1>12
  <2> QED
    BY <2>1, <2>2, <2>3
<1>16. text = SubSeq(t, m + 1, b)
  <2> DEFINE part == SubSeq(t, m + 1, b)
  <2>1. part \in Seq(Token) /\ Len(part) = d /\ \A k \in 1 .. d : part[k] = t[m + k]
    BY <1>6, PartOf DEF d
  <2> HIDE DEF part
  <2>2. \A k \in 1 .. Len(text) : text[k] = part[k]
    <3> TAKE k \in 1 .. Len(text)
    <3>1. k \in 1 .. d /\ k \in 1 .. Len(t) - m
      BY <1>1, <1>3, <1>6, <1>12
    <3> QED
      BY <1>8, <1>12, <2>1, <3>1
  <2>3. text = part
    BY <1>12, <2>1, <2>2, SameView
  <2> QED
    BY <2>3 DEF part
<1> QED
  BY <1>13, <1>14, <1>15, <1>16 DEF b

(* The first two occurrences of x in a text are at m and n.                *)
FieldOf(t, x, m, n) ==
  /\ m \in 1 .. Len(t) /\ n \in 1 .. Len(t) /\ m < n
  /\ t[m] = x /\ t[n] = x
  /\ \A k \in 1 .. n - 1 : t[k] = x => k = m

(* Two splits find a text between two delimiters, if there are two.        *)
LEMMA TwoSplits ==
  ASSUME NEW t \in Seq(Token), NEW x
  PROVE  LET version == Split(t, bs_char_at(t, x), 1)
             code == Split(version.rest, bs_char_at(version.rest, x), 1).chopped
         IN  /\ version.rest \in Seq(Token)
             /\ code.null \/ \E m, n \in Nat : FieldOf(t, x, m, n)
<1> DEFINE version == Split(t, bs_char_at(t, x), 1)
           code == Split(version.rest, bs_char_at(version.rest, x), 1).chopped
<1>1. Len(t) \in Nat
  OBVIOUS
<1>2. ASSUME bs_char_at(t, x) = -1
      PROVE  version.rest \in Seq(Token) /\ code.null
  <2>1. version = [chopped |-> NullView, rest |-> t]
    BY <1>2 DEF Split
  <2>2. version.rest = t
    <3> HIDE DEF version
    <3> QED
      BY <2>1
  <2>3. Split(t, bs_char_at(t, x), 1).chopped.null
    BY <2>1 DEF NullView
  <2>4. code.null
    <3> HIDE DEF version
    <3> QED
      BY <2>2, <2>3
  <2> HIDE DEF version, code
  <2> QED
    BY <2>2, <2>4
<1>3. ASSUME NEW i \in 0 .. Len(t) - 1,
             bs_char_at(t, x) = i,
             t[i + 1] = x,
             \A k \in 1 .. i : t[k] # x
      PROVE  /\ version.rest \in Seq(Token)
             /\ code.null \/ \E m, n \in Nat : FieldOf(t, x, m, n)
  <2> DEFINE m == i + 1
             u == SubSeq(t, m + 1, Len(t))
  <2>1. i \in Nat /\ m \in Nat /\ 1 <= m /\ m <= Len(t) /\ i # -1 /\ i + 1 + 1 = m + 1
    BY <1>1
  <2>2. version = [chopped |-> View(SubSeq(t, 1, i)), rest |-> u]
    BY <1>3, <2>1 DEF Split
  <2>3. version.rest = u
    <3> HIDE DEF version, u
    <3> QED
      BY <2>2
  <2> HIDE DEF m, version
  <2>4. /\ u \in Seq(Token) /\ Len(u) = Len(t) - m
        /\ \A k \in 1 .. Len(t) - m : u[k] = t[m + k]
    BY <1>1, <2>1, PartOf
  <2> HIDE DEF u
  <2>5. t[m] = x /\ \A k \in 1 .. m - 1 : t[k] # x
    <3>1. m - 1 = i
      BY <2>1 DEF m
    <3> QED
      BY <1>3, <3>1 DEF m
  <2>6. CASE bs_char_at(u, x) = -1
    <3>1. Split(u, bs_char_at(u, x), 1).chopped = NullView
      BY <2>6 DEF Split
    <3>2. code = NullView
      BY <2>3, <3>1
    <3> HIDE DEF code
    <3>3. code.null
      BY <3>2 DEF NullView
    <3> QED
      BY <2>3, <2>4, <3>3
  <2>7. ASSUME NEW j \in 0 .. Len(u) - 1,
               u[j + 1] = x,
               \A k \in 1 .. j : u[k] # x
        PROVE  \E n \in Nat : FieldOf(t, x, m, n)
    <3> DEFINE n == m + (j + 1)
    <3>1. /\ j + 1 \in 1 .. Len(t) - m
          /\ n \in Nat /\ n \in 1 .. Len(t) /\ m \in 1 .. Len(t) /\ m < n
      BY <1>1, <2>1, <2>4
    <3>2. t[n] = x
      BY <2>4, <2>7, <3>1
    <3>3. ASSUME NEW k \in 1 .. n - 1, k # m PROVE t[k] # x
      <4>1. CASE k < m
        <5>1. k \in 1 .. m - 1
          BY <2>1, <3>1, <4>1
        <5> QED
          BY <2>5, <5>1
      <4>2. CASE m < k
        <5>1. /\ k - m \in 1 .. j /\ k - m \in 1 .. Len(t) - m
              /\ m + (k - m) = k
          BY <1>1, <2>1, <2>4, <3>1, <4>2
        <5> QED
          BY <2>4, <2>7, <5>1
      <4> QED
        BY <2>1, <3>1, <3>3, <4>1, <4>2
    <3> HIDE DEF n
    <3>4. FieldOf(t, x, m, n)
      BY <2>5, <3>1, <3>2, <3>3 DEF FieldOf
    <3> QED
      BY <3>1, <3>4
  <2>8. bs_char_at(u, x) = -1 \/ \E n \in Nat : FieldOf(t, x, m, n)
    BY <2>4, <2>7, CharAt
  <2> QED
    BY <2>1, <2>3, <2>4, <2>6, <2>8
<1> HIDE DEF version, code
<1>4. \/ bs_char_at(t, x) = -1
      \/ \E i \in 0 .. Len(t) - 1 :
           bs_char_at(t, x) = i /\ t[i + 1] = x /\ \A k \in 1 .. i : t[k] # x
  BY CharAt
<1>5. /\ version.rest \in Seq(Token)
      /\ code.null \/ \E m, n \in Nat : FieldOf(t, x, m, n)
  BY <1>2, <1>3, <1>4, Zenon
<1> QED
  BY <1>5 DEF version, code

LEMMA FieldIs ==
  \A t, m, n : Field(t, m, n) <=> FieldOf(t, " ", m, n)
BY DEF Field, FieldOf

(* Unless the assertion on the code fails, there are two spaces.           *)
LEMMA StatusField ==
  ASSUME NEW t \in Seq(Token), ~_http_status_code(View(t)).dies
  PROVE  \E m, n \in Nat : Field(t, m, n)
<1> DEFINE version == Split(t, bs_char_at(t, " "), 1)
           code == Split(version.rest, bs_char_at(version.rest, " "), 1).chopped
<1>1. version.rest \in Seq(Token) =>
        _http_status_code(View(t)).dies = (code.null \/ code.text = <<>>)
  BY StatusOfView
<1>2. /\ version.rest \in Seq(Token)
      /\ code.null \/ \E m, n \in Nat : FieldOf(t, " ", m, n)
  BY TwoSplits
<1> HIDE DEF version, code
<1>3. \E m, n \in Nat : FieldOf(t, " ", m, n)
  BY <1>1, <1>2, Zenon
<1> QED
  BY <1>3, FieldIs, Zenon

(* HasCode of any delimiter.                                               *)
CodeAt(line, x, code, a, b, e) ==
  /\ a < b /\ b < e /\ line[a] = x /\ line[b] = x /\ line[e] \notin Space
  /\ \A i \in 1 .. b - 1 : line[i] = x => i = a \/ \A j \in 1 .. i : line[j] \in Space
  /\ \E i \in 1 .. a - 1 : line[i] \notin Space
  /\ code = SubSeq(line, a + 1, b - 1)

LEMMA CodeIs ==
  \A line, code :
    HasCode(line, code) <=> \E a, b, e \in DOMAIN line : CodeAt(line, " ", code, a, b, e)
BY DEF HasCode, CodeAt

(* A part of a trimmed text is a part of the line it was trimmed from.     *)
SamePart(line, t, a, b, m, n) == SubSeq(line, a + 1, b - 1) = SubSeq(t, m + 1, n - 1)

LEMMA PartOfTrimmed ==
  ASSUME NEW line \in Seq(Token), NEW t \in Seq(Token), NEW p \in Nat, LiesAt(line, t, p),
         NEW m \in Nat, NEW n \in Nat, m < n, n <= Len(t)
  PROVE  SamePart(line, t, p + m, p + n, m, n)
<1> DEFINE b == n - 1
           a == p + m
           e == p + n
           c == e - 1
<1>1. Len(line) \in Nat /\ Len(t) \in Nat
  OBVIOUS
<1>2. p + Len(t) <= Len(line)
  BY <1>1 DEF LiesAt
<1>3. /\ b \in Nat /\ m <= b /\ b <= Len(t) /\ a \in Nat /\ c \in Nat /\ a <= c /\ c <= Len(line)
      /\ c - a = b - m
  BY <1>1, <1>2
<1>4. \A k \in 1 .. Len(t) : t[k] = line[p + k]
  BY DEF LiesAt
<1> DEFINE s == SubSeq(line, a + 1, c)
           u == SubSeq(t, m + 1, b)
<1> HIDE DEF a, b, c
<1>5. s \in Seq(Token) /\ Len(s) = c - a /\ \A k \in 1 .. c - a : s[k] = line[a + k]
  BY <1>3, PartOf
<1>6. u \in Seq(Token) /\ Len(u) = b - m /\ \A k \in 1 .. b - m : u[k] = t[m + k]
  BY <1>3, PartOf
<1> HIDE DEF s, u
<1>7. ASSUME NEW k \in 1 .. Len(s) PROVE s[k] = u[k]
  <2>1. k \in 1 .. c - a /\ k \in 1 .. b - m /\ m + k \in 1 .. Len(t)
    BY <1>1, <1>3, <1>5
  <2>2. p + (m + k) = a + k
    BY <1>2, <2>1 DEF a
  <2> QED
    BY <1>4, <1>5, <1>6, <2>1, <2>2
<1>8. s = u
  BY <1>3, <1>5, <1>6, <1>7, SameView
<1> QED
  BY <1>8 DEF s, u, a, b, c, SamePart

(* The field of a trimmed text is a code of the line, and the only one.    *)
LEMMA FieldToCode ==
  ASSUME NEW line \in Seq(Token), NEW t \in Seq(Token), NEW p, LiesAt(line, t, p), Edges(t),
         NEW x \in Space, NEW m \in Nat, NEW n \in Nat, FieldOf(t, x, m, n)
  PROVE  \E a, b, e \in DOMAIN line : CodeAt(line, x, SubSeq(t, m + 1, n - 1), a, b, e)
<1> DEFINE a == p + m
           b == p + n
           e == p + Len(t)
<1>1. Len(line) \in Nat /\ Len(t) \in Nat /\ DOMAIN line = 1 .. Len(line)
  OBVIOUS
<1>2. p \in Nat /\ p + Len(t) <= Len(line)
  BY <1>1 DEF LiesAt
<1>3. 1 <= m /\ m < n /\ n <= Len(t)
  BY <1>1 DEF FieldOf
<1>4. t[m] = x /\ t[n] = x
  BY DEF FieldOf
<1>5. t[1] \notin Space /\ t[Len(t)] \notin Space
  <2>1. t # <<>>
    BY <1>1, <1>3
  <2> QED
    BY <2>1 DEF Edges
<1>6. 1 < m /\ n < Len(t)
  BY <1>1, <1>3, <1>4, <1>5
<1>7. \A k \in 1 .. Len(t) : t[k] = line[p + k]
  BY DEF LiesAt
<1>8. /\ a \in DOMAIN line /\ b \in DOMAIN line /\ e \in DOMAIN line
      /\ a < b /\ b < e
  BY <1>1, <1>2, <1>3, <1>6
<1>9. line[a] = x /\ line[b] = x /\ line[e] \notin Space
  <2>1. m \in 1 .. Len(t) /\ n \in 1 .. Len(t) /\ Len(t) \in 1 .. Len(t)
    BY <1>1, <1>3
  <2> QED
    BY <1>4, <1>5, <1>7, <2>1
<1>10. ASSUME NEW i \in 1 .. b - 1, line[i] = x, i # a
       PROVE  \A j \in 1 .. i : line[j] \in Space
  <2>1. CASE i <= p
    <3>1. \A j \in 1 .. i : j \in 1 .. p
      BY <1>2, <2>1
    <3> QED
      BY <3>1 DEF LiesAt
  <2>2. CASE p < i
    <3>1. /\ i - p \in 1 .. n - 1 /\ i - p \in 1 .. Len(t)
          /\ p + (i - p) = i /\ i - p # m
      BY <1>1, <1>2, <1>3, <1>10, <2>2
    <3>2. t[i - p] = x
      BY <1>7, <1>10, <3>1
    <3> QED
      BY <3>1, <3>2 DEF FieldOf
  <2> QED
    BY <1>2, <2>1, <2>2
<1>11. \E i \in 1 .. a - 1 : line[i] \notin Space
  <2>1. p + 1 \in 1 .. a - 1 /\ 1 \in 1 .. Len(t)
    BY <1>1, <1>2, <1>3, <1>6
  <2>2. line[p + 1] \notin Space
    BY <1>5, <1>7, <2>1
  <2> QED
    BY <2>1, <2>2
<1>12. SubSeq(t, m + 1, n - 1) = SubSeq(line, a + 1, b - 1)
  <2>1. SamePart(line, t, p + m, p + n, m, n)
    BY <1>2, <1>3, PartOfTrimmed
  <2> QED
    BY <2>1, Zenon DEF SamePart
<1> HIDE DEF a, b, e
<1>13. CodeAt(line, x, SubSeq(t, m + 1, n - 1), a, b, e)
  BY <1>8, <1>9, <1>10, <1>11, <1>12 DEF CodeAt
<1> QED
  BY <1>8, <1>13

IsField(t, x, code) == \E m, n \in Nat : FieldOf(t, x, m, n) /\ code = SubSeq(t, m + 1, n - 1)

LEMMA CodeToField ==
  ASSUME NEW line \in Seq(Token), NEW t \in Seq(Token), NEW p, LiesAt(line, t, p), Edges(t),
         NEW x \in Space, NEW code,
         NEW a \in DOMAIN line, NEW b \in DOMAIN line, NEW e \in DOMAIN line,
         CodeAt(line, x, code, a, b, e)
  PROVE  IsField(t, x, code)
<1> DEFINE m == a - p
           n == b - p
<1>1. Len(line) \in Nat /\ Len(t) \in Nat /\ DOMAIN line = 1 .. Len(line)
  OBVIOUS
<1>2. p \in Nat /\ p + Len(t) <= Len(line)
  BY <1>1 DEF LiesAt
<1>3. a < b /\ b < e
  BY DEF CodeAt
<1>4. line[a] = x /\ line[b] = x /\ line[e] \notin Space
  BY DEF CodeAt
<1>5. PICK i \in 1 .. a - 1 : line[i] \notin Space
  BY DEF CodeAt
<1>6. p < a
  <2>1. i \notin 1 .. p
    BY <1>5 DEF LiesAt
  <2> QED
    BY <1>1, <1>2, <1>5, <2>1
<1>7. b < p + Len(t) /\ e <= p + Len(t)
  <2>1. e \notin p + Len(t) + 1 .. Len(line)
    BY <1>4 DEF LiesAt
  <2> QED
    BY <1>1, <1>2, <1>3, <2>1
<1>8. /\ m \in Nat /\ n \in Nat /\ m \in 1 .. Len(t) /\ n \in 1 .. Len(t) /\ m < n
      /\ p + m = a /\ p + n = b
  BY <1>1, <1>2, <1>3, <1>6, <1>7, SMTT(40)
<1> HIDE DEF m, n
<1>9. \A k \in 1 .. Len(t) : t[k] = line[p + k]
  BY DEF LiesAt
<1>10. t[m] = x /\ t[n] = x
  BY <1>4, <1>8, <1>9
<1>11. t[1] \notin Space
  <2>1. t # <<>>
    BY <1>1, <1>8
  <2> QED
    BY <2>1 DEF Edges
<1>12. ASSUME NEW k \in 1 .. n - 1, t[k] = x PROVE k = m
  <2>1. /\ k \in 1 .. Len(t) /\ p + k \in 1 .. b - 1 /\ p + 1 \in 1 .. p + k
        /\ 1 \in 1 .. Len(t)
    BY <1>1, <1>2, <1>8
  <2>2. line[p + k] = x
    BY <1>9, <1>12, <2>1
  <2>3. line[p + 1] \notin Space
    BY <1>9, <1>11, <2>1
  <2>4. p + k = a \/ \A j \in 1 .. p + k : line[j] \in Space
    BY <2>1, <2>2 DEF CodeAt
  <2>5. p + k = a
    BY <2>1, <2>3, <2>4
  <2> QED
    BY <1>2, <1>8, <2>5
<1>13. FieldOf(t, x, m, n)
  BY <1>8, <1>10, <1>12 DEF FieldOf
<1>14. code = SubSeq(t, m + 1, n - 1)
  <2>1. code = SubSeq(line, a + 1, b - 1)
    BY DEF CodeAt
  <2>2. m \in Nat /\ n \in Nat /\ m < n /\ n <= Len(t)
    BY <1>1, <1>8
  <2>3. SamePart(line, t, p + m, p + n, m, n)
    BY <1>2, <2>2, PartOfTrimmed
  <2>4. SamePart(line, t, a, b, m, n)
    BY <1>8, <2>3
  <2> QED
    BY <2>1, <2>4, Zenon DEF SamePart
<1> QED
  BY <1>8, <1>13, <1>14 DEF IsField

-------------------------------------------------------------------------------
(* The accept header.                                                      *)

(* The headers are those of the lines behind the status line.              *)
HeadersOf(r, items) ==
  /\ r \in Seq(Seq(Token)) /\ Len(r) \in Nat /\ Len(r) >= 1
  /\ \A i \in 1 .. Len(r) : r[i] \in Seq(Token)
  /\ items \in Seq(HeaderRecord)
  /\ Len(items) = Len(r) - 1
  /\ \A i \in 1 .. Len(items) : IsHeaderOf(r[i + 1], items[i])

LEMMA AllHeadersRead ==
  ASSUME ParseInv, pc = "verify"
  PROVE  HeadersOf(response, payload.items)
<1>1. /\ response \in Response /\ read = Len(response) /\ read >= 1
      /\ payload.items \in Seq(HeaderRecord)
  BY DEF ParseInv, ParseTypes, Progress, ArrayOf
<1>2. /\ response \in Seq(Seq(Token)) /\ Len(response) \in Nat /\ Len(response) >= 1
      /\ \A i \in 1 .. Len(response) : response[i] \in Seq(Token)
  BY <1>1, Lines
<1>3. /\ Len(payload.items) = IF read = 0 THEN 0 ELSE read - 1
      /\ \A i \in DOMAIN payload.items : IsHeaderOf(response[i + 1], payload.items[i])
  BY DEF ParseInv, HeadersWhole
<1>4. Len(payload.items) = Len(response) - 1
  BY <1>1, <1>2, <1>3
<1>5. DOMAIN payload.items = 1 .. Len(payload.items)
  BY <1>1
<1> QED
  BY <1>1, <1>2, <1>3, <1>4, <1>5 DEF HeadersOf

(* A line has one first colon, and one key in front of it.                 *)
FirstColon(line, c) == c \in Colons(line) /\ \A d \in Colons(line) : c <= d
AcceptKey(line, c) == FirstColon(line, c) /\ Trimmed(SubSeq(line, 1, c - 1), <<Accept>>)

LEMMA KeyInLine ==
  ASSUME NEW line \in Seq(Token), NEW h \in HeaderRecord, IsHeaderOf(line, h)
  PROVE  h.key = <<Accept>> <=> \E c : AcceptKey(line, c)
<1>1. Colons(line) \subseteq 1 .. Len(line) /\ Len(line) \in Nat
  BY DEF Colons
<1>2. <<Accept>> \in Seq(Token) /\ <<Accept>> # <<>> /\ h.key \in Seq(Token)
  BY ResponseAssumption DEF HeaderRecord
<1>3. ASSUME h.key = <<Accept>> PROVE \E c : AcceptKey(line, c)
  <2>1. \E c \in Colons(line) :
          /\ \A d \in Colons(line) : c <= d
          /\ Trimmed(SubSeq(line, 1, c - 1), h.key)
    BY <1>2, <1>3 DEF IsHeaderOf
  <2> QED
    BY <1>3, <2>1 DEF AcceptKey, FirstColon
<1>4. ASSUME NEW c, AcceptKey(line, c) PROVE h.key = <<Accept>>
  <2>1. /\ c \in Colons(line) /\ \A d \in Colons(line) : c <= d
        /\ Trimmed(SubSeq(line, 1, c - 1), <<Accept>>)
    BY <1>4 DEF AcceptKey, FirstColon
  <2>2. PICK d \in Colons(line) :
          /\ \A e \in Colons(line) : d <= e
          /\ Trimmed(SubSeq(line, 1, d - 1), h.key)
    BY <2>1 DEF IsHeaderOf
  <2>3. c = d
    <3>1. c <= d /\ d <= c /\ c \in Nat /\ d \in Nat
      BY <1>1, <2>1, <2>2
    <3> QED
      BY <3>1
  <2>4. SubSeq(line, 1, c - 1) \in Seq(Token)
    BY <1>1, <2>1
  <2> QED
    BY <1>2, <2>1, <2>2, <2>3, <2>4, TrimmedOnce
<1> QED
  BY <1>3, <1>4

LEMMA AcceptIs ==
  \A r, value :
    HasAccept(r, value) <=>
      \E i \in 2 .. Len(r) :
        /\ IsHeaderOf(r[i], [key |-> <<Accept>>, value |-> value])
        /\ \A j \in 2 .. i - 1 : ~\E c : AcceptKey(r[j], c)
BY DEF HasAccept, AcceptKey, FirstColon

(* The header verified is the first with the key in the response, and      *)
(* there is one if the response has one.                                   *)
LEMMA FoundHas ==
  ASSUME NEW r, NEW items, HeadersOf(r, items),
         NEW i \in _http_payload_header_get(items, <<Accept>>)
  PROVE  HasAccept(r, items[i].value)
<1>1. DOMAIN items = 1 .. Len(items) /\ Len(items) = Len(r) - 1 /\ Len(r) \in Nat
  BY DEF HeadersOf
<1>2. /\ i \in 1 .. Len(items) /\ items[i].key = <<Accept>>
      /\ \A j \in 1 .. i - 1 : items[j].key # <<Accept>>
  BY <1>1 DEF _http_payload_header_get
<1>3. \A j \in 1 .. Len(items) :
        /\ items[j] \in HeaderRecord
        /\ IsHeaderOf(r[j + 1], items[j])
        /\ r[j + 1] \in Seq(Token)
  <2> TAKE j \in 1 .. Len(items)
  <2>1. j + 1 \in 1 .. Len(r)
    BY <1>1
  <2> QED
    BY <2>1 DEF HeadersOf
<1>4. i + 1 \in 2 .. Len(r)
  BY <1>1, <1>2
<1>5. IsHeaderOf(r[i + 1], [key |-> <<Accept>>, value |-> items[i].value])
  <2>1. items[i] = [key |-> <<Accept>>, value |-> items[i].value]
    BY <1>2, <1>3 DEF HeaderRecord
  <2> QED
    BY <1>2, <1>3, <2>1
<1>6. ASSUME NEW j \in 2 .. (i + 1) - 1 PROVE ~\E c : AcceptKey(r[j], c)
  <2>1. j - 1 \in 1 .. i - 1 /\ j - 1 \in 1 .. Len(items) /\ (j - 1) + 1 = j
    BY <1>1, <1>2
  <2>2. items[j - 1].key # <<Accept>>
    BY <1>2, <2>1
  <2>3. items[j - 1] \in HeaderRecord /\ IsHeaderOf(r[j], items[j - 1]) /\ r[j] \in Seq(Token)
    BY <1>3, <2>1
  <2> QED
    BY <2>2, <2>3, KeyInLine
<1> QED
  BY <1>4, <1>5, <1>6, AcceptIs

LEMMA HasFound ==
  ASSUME NEW r, NEW items, HeadersOf(r, items), NEW value \in Seq(Token), HasAccept(r, value)
  PROVE  /\ _http_payload_header_get(items, <<Accept>>) # {}
         /\ \A i \in _http_payload_header_get(items, <<Accept>>) : items[i].value = value
<1>1. DOMAIN items = 1 .. Len(items) /\ Len(items) = Len(r) - 1 /\ Len(r) \in Nat
  BY DEF HeadersOf
<1>2. PICK k \in 2 .. Len(r) :
        /\ IsHeaderOf(r[k], [key |-> <<Accept>>, value |-> value])
        /\ \A j \in 2 .. k - 1 : ~\E c : AcceptKey(r[j], c)
  BY AcceptIs
<1>3. \A j \in 1 .. Len(items) :
        /\ items[j] \in HeaderRecord
        /\ IsHeaderOf(r[j + 1], items[j])
        /\ r[j + 1] \in Seq(Token)
  <2> TAKE j \in 1 .. Len(items)
  <2>1. j + 1 \in 1 .. Len(r)
    BY <1>1
  <2> QED
    BY <2>1 DEF HeadersOf
<1> DEFINE i == k - 1
<1>4. i \in 1 .. Len(items) /\ i + 1 = k
  BY <1>1, <1>2
<1> HIDE DEF i
<1>5. items[i].key = <<Accept>> /\ items[i].value = value
  <2> DEFINE g == [key |-> <<Accept>>, value |-> value]
  <2>1. g.key \in Seq(Token) /\ g.value \in Seq(Token) /\ g.key = <<Accept>> /\ g.value = value
    BY ResponseAssumption
  <2>2. IsHeaderOf(r[k], g)
    BY <1>2
  <2>3. /\ r[k] \in Seq(Token) /\ IsHeaderOf(r[k], items[i])
        /\ items[i].key \in Seq(Token) /\ items[i].value \in Seq(Token)
    BY <1>3, <1>4 DEF HeaderRecord
  <2> HIDE DEF g
  <2>4. items[i].key = g.key /\ items[i].value = g.value
    BY <2>1, <2>2, <2>3, HeaderOnce, ZenonT(60)
  <2> QED
    BY <2>1, <2>4
<1>6. ASSUME NEW j \in 1 .. i - 1 PROVE items[j].key # <<Accept>>
  <2>1. j + 1 \in 2 .. k - 1 /\ j \in 1 .. Len(items)
    BY <1>1, <1>2, <1>4
  <2>2. ~\E c : AcceptKey(r[j + 1], c)
    BY <1>2, <2>1
  <2> QED
    BY <1>3, <2>1, <2>2, KeyInLine
<1>7. i \in _http_payload_header_get(items, <<Accept>>)
  BY <1>1, <1>4, <1>5, <1>6 DEF _http_payload_header_get
<1>8. ASSUME NEW j \in _http_payload_header_get(items, <<Accept>>) PROVE j = i
  <2>1. /\ j \in 1 .. Len(items) /\ items[j].key = <<Accept>>
        /\ \A l \in 1 .. j - 1 : items[l].key # <<Accept>>
    BY <1>1, <1>8 DEF _http_payload_header_get
  <2>2. ~(i \in 1 .. j - 1) /\ ~(j \in 1 .. i - 1)
    BY <1>5, <1>6, <2>1
  <2> QED
    BY <1>1, <1>4, <2>1, <2>2
<1> QED
  BY <1>5, <1>7, <1>8

-------------------------------------------------------------------------------
(* The verdict.                                                            *)

(* What the line says and what the code makes of it.                       *)
Agrees(line, status) ==
  /\ \A code : HasCode(line, code) => code = status.code /\ (status.dies => code = <<>>)
  /\ ~status.dies => HasCode(line, status.code)

LEMMA CodeOfLine ==
  ASSUME NEW line \in Seq(Token)
  PROVE  Agrees(line, _http_status_code(View(bs_trim(line))))
<1> DEFINE t == bs_trim(line)
           status == _http_status_code(View(t))
<1>1. t \in Seq(Token) /\ Trimmed(line, t)
  BY TrimIsTrimmed
<1> HIDE DEF t
<1>2. Edges(t) /\ \E p : LiesAt(line, t, p)
  BY <1>1, TrimmedLies
<1>3. PICK p : LiesAt(line, t, p)
  BY <1>2
<1>4. \A m, n \in Nat : Field(t, m, n) =>
        status.dies = (n = m + 1) /\ status.code = SubSeq(t, m + 1, n - 1)
  BY <1>1, CodeOfField
<1>5. ~status.dies => \E m, n \in Nat : Field(t, m, n)
  BY <1>1, StatusField
<1> HIDE DEF status
<1>6. ASSUME NEW code, HasCode(line, code)
      PROVE  code = status.code /\ (status.dies => code = <<>>)
  <2>1. PICK a \in DOMAIN line, b \in DOMAIN line, e \in DOMAIN line :
               CodeAt(line, " ", code, a, b, e)
    BY <1>6, CodeIs, Zenon
  <2>2. IsField(t, " ", code)
    <3>1. " " \in Space
      BY SpaceAssumption, Zenon
    <3>2. ASSUME NEW x \in Space, CodeAt(line, x, code, a, b, e)
          PROVE  IsField(t, x, code)
      BY <1>1, <1>2, <1>3, <3>2, CodeToField
    <3> QED
      BY <2>1, <3>1, <3>2, Zenon
  <2>3. PICK m \in Nat, n \in Nat : Field(t, m, n) /\ code = SubSeq(t, m + 1, n - 1)
    BY <2>2, FieldIs, Zenon DEF IsField
  <2>4. status.dies = (n = m + 1) /\ status.code = SubSeq(t, m + 1, n - 1)
    BY <1>4, <2>3
  <2>5. n = m + 1 => SubSeq(t, m + 1, n - 1) = <<>>
    <3>1. SubSeq(t, m + 1, m) = <<>>
      BY <1>1
    <3>2. n = m + 1 => n - 1 = m
      OBVIOUS
    <3> QED
      BY <3>1, <3>2
  <2> QED
    BY <2>3, <2>4, <2>5
<1>7. ASSUME ~status.dies PROVE HasCode(line, status.code)
  <2>1. PICK m \in Nat, n \in Nat : Field(t, m, n)
    BY <1>5, <1>7
  <2>2. FieldOf(t, " ", m, n)
    BY <2>1, FieldIs, Zenon
  <2>3. \E a, b, e \in DOMAIN line : CodeAt(line, " ", SubSeq(t, m + 1, n - 1), a, b, e)
    BY <1>1, <1>2, <1>3, <2>2, SpaceAssumption, FieldToCode, Zenon
  <2>4. status.code = SubSeq(t, m + 1, n - 1)
    BY <1>4, <2>1
  <2> QED
    BY <2>3, <2>4, CodeIs, Zenon
<1> QED
  BY <1>6, <1>7 DEF Agrees, status, t

(* The code of the response, or of a status line that was lost.            *)
LEMMA StatusKnown ==
  ASSUME ParseInv, pc = "verify"
  PROVE  \/ Agrees(response[1], Status)
         \/ /\ http_line.null /\ ooms > 0
            /\ ~Status.dies /\ Status.code = <<>>
<1>1. response[1] \in Seq(Token)
  <2>1. response \in Response
    BY DEF ParseInv, ParseTypes
  <2>2. 1 \in 1 .. Len(response)
    BY <2>1, Lines
  <2> QED
    BY <2>1, <2>2, Lines
<1>2. http_line = View(bs_trim(response[1])) \/ (http_line = NullView /\ ooms > 0)
  BY DEF ParseInv, StatusKept
<1>3. CASE http_line = View(bs_trim(response[1]))
  BY <1>1, <1>3, CodeOfLine DEF Status
<1>4. CASE http_line = NullView /\ ooms > 0
  <2>1. http_line.null = TRUE
    BY <1>4 DEF NullView
  <2>2. Status = [dies |-> FALSE, code |-> <<>>]
    BY <2>1, Zenon DEF Status, _http_status_code
  <2>3. Status.dies = FALSE /\ Status.code = <<>>
    BY <2>2
  <2> QED
    BY <1>4, <2>1, <2>3
<1> QED
  BY <1>2, <1>3, <1>4

(* The verdict stays right.                                                *)
LEMMA VerdictStep == ParseInv /\ VerdictIsRight /\ [Next]_vars => VerdictIsRight'
<1> SUFFICES ASSUME ParseInv, VerdictIsRight, [Next]_vars PROVE VerdictIsRight'
  OBVIOUS
<1>1. CASE VerifyResponse
  <2>1. /\ pc = "verify"
        /\ UNCHANGED <<response, http_line, payload>>
        /\ Judges
    BY <1>1, ResponseJudged
  <2>2. \/ Agrees(response[1], Status)
        \/ /\ http_line.null /\ ooms > 0
           /\ ~Status.dies /\ Status.code = <<>>
    BY <2>1, StatusKnown
  <2>3. result = "none"
    BY <2>1 DEF ParseInv, ParseTypes, Progress
  <2>4. CASE /\ result' = WS_CONNECTION_FAILURE /\ ooms' = ooms
             /\ ~Status.dies /\ Status.code # <<"101">>
    <3>1. ~HasCode(response[1], <<"101">>) \/ (ooms > 0 /\ http_line.null)
      BY <2>2, <2>4 DEF Agrees
    <3>2. result' # WS_SUCCESS
      BY <2>4 DEF WS_SUCCESS, WS_CONNECTION_FAILURE
    <3> QED
      BY <2>1, <2>4, <3>1, <3>2 DEF VerdictIsRight
  <2>5. ASSUME ~Status.dies, Status.code = <<"101">>, NEW i \in Found,
               result' = WS_SUCCESS,
               payload.items[i].value = <<Digest>>
                 \/ (payload.items[i].value = <<>> /\ ooms' > 0)
        PROVE  VerdictIsRight'
    <3>1. HasCode(response[1], <<"101">>)
      <4>1. <<"101">> # <<>>
        OBVIOUS
      <4> QED
        BY <2>2, <2>5, <4>1 DEF Agrees
    <3>2. HasAccept(response, payload.items[i].value)
      BY <2>1, <2>5, AllHeadersRead, FoundHas DEF Found
    <3>3. HasAccept(response, <<Digest>>) \/ (ooms' > 0 /\ HasAccept(response, <<>>))
      BY <2>5, <3>2
    <3>4. result' # WS_CONNECTION_FAILURE
      BY <2>5 DEF WS_SUCCESS, WS_CONNECTION_FAILURE
    <3> QED
      BY <2>1, <3>1, <3>3, <3>4 DEF VerdictIsRight
  <2>6. CASE UNCHANGED result
    <3>1. result' # WS_SUCCESS /\ result' # WS_CONNECTION_FAILURE
      BY <2>3, <2>6 DEF WS_SUCCESS, WS_CONNECTION_FAILURE
    <3> QED
      BY <3>1 DEF VerdictIsRight
  <2> QED
    BY <2>1, <2>4, <2>5, <2>6 DEF Judges
<1>2. CASE pc # "returned" /\ UNCHANGED result
  <2>1. result = "none"
    BY <1>2 DEF ParseInv, ParseTypes, Progress
  <2>2. result' # WS_SUCCESS /\ result' # WS_CONNECTION_FAILURE
    BY <1>2, <2>1 DEF WS_SUCCESS, WS_CONNECTION_FAILURE
  <2> QED
    BY <2>2 DEF VerdictIsRight
<1>3. CASE ReadStatusLine \/ ReadHeaderLine \/ ReadBlankLine
  BY <1>2, <1>3 DEF ReadStatusLine, ReadHeaderLine, ReadBlankLine
<1>4. CASE UNCHANGED vars
  BY <1>4 DEF vars, VerdictIsRight
<1> QED
  BY <1>1, <1>3, <1>4 DEF Next

(* For every response: ws_connect returns WS_SUCCESS only for a 101 answer *)
(* whose first accept header is the digest, and WS_CONNECTION_FAILURE only *)
(* for another code, but for what a failed allocation made of them.        *)
THEOREM Verdict == Spec => []VerdictIsRight
<1>1. Init => VerdictIsRight
  BY DEF Init, VerdictIsRight, WS_SUCCESS, WS_CONNECTION_FAILURE
<1> QED
  BY <1>1, VerdictStep, ParseInvAlways, PTL DEF Spec

(* A death keeps its cause.                                                *)
LEMMA DeathStep == ParseInv /\ DeathHasCause /\ [Next]_vars => DeathHasCause'
<1> SUFFICES ASSUME ParseInv, DeathHasCause, [Next]_vars, pc' = "dead", ooms' = 0
             PROVE  DeathHasCause'
  BY DEF DeathHasCause
<1>1. CASE VerifyResponse
  <2>1. /\ pc = "verify"
        /\ UNCHANGED <<response, http_line, payload>>
        /\ ooms' >= ooms
        /\ Judges
    BY <1>1, ResponseJudged
  <2>2. ooms = 0
    BY <2>1, OomAssumption DEF ParseInv, ParseTypes
  <2>3. Agrees(response[1], Status)
    BY <2>1, <2>2, StatusKnown
  <2>4. HeadersOf(response, payload.items)
    BY <2>1, AllHeadersRead
  <2>5. CASE Status.dies
    <3>1. ASSUME NEW i \in DOMAIN response[1], NEW j \in DOMAIN response[1],
                 i < j, HasCode(response[1], SubSeq(response[1], i, j - 1))
          PROVE  FALSE
      <4> DEFINE part == SubSeq(response[1], i, j - 1)
      <4>1. part = <<>>
        BY <2>3, <2>5, <3>1 DEF Agrees
      <4>2. response[1] \in Seq(Token)
        BY <2>4 DEF HeadersOf
      <4>3. Len(part) = j - i /\ j - i > 0
        BY <3>1, <4>2
      <4> HIDE DEF part
      <4>4. Len(part) = 0
        BY <4>1
      <4> QED
        BY <4>3, <4>4
    <3> QED
      BY <2>1, <3>1 DEF DeathHasCause
  <2>6. CASE Status.code = <<"101">> /\ ~Status.dies
    <3>1. HasCode(response[1], <<"101">>)
      BY <2>3, <2>6 DEF Agrees
    <3>2. ASSUME HasAccept(response, <<Digest>>) PROVE FALSE
      <4>1. <<Digest>> \in Seq(Token)
        BY ResponseAssumption
      <4>2. Found # {} /\ \A i \in Found : payload.items[i].value = <<Digest>>
        BY <2>4, <3>2, <4>1, HasFound DEF Found
      <4>3. \E i \in Found : payload.items[i].value # <<Digest>> \/ ooms' > 0
        BY <2>1, <2>6, <4>2 DEF Judges
      <4> QED
        BY <4>2, <4>3
    <3> QED
      BY <2>1, <3>1, <3>2 DEF DeathHasCause
  <2> QED
    BY <2>1, <2>5, <2>6 DEF Judges
<1>2. CASE ReadHeaderLine
  <2> DEFINE line == response[read + 1]
  <2>1. /\ pc = "headers" /\ read < Len(response)
        /\ UNCHANGED response
        /\ \/ _http_parse_header(line)
           \/ bs_trim(line) = <<>>
    BY <1>2 DEF ReadHeaderLine
  <2>2. read + 1 \in 2 .. Len(response) /\ line \in Seq(Token)
    <3>1. /\ response \in Response /\ read \in 0 .. Len(response) /\ read >= 1
      BY <2>1 DEF ParseInv, ParseTypes, Progress
    <3>2. Len(response) \in Nat /\ \A i \in 1 .. Len(response) : response[i] \in Seq(Token)
      BY <3>1, Lines
    <3>3. read + 1 \in 2 .. Len(response) /\ read + 1 \in 1 .. Len(response)
      BY <2>1, <3>1, <3>2
    <3> QED
      BY <3>2, <3>3
  <2> HIDE DEF line
  <2>3. CASE _http_parse_header(line)
    <3>1. pc' = "headers" \/ ooms' > 0
      BY <2>1, <2>2, <2>3, LineParsed
    <3> QED
      BY <3>1
  <2>4. CASE bs_trim(line) = <<>>
    <3>1. Trimmed(line, <<>>)
      BY <2>2, <2>4, TrimIsTrimmed
    <3> QED
      BY <2>1, <2>2, <3>1 DEF DeathHasCause, line
  <2> QED
    BY <2>1, <2>3, <2>4
<1>3. CASE ReadStatusLine \/ ReadBlankLine
  BY <1>3 DEF ReadStatusLine, ReadBlankLine
<1>4. CASE UNCHANGED vars
  BY <1>4 DEF vars, DeathHasCause
<1> QED
  BY <1>1, <1>2, <1>3, <1>4 DEF Next

(* For every response: as long as no allocation fails, only a blank header *)
(* line, a status line without a code, or a 101 answer without the digest  *)
(* ends the process.                                                       *)
THEOREM Death == Spec => []DeathHasCause
<1>1. Init => DeathHasCause
  BY DEF Init, DeathHasCause
<1> QED
  BY <1>1, DeathStep, ParseInvAlways, PTL DEF Spec
===============================================================================
