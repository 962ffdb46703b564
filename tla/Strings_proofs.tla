----------------------------- MODULE Strings_proofs -----------------------------
(***************************************************************************)
(* What the functions of libs/bs.h and libs/dyn_array.h return, for views, *)
(* builders and arrays of any size.  Loops are modelled by the offset or   *)
(* the number they stop at, and the first step is always that there is     *)
(* one: a set of numbers has a least element, which also is all the        *)
(* induction there is here.                                                *)
(***************************************************************************)
EXTENDS StringViews, StringBuilder, DynArray, WellFoundedInduction, TLAPS

LessThan == OpToRel(<, Nat)

(* A set of natural numbers has a least one.                               *)
LEMMA Least ==
  ASSUME NEW S, S \subseteq Nat, S # {}
  PROVE  \E i \in S : \A j \in S : i <= j
<1>1. PICK i \in S : \A j \in S : ~(<<j, i>> \in LessThan)
  <2>1. IsWellFoundedOn(LessThan, Nat)
    BY NatLessThanWellFounded DEF LessThan
  <2> QED
    BY <2>1, WFMin
<1>2. ASSUME NEW j \in S PROVE i <= j
  <2>1. i \in Nat /\ j \in Nat
    OBVIOUS
  <2>2. j < i => <<j, i>> \in LessThan
    BY <2>1 DEF LessThan, OpToRel
  <2> QED
    BY <1>1, <2>1, <2>2
<1> QED
  BY <1>2

(* A set of numbers up to n has a greatest one.                            *)
LEMMA Greatest ==
  ASSUME NEW n \in Nat, NEW S, S \subseteq 0 .. n, S # {}
  PROVE  \E i \in S : \A j \in S : j <= i
<1> DEFINE T == {n - i : i \in S}
<1>1. T \subseteq Nat /\ T # {}
  <2>1. \A i \in S : n - i \in Nat
    OBVIOUS
  <2>2. T \subseteq Nat
    BY <2>1
  <2>3. PICK i \in S : TRUE
    OBVIOUS
  <2>4. n - i \in T
    BY <2>3
  <2> QED
    BY <2>2, <2>4
<1>2. PICK k \in T : \A m \in T : k <= m
  BY <1>1, Least
<1>3. PICK i \in S : k = n - i
  BY <1>2
<1>4. ASSUME NEW j \in S PROVE j <= i
  <2>1. n - j \in T /\ n - j \in Nat /\ k \in Nat /\ i \in Nat /\ j \in Nat
    BY <1>1, <1>3
  <2>2. k <= n - j
    BY <1>2, <2>1
  <2> QED
    BY <1>3, <2>1, <2>2
<1> QED
  BY <1>4

-------------------------------------------------------------------------------
(* The end of the trimmed view.                                            *)
LEMMA TrimRight ==
  ASSUME NEW T, NEW str \in Seq(T), str # <<>>
  PROVE  \E b \in 1 .. Len(str) :
           /\ bs_trim_right(str) = SubSeq(str, 1, b)
           /\ b = 1 \/ str[b] \notin Space
           /\ \A j \in b + 1 .. Len(str) : str[j] \in Space
<1> DEFINE n == Len(str)
           stops == {i \in 1 .. n : i = 1 \/ str[i] \notin Space}
<1>1. n \in Nat \ {0}
  OBVIOUS
<1>2. PICK b \in stops : \A j \in stops : j <= b
  <2>1. stops \subseteq 0 .. n /\ 1 \in stops
    BY <1>1
  <2> QED
    BY <1>1, <2>1, Greatest
<1>3. /\ b \in 1 .. n
      /\ b = 1 \/ str[b] \notin Space
      /\ \A j \in b + 1 .. n : str[j] \in Space
  <2>1. ASSUME NEW j \in b + 1 .. n, str[j] \notin Space PROVE FALSE
    <3>1. j \in stops
      BY <1>1, <1>2, <2>1
    <3> QED
      BY <1>2, <2>1, <3>1
  <2> QED
    BY <1>2, <2>1
<1> QED
  BY <1>3 DEF bs_trim_right

(* The start of the trimmed view.                                          *)
LEMMA TrimLeft ==
  ASSUME NEW T, NEW str \in Seq(T)
  PROVE  \E a \in 0 .. Len(str) :
           /\ bs_trim_left(str) = SubSeq(str, a + 1, Len(str))
           /\ \A j \in 1 .. a : str[j] \in Space
           /\ a = Len(str) \/ str[a + 1] \notin Space
<1> DEFINE n == Len(str)
           white == {i \in 0 .. n : \A j \in 1 .. i : str[j] \in Space}
<1>1. n \in Nat
  OBVIOUS
<1>2. PICK a \in white : \A j \in white : j <= a
  <2>1. white \subseteq 0 .. n /\ 0 \in white
    BY <1>1
  <2> QED
    BY <1>1, <2>1, Greatest
<1>3. ASSUME a # n, str[a + 1] \in Space PROVE FALSE
  <2>1. a + 1 \in white
    BY <1>1, <1>2, <1>3
  <2> QED
    BY <1>2, <2>1
<1> QED
  BY <1>2, <1>3 DEF bs_trim_left

(* bs_trim cuts white space from both ends and nothing else: what it       *)
(* leaves is empty or begins with a character that is none.                *)
THEOREM TrimCuts ==
  ASSUME NEW T, NEW str \in Seq(T), str # <<>>
  PROVE  \E a \in 0 .. Len(str), b \in 1 .. Len(str) :
           /\ a <= b
           /\ bs_trim(str) = SubSeq(str, a + 1, b)
           /\ \A j \in (1 .. a) \cup (b + 1 .. Len(str)) : str[j] \in Space
           /\ a = b \/ str[a + 1] \notin Space
           /\ b = 1 \/ str[b] \notin Space
<1>1. PICK b \in 1 .. Len(str) :
           /\ bs_trim_right(str) = SubSeq(str, 1, b)
           /\ b = 1 \/ str[b] \notin Space
           /\ \A j \in b + 1 .. Len(str) : str[j] \in Space
  BY TrimRight
<1> DEFINE left == SubSeq(str, 1, b)
<1>2. left \in Seq(T) /\ Len(left) = b /\ \A i \in 1 .. b : left[i] = str[i]
  BY <1>1
<1> HIDE DEF left
<1>3. PICK a \in 0 .. b :
           /\ bs_trim_left(left) = SubSeq(left, a + 1, b)
           /\ \A j \in 1 .. a : left[j] \in Space
           /\ a = b \/ left[a + 1] \notin Space
  BY <1>2, TrimLeft
<1>4. SubSeq(left, a + 1, b) = SubSeq(str, a + 1, b)
  BY <1>1, <1>2, <1>3
<1>5. bs_trim(str) = SubSeq(str, a + 1, b)
  BY <1>1, <1>3, <1>4 DEF bs_trim, left
<1>6. \A j \in 1 .. a : str[j] \in Space
  BY <1>1, <1>2, <1>3
<1>7. a = b \/ str[a + 1] \notin Space
  BY <1>1, <1>2, <1>3
<1>8. a \in 0 .. Len(str) /\ a <= b
  BY <1>1, <1>3
<1>9. \A j \in (1 .. a) \cup (b + 1 .. Len(str)) : str[j] \in Space
  BY <1>1, <1>6
<1> QED
  BY <1>1, <1>5, <1>7, <1>8, <1>9

-------------------------------------------------------------------------------
(* Powers of two.                                                          *)

(* A table of the powers up to the n-th.                                   *)
Doubles(h, n) ==
  /\ h \in [0 .. n -> Nat]
  /\ h[0] = 1
  /\ \A i \in 1 .. n : h[i] = 2 * h[i - 1]

LEMMA TableExists ==
  ASSUME NEW n \in Nat
  PROVE  \E h : Doubles(h, n)
<1> DEFINE without == {m \in Nat : ~ \E h : Doubles(h, m)}
<1>1. SUFFICES ASSUME without # {} PROVE FALSE
  OBVIOUS
<1>2. PICK m \in without : \A k \in without : m <= k
  <2>1. without \subseteq Nat
    OBVIOUS
  <2> QED
    BY <1>1, <2>1, Least
<1>3. m \in Nat /\ ~ \E h : Doubles(h, m)
  BY <1>2
<1>4. CASE m = 0
  <2> DEFINE h == [i \in 0 .. 0 |-> 1]
  <2>1. Doubles(h, 0)
    BY DEF Doubles
  <2> QED
    BY <1>3, <1>4, <2>1
<1>5. CASE m > 0
  <2>1. m - 1 \in Nat /\ m - 1 \notin without
    BY <1>2, <1>3, <1>5
  <2>2. PICK h : Doubles(h, m - 1)
    BY <2>1
  <2> DEFINE g == [i \in 0 .. m |-> IF i = m THEN 2 * h[m - 1] ELSE h[i]]
  <2>3. /\ h \in [0 .. m - 1 -> Nat]
        /\ h[0] = 1
        /\ \A i \in 1 .. m - 1 : h[i] = 2 * h[i - 1]
    BY <2>2 DEF Doubles
  <2>4. g \in [0 .. m -> Nat]
    BY <1>3, <1>5, <2>3
  <2>5. g[0] = 1
    BY <1>3, <1>5, <2>3
  <2>6. ASSUME NEW i \in 1 .. m PROVE g[i] = 2 * g[i - 1]
    <3>1. i - 1 \in 0 .. m /\ i - 1 # m /\ g[i - 1] = h[i - 1]
      BY <1>3
    <3> QED
      BY <1>3, <2>3, <3>1
  <2>7. Doubles(g, m)
    <3> HIDE DEF g
    <3> QED
      BY <2>4, <2>5, <2>6 DEF Doubles
  <2> QED
    BY <1>3, <2>7
<1> QED
  BY <1>3, <1>4, <1>5

LEMMA TableUnique ==
  ASSUME NEW n \in Nat, NEW h, Doubles(h, n),
         NEW m \in Nat, NEW g, Doubles(g, m),
         NEW i \in 0 .. n, i <= m
  PROVE  h[i] = g[i]
<1> DEFINE differ == {k \in 0 .. n : k <= m /\ h[k] # g[k]}
<1>1. SUFFICES ASSUME differ # {} PROVE FALSE
  OBVIOUS
<1>2. PICK k \in differ : \A l \in differ : k <= l
  <2>1. differ \subseteq Nat
    OBVIOUS
  <2> QED
    BY <1>1, <2>1, Least
<1>3. k # 0
  BY <1>2 DEF Doubles
<1>4. k - 1 \in 0 .. n /\ k - 1 <= m /\ k - 1 \notin differ
  BY <1>2, <1>3
<1>5. h[k - 1] = g[k - 1]
  BY <1>4
<1>6. k \in 1 .. n /\ k \in 1 .. m
  BY <1>2, <1>3
<1>7. h[k] = 2 * h[k - 1] /\ g[k] = 2 * g[k - 1]
  BY <1>6 DEF Doubles
<1> QED
  BY <1>2, <1>5, <1>7

(* The recursive function has the values of its definition.                *)
LEMMA PowersOfTwo ==
  /\ PowerOfTwo \in [Nat -> Nat]
  /\ PowerOfTwo[0] = 1
  /\ \A n \in Nat : PowerOfTwo[n + 1] = 2 * PowerOfTwo[n]
<1> DEFINE table(n) == CHOOSE h : Doubles(h, n)
           f == [n \in Nat |-> table(n)[n]]
<1>1. \A n \in Nat : Doubles(table(n), n)
  BY TableExists
<1> HIDE DEF table
<1>2. \A n \in Nat : table(n)[n] \in Nat
  <2> TAKE n \in Nat
  <2>1. n \in 0 .. n
    OBVIOUS
  <2> QED
    BY <1>1, <2>1 DEF Doubles
<1>3. f \in [Nat -> Nat]
  BY <1>2
<1>4. f[0] = 1
  BY <1>1 DEF Doubles
<1>5. ASSUME NEW n \in Nat PROVE f[n + 1] = 2 * f[n]
  <2>1. n + 1 \in Nat /\ n + 1 \in 1 .. n + 1 /\ n \in 0 .. n /\ n <= n + 1 /\ (n + 1) - 1 = n
    OBVIOUS
  <2>2. table(n + 1)[n + 1] = 2 * table(n + 1)[n]
    BY <1>1, <2>1 DEF Doubles
  <2>3. table(n)[n] = table(n + 1)[n]
    BY <1>1, <2>1, TableUnique
  <2> QED
    BY <2>1, <2>2, <2>3
<1> HIDE DEF f
<1>6. f = [n \in Nat |-> IF n = 0 THEN 1 ELSE 2 * f[n - 1]]
  <2>1. ASSUME NEW n \in Nat PROVE f[n] = IF n = 0 THEN 1 ELSE 2 * f[n - 1]
    <3>1. CASE n = 0
      BY <1>4, <3>1
    <3>2. CASE n # 0
      <4>1. n - 1 \in Nat /\ (n - 1) + 1 = n
        BY <3>2
      <4>2. f[(n - 1) + 1] = 2 * f[n - 1]
        BY <1>5, <4>1
      <4> QED
        BY <3>2, <4>1, <4>2
    <3> QED
      BY <3>1, <3>2
  <2> QED
    BY <1>3, <2>1
<1>7. PowerOfTwo = [n \in Nat |-> IF n = 0 THEN 1 ELSE 2 * PowerOfTwo[n - 1]]
  BY <1>6 DEF PowerOfTwo
<1>8. ASSUME NEW g, g = [n \in Nat |-> IF n = 0 THEN 1 ELSE 2 * g[n - 1]],
             NEW n \in Nat
      PROVE  g[n] = f[n]
  <2> DEFINE differ == {k \in Nat : g[k] # f[k]}
  <2>1. SUFFICES ASSUME differ # {} PROVE FALSE
    BY <1>8
  <2>2. PICK k \in differ : \A l \in differ : k <= l
    <3>1. differ \subseteq Nat
      OBVIOUS
    <3> QED
      BY <2>1, <3>1, Least
  <2>3. k \in Nat /\ g[k] # f[k] /\ g[k] = IF k = 0 THEN 1 ELSE 2 * g[k - 1]
    BY <1>8, <2>2
  <2>4. k # 0
    BY <1>4, <2>3
  <2>5. k - 1 \in Nat /\ k - 1 \notin differ /\ (k - 1) + 1 = k
    BY <2>2, <2>3, <2>4
  <2>6. g[k - 1] = f[k - 1] /\ f[k] = 2 * f[k - 1]
    BY <1>5, <2>5
  <2> QED
    BY <2>3, <2>4, <2>6
<1>9. PowerOfTwo = f
  <2>1. \A n \in Nat : PowerOfTwo[n] = f[n]
    BY <1>7, <1>8
  <2>2. PowerOfTwo = [n \in Nat |-> PowerOfTwo[n]] /\ f = [n \in Nat |-> f[n]]
    <3>1. f = [n \in Nat |-> f[n]]
      BY <1>3
    <3>2. PowerOfTwo = [n \in Nat |-> PowerOfTwo[n]]
      BY <1>7
    <3> QED
      BY <3>1, <3>2
  <2> QED
    BY <2>1, <2>2
<1> QED
  BY <1>3, <1>4, <1>5, <1>9

LEMMA PowerExceeds ==
  ASSUME NEW n \in Nat
  PROVE  n < PowerOfTwo[n]
<1> DEFINE small == {k \in Nat : ~(k < PowerOfTwo[k])}
<1>1. SUFFICES ASSUME small # {} PROVE FALSE
  OBVIOUS
<1>2. PICK k \in small : \A l \in small : k <= l
  <2>1. small \subseteq Nat
    OBVIOUS
  <2> QED
    BY <1>1, <2>1, Least
<1>3. k \in Nat /\ PowerOfTwo[k] \in Nat /\ ~(k < PowerOfTwo[k])
  BY <1>2, PowersOfTwo
<1>4. k # 0
  BY <1>3, PowersOfTwo
<1>5. k - 1 \in Nat /\ k - 1 \notin small /\ (k - 1) + 1 = k
  BY <1>2, <1>3, <1>4
<1>6. k - 1 < PowerOfTwo[k - 1]
  BY <1>5
<1>7. PowerOfTwo[k] = 2 * PowerOfTwo[k - 1] /\ PowerOfTwo[k - 1] \in Nat
  BY <1>5, PowersOfTwo
<1> QED
  BY <1>3, <1>5, <1>6, <1>7

(* What bs_builder_reserve asks for is always more than it was asked for.  *)
LEMMA ReservedExceeds ==
  ASSUME NEW n \in Nat
  PROVE  PowerOfTwo[log2i(n)] \in Nat /\ n < PowerOfTwo[log2i(n)]
<1> DEFINE enough == {bits \in 0 .. n : n < PowerOfTwo[bits]}
<1>1. PICK bits \in enough : \A b \in enough : bits <= b
  <2>1. enough \subseteq Nat
    OBVIOUS
  <2>2. n \in enough
    BY PowerExceeds
  <2> QED
    BY <2>1, <2>2, Least
<1>2. ASSUME NEW b \in 0 .. bits - 1 PROVE PowerOfTwo[b] <= n
  <2>1. b \in 0 .. n /\ b \notin enough /\ PowerOfTwo[b] \in Nat
    BY <1>1, PowersOfTwo
  <2> QED
    BY <2>1
<1>3. log2i(n) \in 0 .. n /\ n < PowerOfTwo[log2i(n)]
  BY <1>1, <1>2 DEF log2i
<1> QED
  BY <1>3, PowersOfTwo

-------------------------------------------------------------------------------
(* The builder.                                                            *)

BuilderOf(P) ==
  [len : Nat, capacity : Nat, alloc : Nat,
   pieces : Seq(P), cut : SUBSET P, overrun : BOOLEAN]

(* The string ends within what the capacity claims.                        *)
Fits(b) == b.len <= b.capacity

(* The capacity claims no more than there is, and nothing lies beyond it.  *)
Owned(b) == b.capacity <= b.alloc /\ ~b.overrun

(* A result of a call that stores a piece of n bytes, or nothing.          *)
Adds(b, piece, n, r) ==
  /\ r.ok \in BOOLEAN
  /\ r.b.pieces = IF r.ok THEN Append(b.pieces, piece) ELSE b.pieces
  /\ r.b.len = IF r.ok THEN b.len + n ELSE b.len
  /\ ~r.ok => r.b.overrun = b.overrun

(* What bs_builder_append_sv leaves.  A builder that has to ask for more   *)
(* is safe afterwards even if an earlier request failed.                   *)
Appends(P, b, piece, n, r) ==
  /\ Adds(b, piece, n, r)
  /\ r.b \in BuilderOf(P)
  /\ Fits(r.b)
  /\ r.b.cut = b.cut
  /\ /\ r.ok /\ ~b.overrun
     /\ Owned(b) \/ ~bs_builder_has_enough_capacity(b, n)
     => Owned(r.b)

(* What bs_builder_vsprintf leaves: the piece may lose its last byte,      *)
(* unless there was too little room and more was asked for.                *)
Prints(P, b, piece, n, r) ==
  /\ Adds(b, piece, n, r)
  /\ r.b \in BuilderOf(P)
  /\ Fits(r.b)
  /\ r.b.cut = b.cut \/ (r.b.cut = b.cut \cup {piece} /\ b.capacity >= b.len + n)
  /\ r.ok /\ Owned(b) => Owned(r.b)

LEMMA Reserves ==
  ASSUME NEW P, NEW b \in BuilderOf(P), NEW n \in Nat,
         NEW r \in bs_builder_reserve(b, n)
  PROVE  \E m \in Nat : /\ n < m
                        /\ \/ r = Ok([b EXCEPT !.capacity = m, !.alloc = m])
                           \/ r = OutOfMemory([b EXCEPT !.capacity = m])
<1> DEFINE m == PowerOfTwo[log2i(n)]
<1>1. m \in Nat /\ n < m
  BY ReservedExceeds
<1>2. r = Ok([b EXCEPT !.capacity = m, !.alloc = m])
      \/ r = OutOfMemory([b EXCEPT !.capacity = m])
  BY DEF bs_builder_reserve, bs_builder_reserve_exact
<1> HIDE DEF m
<1> QED
  BY <1>1, <1>2

(* A piece stored where there is room for it.                              *)
LEMMA PieceAdds ==
  ASSUME NEW P, NEW b \in BuilderOf(P), NEW piece \in P, NEW n \in Nat, NEW stored \in Nat,
         b.len + n <= b.capacity
  PROVE  LET c == AppendPiece(b, piece, n, stored)
         IN  /\ c \in BuilderOf(P)
             /\ c.pieces = Append(b.pieces, piece)
             /\ c.len = b.len + n
             /\ Fits(c)
             /\ c.cut = b.cut
             /\ b.len + stored <= b.capacity /\ Owned(b) => Owned(c)
<1> DEFINE c == AppendPiece(b, piece, n, stored)
<1>1. b.len \in Nat /\ b.capacity \in Nat /\ b.alloc \in Nat /\ b.pieces \in Seq(P)
      /\ b.cut \in SUBSET P /\ b.overrun \in BOOLEAN
  BY DEF BuilderOf
<1>2. PICK over \in BOOLEAN :
           /\ over = (b.overrun \/ (stored > 0 /\ b.len + stored > b.alloc))
           /\ c = [b EXCEPT !.len = b.len + n, !.pieces = Append(b.pieces, piece),
                            !.overrun = over]
  BY DEF AppendPiece
<1> HIDE DEF c
<1>3. Append(b.pieces, piece) \in Seq(P) /\ b.len + n \in Nat
  BY <1>1
<1>4. c \in BuilderOf(P) /\ c.pieces = Append(b.pieces, piece) /\ c.len = b.len + n
      /\ c.cut = b.cut /\ c.capacity = b.capacity /\ c.alloc = b.alloc /\ c.overrun = over
  BY <1>1, <1>2, <1>3 DEF BuilderOf
<1>5. Fits(c)
  BY <1>4 DEF Fits
<1>6. ASSUME b.len + stored <= b.capacity, Owned(b) PROVE Owned(c)
  <2>1. b.capacity <= b.alloc /\ ~b.overrun
    BY <1>6 DEF Owned
  <2>2. ~(b.len + stored > b.alloc)
    BY <1>1, <1>6, <2>1
  <2> QED
    BY <1>2, <1>4, <2>1, <2>2 DEF Owned
<1> QED
  BY <1>4, <1>5, <1>6 DEF c

(* bs_builder_append_sv and bs_builder_append_cstr.                        *)
LEMMA AppendAdds ==
  ASSUME NEW P, NEW b \in BuilderOf(P), Fits(b), NEW piece \in P, NEW n \in Nat,
         NEW r \in bs_builder_append_sv(b, piece, n)
  PROVE  Appends(P, b, piece, n, r)
<1>1. b.len \in Nat /\ b.capacity \in Nat /\ b.len <= b.capacity
  BY DEF BuilderOf, Fits
<1>2. CASE bs_builder_has_enough_capacity(b, n)
  <2>1. r = Ok(AppendPiece(b, piece, n, n))
    <3>1. r = IF Ok(b).ok THEN Ok(AppendPiece(Ok(b).b, piece, n, n)) ELSE Ok(b)
      BY <1>2 DEF bs_builder_append_sv
    <3>2. Ok(b).ok = TRUE /\ Ok(b).b = b
      BY DEF Ok
    <3> QED
      BY <3>1, <3>2
  <2>2. r.ok = TRUE /\ r.b = AppendPiece(b, piece, n, n)
    BY <2>1 DEF Ok
  <2>3. b.len + n <= b.capacity
    BY <1>1, <1>2 DEF bs_builder_has_enough_capacity
  <2>4. /\ r.b \in BuilderOf(P) /\ r.b.pieces = Append(b.pieces, piece)
        /\ r.b.len = b.len + n /\ Fits(r.b) /\ r.b.cut = b.cut
        /\ b.len + n <= b.capacity /\ Owned(b) => Owned(r.b)
    BY <2>2, <2>3, PieceAdds
  <2> QED
    BY <1>2, <2>2, <2>3, <2>4 DEF Adds, Appends
<1>3. CASE ~bs_builder_has_enough_capacity(b, n)
  <2>1. PICK q \in bs_builder_reserve(b, b.capacity + n) :
               r = IF q.ok THEN Ok(AppendPiece(q.b, piece, n, n)) ELSE q
    BY <1>3 DEF bs_builder_append_sv
  <2>2. PICK m \in Nat : /\ b.capacity + n < m
                         /\ \/ q = Ok([b EXCEPT !.capacity = m, !.alloc = m])
                            \/ q = OutOfMemory([b EXCEPT !.capacity = m])
    <3> DEFINE k == b.capacity + n
    <3>1. k \in Nat
      BY <1>1
    <3> HIDE DEF k
    <3>2. ASSUME NEW p \in bs_builder_reserve(b, k)
          PROVE  \E m \in Nat : /\ k < m
                              /\ \/ p = Ok([b EXCEPT !.capacity = m, !.alloc = m])
                                 \/ p = OutOfMemory([b EXCEPT !.capacity = m])
      BY <3>1, Reserves
    <3> QED
      BY <2>1, <3>2 DEF k
  <2>3. CASE q = Ok([b EXCEPT !.capacity = m, !.alloc = m])
    <3> DEFINE d == [b EXCEPT !.capacity = m, !.alloc = m]
    <3>1. d \in BuilderOf(P) /\ d.capacity = m /\ d.alloc = m /\ d.len = b.len
          /\ d.pieces = b.pieces /\ d.cut = b.cut /\ d.overrun = b.overrun
      BY DEF BuilderOf
    <3>2. q.ok = TRUE /\ q.b = d
      BY <2>3 DEF Ok
    <3> HIDE DEF d
    <3>3. r.ok = TRUE /\ r.b = AppendPiece(d, piece, n, n)
      BY <2>1, <3>2 DEF Ok
    <3>4. d.len + n <= d.capacity
      BY <1>1, <2>2, <3>1
    <3>5. ~b.overrun => Owned(d)
      BY <3>1 DEF Owned
    <3>6. /\ r.b \in BuilderOf(P) /\ r.b.pieces = Append(d.pieces, piece)
          /\ r.b.len = d.len + n /\ Fits(r.b) /\ r.b.cut = d.cut
          /\ d.len + n <= d.capacity /\ Owned(d) => Owned(r.b)
      BY <3>1, <3>3, <3>4, PieceAdds
    <3> QED
      BY <3>1, <3>3, <3>4, <3>5, <3>6 DEF Adds, Appends
  <2>4. CASE q = OutOfMemory([b EXCEPT !.capacity = m])
    <3> DEFINE d == [b EXCEPT !.capacity = m]
    <3>1. d \in BuilderOf(P) /\ d.capacity = m /\ d.len = b.len
          /\ d.pieces = b.pieces /\ d.cut = b.cut /\ d.overrun = b.overrun
      BY DEF BuilderOf
    <3>2. r.ok = FALSE /\ r.b = d
      BY <2>1, <2>4 DEF OutOfMemory
    <3> HIDE DEF d
    <3>3. Fits(d)
      BY <1>1, <2>2, <3>1 DEF Fits
    <3> QED
      BY <3>1, <3>2, <3>3 DEF Adds, Appends
  <2> QED
    BY <2>2, <2>3, <2>4
<1> QED
  BY <1>2, <1>3

LEMMA SprintfAdds ==
  ASSUME NEW P, NEW b \in BuilderOf(P), Fits(b), NEW piece \in P, NEW n \in Nat,
         NEW r \in bs_builder_vsprintf(b, piece, n)
  PROVE  Prints(P, b, piece, n, r)
<1>1. b.len \in Nat /\ b.capacity \in Nat /\ b.len <= b.capacity
  BY DEF BuilderOf, Fits
<1>2. ASSUME NEW d \in BuilderOf(P), d.len + n <= d.capacity
      PROVE  LET c == Formatted(d, piece, n)
             IN  /\ c \in BuilderOf(P)
                 /\ c.pieces = Append(d.pieces, piece)
                 /\ c.len = d.len + n
                 /\ Fits(c)
                 /\ c.cut = d.cut \/ (c.cut = d.cut \cup {piece} /\ d.capacity - d.len <= n)
                 /\ Owned(d) => Owned(c)
  <2> DEFINE stored == MIN(n + 1, d.capacity - d.len)
             p == AppendPiece(d, piece, n, stored)
             c == Formatted(d, piece, n)
  <2>1. d.len \in Nat /\ d.capacity \in Nat
    BY DEF BuilderOf
  <2>2. stored \in Nat /\ d.len + stored <= d.capacity
    BY <1>2, <2>1 DEF MIN
  <2>3. /\ p \in BuilderOf(P) /\ p.pieces = Append(d.pieces, piece)
        /\ p.len = d.len + n /\ Fits(p) /\ p.cut = d.cut /\ (Owned(d) => Owned(p))
    <3> HIDE DEF stored
    <3> QED
      BY <1>2, <2>2, PieceAdds
  <2>4. c = [p EXCEPT !.cut = IF 0 < n /\ d.capacity - d.len <= n
                              THEN p.cut \cup {piece} ELSE p.cut]
    BY DEF Formatted
  <2> HIDE DEF p, c
  <2>5. PICK u \in SUBSET P :
             /\ c = [p EXCEPT !.cut = u]
             /\ u = p.cut \/ (u = p.cut \cup {piece} /\ d.capacity - d.len <= n)
    BY <2>3, <2>4 DEF BuilderOf
  <2>6. /\ c \in BuilderOf(P) /\ c.pieces = p.pieces /\ c.len = p.len /\ c.cut = u
        /\ c.capacity = p.capacity /\ c.alloc = p.alloc /\ c.overrun = p.overrun
    BY <2>3, <2>5 DEF BuilderOf
  <2>7. Fits(c) /\ (Owned(p) => Owned(c))
    BY <2>3, <2>6 DEF Fits, Owned
  <2> QED
    BY <2>3, <2>5, <2>6, <2>7 DEF c
<1>3. CASE b.capacity >= b.len + n
  <2>1. r = Ok(Formatted(b, piece, n))
    <3>1. r = IF Ok(b).ok THEN Ok(Formatted(Ok(b).b, piece, n)) ELSE Ok(b)
      BY <1>3 DEF bs_builder_vsprintf
    <3>2. Ok(b).ok = TRUE /\ Ok(b).b = b
      BY DEF Ok
    <3> QED
      BY <3>1, <3>2
  <2>2. r.ok = TRUE /\ r.b = Formatted(b, piece, n)
    BY <2>1 DEF Ok
  <2>3. b.len + n <= b.capacity
    BY <1>1, <1>3
  <2> QED
    BY <1>2, <1>3, <2>2, <2>3 DEF Adds, Prints
<1>4. CASE ~(b.capacity >= b.len + n)
  <2>1. PICK q \in bs_builder_reserve(b, b.len + n) :
               r = IF q.ok THEN Ok(Formatted(q.b, piece, n)) ELSE q
    BY <1>4 DEF bs_builder_vsprintf
  <2>2. PICK m \in Nat : /\ b.len + n < m
                         /\ \/ q = Ok([b EXCEPT !.capacity = m, !.alloc = m])
                            \/ q = OutOfMemory([b EXCEPT !.capacity = m])
    <3> DEFINE k == b.len + n
    <3>1. k \in Nat
      BY <1>1
    <3> HIDE DEF k
    <3>2. ASSUME NEW p \in bs_builder_reserve(b, k)
          PROVE  \E m \in Nat : /\ k < m
                              /\ \/ p = Ok([b EXCEPT !.capacity = m, !.alloc = m])
                                 \/ p = OutOfMemory([b EXCEPT !.capacity = m])
      BY <3>1, Reserves
    <3> QED
      BY <2>1, <3>2 DEF k
  <2>3. CASE q = Ok([b EXCEPT !.capacity = m, !.alloc = m])
    <3> DEFINE d == [b EXCEPT !.capacity = m, !.alloc = m]
    <3>1. d \in BuilderOf(P) /\ d.capacity = m /\ d.alloc = m /\ d.len = b.len
          /\ d.pieces = b.pieces /\ d.cut = b.cut /\ d.overrun = b.overrun
      BY DEF BuilderOf
    <3>2. q.ok = TRUE /\ q.b = d
      BY <2>3 DEF Ok
    <3> HIDE DEF d
    <3>3. r.ok = TRUE /\ r.b = Formatted(d, piece, n)
      BY <2>1, <3>2 DEF Ok
    <3>4. d.len + n <= d.capacity /\ ~(d.capacity - d.len <= n)
      BY <1>1, <2>2, <3>1
    <3>5. Owned(b) => Owned(d)
      BY <3>1 DEF Owned
    <3> QED
      BY <1>2, <3>1, <3>3, <3>4, <3>5 DEF Adds, Prints
  <2>4. CASE q = OutOfMemory([b EXCEPT !.capacity = m])
    <3> DEFINE d == [b EXCEPT !.capacity = m]
    <3>1. d \in BuilderOf(P) /\ d.capacity = m /\ d.len = b.len
          /\ d.pieces = b.pieces /\ d.cut = b.cut /\ d.overrun = b.overrun
      BY DEF BuilderOf
    <3>2. r.ok = FALSE /\ r.b = d
      BY <2>1, <2>4 DEF OutOfMemory
    <3> HIDE DEF d
    <3>3. Fits(d)
      BY <1>1, <2>2, <3>1 DEF Fits
    <3> QED
      BY <3>1, <3>2, <3>3 DEF Adds, Prints
  <2> QED
    BY <2>2, <2>3, <2>4
<1> QED
  BY <1>3, <1>4

-------------------------------------------------------------------------------
(* The array.                                                              *)

ArrayOf(H) == [items : Seq(H), capacity : Nat, alloc : Nat, overrun : BOOLEAN]

(* The elements lie within what the capacity claims and there is.          *)
Holds(xs) == Len(xs.items) <= xs.capacity /\ xs.alloc <= xs.capacity /\ ~xs.overrun

(* What da_append leaves: after a failure the capacity claims more than    *)
(* there is.                                                               *)
Extends(H, xs, x, r) ==
  /\ r.ok \in BOOLEAN
  /\ r.xs \in ArrayOf(H)
  /\ Holds(r.xs)
  /\ r.xs.items = IF r.ok THEN Append(xs.items, x) ELSE xs.items
  /\ r.ok => r.xs.alloc = r.xs.capacity

LEMMA ArrayAppends ==
  ASSUME NEW H, NEW xs \in ArrayOf(H), NEW x \in H,
         Holds(xs), xs.alloc = xs.capacity,
         NEW r \in da_append(xs, x)
  PROVE  Extends(H, xs, x, r)
<1> DEFINE m == IF xs.capacity = 0 THEN 8 ELSE 2 * xs.capacity
           grown == [xs EXCEPT !.capacity = m]
<1>1. /\ xs.items \in Seq(H) /\ xs.capacity \in Nat /\ xs.alloc \in Nat
      /\ xs.overrun \in BOOLEAN /\ Len(xs.items) \in Nat
  BY DEF ArrayOf
<1>2. m \in Nat /\ xs.capacity < m
  BY <1>1
<1>3. ASSUME NEW a \in ArrayOf(H), a.items = xs.items, Len(xs.items) < a.alloc,
             a.alloc = a.capacity, a.overrun = FALSE
      PROVE  LET s == Stored(a, x)
             IN  /\ s \in ArrayOf(H) /\ Holds(s) /\ s.items = Append(xs.items, x)
                 /\ s.alloc = s.capacity
  <2> DEFINE s == Stored(a, x)
  <2>1. a.capacity \in Nat /\ a.alloc \in Nat
    BY DEF ArrayOf
  <2>2. ~(Len(a.items) >= a.alloc)
    BY <1>1, <1>3, <2>1
  <2>3. s = [a EXCEPT !.items = Append(xs.items, x), !.overrun = FALSE]
    BY <1>3, <2>2 DEF Stored
  <2>4. Append(xs.items, x) \in Seq(H) /\ Len(Append(xs.items, x)) = Len(xs.items) + 1
    BY <1>1
  <2> HIDE DEF s
  <2>5. /\ s \in ArrayOf(H) /\ s.items = Append(xs.items, x) /\ s.overrun = FALSE
        /\ s.alloc = a.alloc /\ s.capacity = a.capacity
    BY <2>3, <2>4 DEF ArrayOf
  <2>6. Len(s.items) <= s.capacity
    BY <1>1, <1>3, <2>1, <2>4, <2>5
  <2> QED
    BY <1>3, <2>1, <2>5, <2>6 DEF Holds, s
<1>4. /\ grown \in ArrayOf(H) /\ grown.items = xs.items /\ grown.capacity = m
      /\ grown.alloc = xs.alloc /\ grown.overrun = xs.overrun
  BY <1>2 DEF ArrayOf
<1>5. \/ Len(xs.items) < xs.capacity /\ r = [ok |-> TRUE, xs |-> Stored(xs, x)]
      \/ /\ ~(Len(xs.items) < xs.capacity)
         /\ \/ r = [ok |-> TRUE, xs |-> Stored([grown EXCEPT !.alloc = grown.capacity], x)]
            \/ r = [ok |-> FALSE, xs |-> grown]
  BY DEF da_append
<1> HIDE DEF m, grown
<1>6. CASE Len(xs.items) < xs.capacity /\ r = [ok |-> TRUE, xs |-> Stored(xs, x)]
  <2>1. xs.overrun = FALSE
    BY <1>1 DEF Holds
  <2> QED
    BY <1>3, <1>6, <2>1 DEF Extends
<1>7. CASE r = [ok |-> TRUE, xs |-> Stored([grown EXCEPT !.alloc = grown.capacity], x)]
  <2> DEFINE a == [grown EXCEPT !.alloc = grown.capacity]
  <2>1. a \in ArrayOf(H) /\ a.items = xs.items /\ a.alloc = m /\ a.capacity = m
        /\ a.overrun = xs.overrun
    BY <1>2, <1>4 DEF ArrayOf
  <2> HIDE DEF a
  <2>2. Len(xs.items) < m
    BY <1>1, <1>2 DEF Holds
  <2>3. a.overrun = FALSE
    BY <1>1, <2>1 DEF Holds
  <2>4. LET s == Stored(a, x)
        IN  /\ s \in ArrayOf(H) /\ Holds(s) /\ s.items = Append(xs.items, x)
            /\ s.alloc = s.capacity
    BY <1>3, <2>1, <2>2, <2>3
  <2>5. r = [ok |-> TRUE, xs |-> Stored(a, x)]
    BY <1>7 DEF a
  <2> QED
    BY <2>4, <2>5 DEF Extends
<1>8. CASE r = [ok |-> FALSE, xs |-> grown]
  <2>1. Len(grown.items) <= grown.capacity /\ grown.alloc <= grown.capacity
        /\ ~grown.overrun
    BY <1>1, <1>2, <1>4 DEF Holds
  <2> QED
    BY <1>4, <1>8, <2>1 DEF Extends, Holds
<1> QED
  BY <1>5, <1>6, <1>7, <1>8

-------------------------------------------------------------------------------
(* Parts of a view.                                                        *)

LEMMA PartOf ==
  ASSUME NEW T, NEW str \in Seq(T), NEW a \in Nat, NEW b \in Nat, a <= b, b <= Len(str)
  PROVE  /\ SubSeq(str, a + 1, b) \in Seq(T)
         /\ Len(SubSeq(str, a + 1, b)) = b - a
         /\ \A k \in 1 .. b - a : SubSeq(str, a + 1, b)[k] = str[a + k]
OBVIOUS

LEMMA SameView ==
  ASSUME NEW T, NEW s \in Seq(T), NEW t \in Seq(T), Len(s) = Len(t),
         \A k \in 1 .. Len(s) : s[k] = t[k]
  PROVE  s = t
OBVIOUS

(* The first occurrence of a character.                                    *)
LEMMA CharAt ==
  ASSUME NEW T, NEW str \in Seq(T), NEW needle
  PROVE  \/ /\ bs_char_at(str, needle) = -1
            /\ \A k \in 1 .. Len(str) : str[k] # needle
         \/ \E i \in 0 .. Len(str) - 1 :
              /\ bs_char_at(str, needle) = i
              /\ str[i + 1] = needle
              /\ \A k \in 1 .. i : str[k] # needle
<1> DEFINE found == {i \in 0 .. Len(str) - 1 : str[i + 1] = needle}
<1>1. Len(str) \in Nat
  OBVIOUS
<1>2. CASE found = {}
  <2>1. ASSUME NEW k \in 1 .. Len(str), str[k] = needle PROVE FALSE
    <3>1. k - 1 \in 0 .. Len(str) - 1 /\ (k - 1) + 1 = k
      BY <1>1
    <3>2. k - 1 \in found
      BY <2>1, <3>1
    <3> QED
      BY <1>2, <3>2
  <2> QED
    BY <1>2, <2>1 DEF bs_char_at
<1>3. CASE found # {}
  <2>1. \E i \in found : \A j \in found : i <= j
    <3>1. found \subseteq Nat
      OBVIOUS
    <3> HIDE DEF found
    <3> QED
      BY <1>3, <3>1, Least
  <2>2. PICK i : /\ i = bs_char_at(str, needle)
                 /\ i \in found
                 /\ \A j \in found : i <= j
    BY <1>3, <2>1 DEF bs_char_at
  <2>3. ASSUME NEW k \in 1 .. i, str[k] = needle PROVE FALSE
    <3>1. k - 1 \in 0 .. Len(str) - 1 /\ (k - 1) + 1 = k
      BY <1>1, <2>2
    <3>2. k - 1 \in found
      BY <2>3, <3>1
    <3>3. i <= k - 1
      <4> HIDE DEF found
      <4> QED
        BY <2>2, <3>2
    <3>4. i \in Nat /\ k \in 1 .. i
      BY <1>1, <2>2
    <3> QED
      BY <3>3, <3>4
  <2> QED
    BY <2>2, <2>3
<1> QED
  BY <1>2, <1>3
===============================================================================
