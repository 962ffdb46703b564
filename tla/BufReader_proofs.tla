---------------------------- MODULE BufReader_proofs ----------------------------
(***************************************************************************)
(* Proofs about the buffered reader, for any number of readers, any array  *)
(* size, any delimiter and any pieces in which the network delivers the    *)
(* stream.                                                                 *)
(*                                                                         *)
(* StreamIntegrity compares sequences; the invariant that is inductive     *)
(* says the same byte by byte, adds how the three counters fit together,   *)
(* and needs every reader to own its array.                                *)
(***************************************************************************)
EXTENDS BufReader, SequenceTheorems, TLAPS

(* No two readers were initialised with the same array.                    *)
OwnBuffers == \A r, q \in Reader : BufferOf[r] = BufferOf[q] => r = q

(* The l slots of m continue what the caller of r was handed.              *)
Continues(r, m, l) ==
  /\ Len(out[r]) + l <= Len(sent[r])
  /\ \A i \in 1 .. l : m[i] = sent[r][Len(out[r]) + i]

ReaderIntegrity(r) ==
  /\ rcvd[r] = Len(out[r]) + len[r]
  /\ \A i \in 1 .. Len(out[r]) : out[r][i] = sent[r][i]
  /\ Continues(r, mem[BufferOf[r]], len[r])

IInv == TypeOK /\ \A r \in Reader : ReaderIntegrity(r)

Contents == [Slot -> Byte \cup {Nul}]

-------------------------------------------------------------------------------
(* What the operations on arrays return.                                   *)

LEMMA AdvanceType ==
  ASSUME NEW m \in Contents, NEW l \in 0 .. Capacity, NEW by \in 0 .. l
  PROVE  Buf__advance(m, l, by) \in Contents
  BY CapacityAssumption DEF Buf__advance, Contents, Slot

LEMMA AdvanceShifts ==
  ASSUME NEW m \in Contents, NEW l \in 0 .. Capacity, NEW by \in 0 .. l,
         NEW i \in 1 .. l - by
  PROVE  Buf__advance(m, l, by)[i] = m[i + by]
  BY CapacityAssumption DEF Buf__advance, Contents, Slot

LEMMA CopyType ==
  ASSUME NEW m \in Contents, NEW l \in 0 .. Capacity, NEW n \in Nat
  PROVE  /\ Buf_copy_raw(m, l, n) \in Seq(Byte \cup {Nul})
         /\ Len(Buf_copy_raw(m, l, n)) = MIN(n, l)
         /\ \A i \in 1 .. MIN(n, l) : Buf_copy_raw(m, l, n)[i] = m[i]
         /\ MIN(n, l) \in 0 .. l
<1>1. MIN(n, l) \in 0 .. l
  BY CapacityAssumption DEF MIN
<1>2. \A i \in 1 .. MIN(n, l) : m[i] \in Byte \cup {Nul}
  BY <1>1, CapacityAssumption DEF Contents, Slot
<1>3. QED
  BY <1>1, <1>2 DEF Buf_copy_raw

(* A fill leaves a well-formed array that continues the caller's stream.   *)
LEMMA FillType ==
  ASSUME TypeOK, NEW r \in Reader, NEW k, CanFill(r, k)
  PROVE  /\ k \in Nat \ {0}
         /\ len[r] + k \in 1 .. Capacity
         /\ rcvd[r] + k <= Len(sent[r])
         /\ Filled(r, k) \in Contents
<1>1. /\ len[r] \in 0 .. Capacity
      /\ rcvd[r] \in Nat
      /\ sent[r] \in Seq(Byte) /\ Len(sent[r]) \in Nat
      /\ mem[BufferOf[r]] \in Contents
  BY BufferAssumption DEF TypeOK, Contents
<1>2. /\ k \in Nat \ {0}
      /\ len[r] + k \in 1 .. Capacity
      /\ rcvd[r] + k <= Len(sent[r])
  <2>1. /\ Room(r) \in Int
        /\ Pending(r) \in Int
    BY <1>1, CapacityAssumption DEF Room, Pending
  <2>2. k \in 1 .. Room(r) /\ k \in 1 .. Pending(r)
    BY <2>1 DEF CanFill, MIN
  <2>3. QED
    BY <1>1, <2>2, CapacityAssumption DEF Room, Pending
<1>3. ASSUME NEW i \in Slot, i \in len[r] + 1 .. len[r] + k
      PROVE  sent[r][rcvd[r] + i - len[r]] \in Byte
  <2>1. rcvd[r] + i - len[r] \in 1 .. Len(sent[r])
    <3>1. i \in Int /\ len[r] \in Int /\ rcvd[r] \in Int
      BY <1>1, CapacityAssumption DEF Slot
    <3>2. len[r] + 1 <= i /\ i <= len[r] + k
      BY <1>2, <1>3, <3>1
    <3>3. rcvd[r] >= 0 /\ k \in Int /\ Len(sent[r]) \in Int
      BY <1>1, <1>2
    <3>4. rcvd[r] + i - len[r] \in Int /\ 1 <= rcvd[r] + i - len[r]
      BY <3>1, <3>2, <3>3
    <3>5. rcvd[r] + i - len[r] <= Len(sent[r])
      BY <1>2, <3>1, <3>2, <3>3, SMTT(40)
    <3>6. QED
      BY <3>3, <3>4, <3>5
  <2>2. QED
    BY <2>1, <1>1
<1>4. \A i \in Slot : mem[BufferOf[r]][i] \in Byte \cup {Nul}
  BY <1>1 DEF Contents
<1>5. QED
  BY <1>2, <1>3, <1>4 DEF Filled, Contents

LEMMA FillContinues ==
  ASSUME TypeOK, NEW r \in Reader, ReaderIntegrity(r), NEW k, CanFill(r, k)
  PROVE  Continues(r, Filled(r, k), len[r] + k)
<1>1. /\ len[r] \in 0 .. Capacity
      /\ rcvd[r] \in Nat
      /\ Len(sent[r]) \in Nat
      /\ Len(out[r]) \in Nat
  BY DEF TypeOK
<1>2. /\ k \in Nat \ {0}
      /\ len[r] + k \in 1 .. Capacity
      /\ rcvd[r] + k <= Len(sent[r])
  BY FillType
<1>3. ASSUME NEW i \in 1 .. len[r] + k
      PROVE  Filled(r, k)[i] = sent[r][Len(out[r]) + i]
  <2>1. i \in Slot
    BY <1>1, <1>2, CapacityAssumption DEF Slot
  <2>2. CASE i <= len[r]
    <3>1. Filled(r, k)[i] = mem[BufferOf[r]][i]
      BY <1>1, <1>2, <2>1, <2>2 DEF Filled
    <3>2. QED
      BY <1>1, <2>2, <3>1 DEF ReaderIntegrity, Continues
  <2>3. CASE i > len[r]
    <3>1. Filled(r, k)[i] = sent[r][rcvd[r] + i - len[r]]
      BY <1>1, <1>2, <2>1, <2>3 DEF Filled
    <3>2. rcvd[r] + i - len[r] = Len(out[r]) + i
      BY <1>1 DEF ReaderIntegrity
    <3>3. QED
      BY <3>1, <3>2
  <2>4. QED
    BY <1>1, <2>2, <2>3
<1>4. Len(out[r]) + (len[r] + k) <= Len(sent[r])
  BY <1>1, <1>2 DEF ReaderIntegrity
<1>5. QED
  BY <1>3, <1>4 DEF Continues

-------------------------------------------------------------------------------
(* The two ways a call leaves the array: it keeps the bytes of a fill, or  *)
(* hands out the first of them.                                            *)

LEMMA KeepOK ==
  ASSUME TypeOK, NEW r \in Reader,
         NEW m \in Contents, NEW l \in 0 .. Capacity,
         Keep(r, m, l)
  PROVE  /\ mem' \in [Buffer -> Contents]
         /\ len' \in [Reader -> 0 .. Capacity]
         /\ mem'[BufferOf[r]] = m /\ len'[r] = l
  BY BufferAssumption DEF Keep, TypeOK, Contents

LEMMA HandOutOK ==
  ASSUME TypeOK, NEW r \in Reader, NEW call \in {"read", "until"},
         NEW m \in Contents, NEW l \in 0 .. Capacity, NEW n \in Nat,
         HandOut(r, call, m, l, n)
  PROVE  /\ mem' \in [Buffer -> Contents]
         /\ len' \in [Reader -> 0 .. Capacity]
         /\ out' \in [Reader -> Seq(Byte \cup {Nul})]
         /\ last' \in [Reader -> [call : {"none", "read", "until"}, ret : Int]]
         /\ len'[r] = l - MIN(n, l)
         /\ mem'[BufferOf[r]] = Buf__advance(m, l, MIN(n, l))
         /\ out'[r] = out[r] \o Buf_copy_raw(m, l, n)
<1>1. MIN(n, l) \in 0 .. l /\ Buf_copy_raw(m, l, n) \in Seq(Byte \cup {Nul})
  BY CopyType
<1>2. Buf__advance(m, l, MIN(n, l)) \in Contents
  BY <1>1, AdvanceType
<1>3. l - MIN(n, l) \in 0 .. Capacity
  BY <1>1, CapacityAssumption
<1>4. out[r] \o Buf_copy_raw(m, l, n) \in Seq(Byte \cup {Nul})
  BY <1>1 DEF TypeOK
<1>5. MIN(n, l) \in Int
  BY <1>1
<1>6. BufferOf[r] \in Buffer
  BY BufferAssumption
<1>7. QED
  BY <1>2, <1>3, <1>4, <1>5, <1>6 DEF HandOut, Return, TypeOK, Contents

(* Handing out keeps the reader's integrity: what was left in the array    *)
(* continues the longer output.                                            *)
LEMMA HandOutIntegrity ==
  ASSUME TypeOK, NEW r \in Reader, NEW call \in {"read", "until"},
         NEW m \in Contents, NEW l \in 0 .. Capacity, NEW n \in Nat,
         HandOut(r, call, m, l, n),
         ReaderIntegrity(r), Continues(r, m, l),
         sent' = sent, rcvd' \in [Reader -> Nat], rcvd'[r] = Len(out[r]) + l
  PROVE  ReaderIntegrity(r)'
<1> DEFINE c == MIN(n, l)
           bytes == Buf_copy_raw(m, l, n)
<1>1. /\ c \in 0 .. l
      /\ bytes \in Seq(Byte \cup {Nul})
      /\ Len(bytes) = c
      /\ \A i \in 1 .. c : bytes[i] = m[i]
  BY CopyType
<1>2. /\ len'[r] = l - c
      /\ mem'[BufferOf[r]] = Buf__advance(m, l, c)
      /\ out'[r] = out[r] \o bytes
  BY HandOutOK
<1> HIDE DEF c, bytes
<1>3. out[r] \in Seq(Byte \cup {Nul}) /\ Len(out[r]) \in Nat
  BY DEF TypeOK
<1>4. Len(out'[r]) = Len(out[r]) + c
  <2>1. Len(out[r] \o bytes) = Len(out[r]) + Len(bytes)
    BY <1>1, <1>3, ConcatProperties
  <2>2. QED
    BY <1>1, <1>2, <2>1
<1>5. rcvd'[r] = Len(out'[r]) + len'[r]
  <2>1. l \in Int /\ c \in Int /\ Len(out[r]) \in Int
    BY <1>1, <1>3
  <2>2. QED
    BY <1>2, <1>4, <2>1
<1>6. ASSUME NEW i \in 1 .. Len(out'[r])
      PROVE  out'[r][i] = sent'[r][i]
  <2>1. CASE i <= Len(out[r])
    <3>1. out'[r][i] = out[r][i]
      BY <1>1, <1>2, <1>3, <2>1
    <3>2. QED
      BY <1>3, <2>1, <3>1 DEF ReaderIntegrity
  <2>2. CASE i > Len(out[r])
    <3>1. i - Len(out[r]) \in 1 .. c
      BY <1>1, <1>3, <1>4, <2>2
    <3>2. out'[r][i] = bytes[i - Len(out[r])]
      BY <1>1, <1>2, <1>3, <1>4, <2>2
    <3>3. m[i - Len(out[r])] = sent[r][Len(out[r]) + (i - Len(out[r]))]
      <4>1. i - Len(out[r]) \in 1 .. l
        BY <1>1, <3>1
      <4>2. \A j \in 1 .. l : m[j] = sent[r][Len(out[r]) + j]
        BY DEF Continues
      <4>3. QED
        BY <4>1, <4>2
    <3>4. Len(out[r]) + (i - Len(out[r])) = i
      BY <1>3
    <3>5. QED
      BY <1>1, <3>1, <3>2, <3>3, <3>4
  <2>3. QED
    BY <1>3, <1>4, <1>1, <2>1, <2>2
<1>7. ASSUME NEW i \in 1 .. len'[r]
      PROVE  mem'[BufferOf[r]][i] = sent'[r][Len(out'[r]) + i]
  <2>1. i \in 1 .. l - c
    BY <1>2
  <2>2. i + c \in 1 .. l
    BY <1>1, <2>1
  <2>3. mem'[BufferOf[r]][i] = m[i + c]
    BY <1>1, <1>2, <2>1, AdvanceShifts
  <2>4. m[i + c] = sent[r][Len(out[r]) + (i + c)]
    BY <2>2 DEF Continues
  <2>5. Len(out[r]) + (i + c) = Len(out'[r]) + i
    BY <1>1, <1>3, <1>4
  <2>6. QED
    BY <2>3, <2>4, <2>5
<1>8. Len(out'[r]) + len'[r] <= Len(sent'[r])
  <2>1. l \in Int /\ c \in Int /\ Len(out[r]) \in Int
    BY <1>1, <1>3
  <2>2. QED
    BY <1>2, <1>4, <2>1 DEF Continues
<1>9. QED
  BY <1>5, <1>6, <1>7, <1>8 DEF ReaderIntegrity, Continues

-------------------------------------------------------------------------------
(* What a call does to its reader: nothing, a fill, bytes handed out of    *)
(* the array, or bytes handed out of the array after a fill.               *)
NoEffect == UNCHANGED <<mem, len, rcvd, out>>

FillEffect(r) ==
  \E k \in 1 .. Capacity :
    /\ CanFill(r, k)
    /\ rcvd' = [rcvd EXCEPT ![r] = @ + k]
    /\ Keep(r, Filled(r, k), len[r] + k)
    /\ UNCHANGED out

HandOutEffect(r) ==
  /\ \E n \in Nat, call \in {"read", "until"} :
       HandOut(r, call, mem[BufferOf[r]], len[r], n)
  /\ UNCHANGED rcvd

FillAndHandOutEffect(r) ==
  \E k \in 1 .. Capacity :
    /\ CanFill(r, k)
    /\ rcvd' = [rcvd EXCEPT ![r] = @ + k]
    /\ \E n \in Nat, call \in {"read", "until"} :
         HandOut(r, call, Filled(r, k), len[r] + k, n)

CallEffect(r) ==
  \/ NoEffect
  \/ FillEffect(r)
  \/ HandOutEffect(r)
  \/ FillAndHandOutEffect(r)

LastType == [Reader -> [call : {"none", "read", "until"}, ret : Int]]

(* A returned code is recorded as such.                                    *)
LEMMA ReturnType ==
  ASSUME TypeOK, NEW r \in Reader, NEW call \in {"read", "until"},
         NEW ret \in Int, Return(r, call, ret)
  PROVE  last' \in LastType
  BY DEF TypeOK, Return, LastType

LEMMA ReadEffect ==
  ASSUME TypeOK, NEW r \in Reader, NEW n \in 0 .. MaxRead, BufReader_read(r, n)
  PROVE  /\ CallEffect(r)
         /\ UNCHANGED <<sent, peer>>
         /\ last' \in LastType
         /\ aborted' \in BOOLEAN
<1>1. n \in Nat /\ mem[BufferOf[r]] \in Contents /\ len[r] \in 0 .. Capacity
  BY LengthAssumption, BufferAssumption DEF TypeOK, Contents
<1>2. UNCHANGED <<sent, peer>>
  BY DEF BufReader_read
<1>3. CASE ReadBuffered(r, n)
  <2>1. HandOut(r, "read", mem[BufferOf[r]], len[r], n) /\ UNCHANGED <<rcvd, aborted>>
    BY <1>3 DEF ReadBuffered
  <2>2. HandOutEffect(r)
    BY <1>1, <2>1 DEF HandOutEffect
  <2>3. last' \in LastType
    BY <1>1, <2>1, HandOutOK DEF LastType
  <2>4. QED
    BY <1>2, <2>1, <2>2, <2>3 DEF CallEffect, TypeOK
<1>4. CASE ReadFilled(r, n)
  <2>1. PICK k \in 1 .. Capacity :
          /\ CanFill(r, k)
          /\ rcvd' = [rcvd EXCEPT ![r] = @ + k]
          /\ \/ /\ n = 0
                /\ Keep(r, Filled(r, k), len[r] + k)
                /\ Return(r, "read", k)
                /\ UNCHANGED out
             \/ /\ n > 0
                /\ HandOut(r, "read", Filled(r, k), len[r] + k, n)
    BY <1>4 DEF ReadFilled
  <2>2. Filled(r, k) \in Contents /\ len[r] + k \in 0 .. Capacity /\ k \in Int
    BY <2>1, FillType
  <2>3. CallEffect(r)
    BY <1>1, <2>1 DEF CallEffect, FillEffect, FillAndHandOutEffect
  <2>4. last' \in LastType
    <3>1. CASE Return(r, "read", k)
      BY <2>2, <3>1, ReturnType
    <3>2. CASE HandOut(r, "read", Filled(r, k), len[r] + k, n)
      BY <1>1, <2>2, <3>2, HandOutOK DEF LastType
    <3>3. QED
      BY <2>1, <3>1, <3>2
  <2>5. QED
    BY <1>2, <1>4, <2>3, <2>4 DEF ReadFilled, TypeOK
<1>5. CASE ReadFails(r, n)
  <2>1. PICK code \in {AGAIN, BUFIO_ERROR_BUFFER_FULL, BUFIO_ERROR_CONNECTION_CLOSED} :
          Return(r, "read", code)
    BY <1>5 DEF ReadFails
  <2>2. code \in Int
    BY DEF AGAIN, BUFIO_ERROR_BUFFER_FULL, BUFIO_ERROR_CONNECTION_CLOSED
  <2>3. last' \in LastType
    BY <2>1, <2>2, ReturnType
  <2>4. QED
    BY <1>2, <1>5, <2>3 DEF ReadFails, CallEffect, NoEffect, TypeOK
<1>6. CASE ReadAborts(r, n)
  BY <1>2, <1>6 DEF ReadAborts, readerVars, CallEffect, NoEffect, TypeOK, LastType
<1>7. QED
  BY <1>3, <1>4, <1>5, <1>6 DEF BufReader_read

(* The part of read_until after its second scan of an array m.             *)
LEMMA ScanEffect ==
  ASSUME TypeOK, NEW r \in Reader,
         NEW m \in Contents, NEW l \in 0 .. Capacity, UntilScan(r, m, l)
  PROVE  /\ \/ Keep(r, m, l) /\ UNCHANGED out
            \/ \E n \in Nat : HandOut(r, "until", m, l, n)
         /\ last' \in LastType
         /\ aborted' \in BOOLEAN
<1>1. Len(Until) \in Nat
  BY UntilAssumption
<1>2. CASE /\ Keep(r, m, l)
           /\ Return(r, "until", -1)
           /\ UNCHANGED <<out, aborted>>
  BY <1>2, ReturnType, SMTT(40) DEF TypeOK
<1>3. CASE \E idx \in 0 .. Capacity :
             /\ HandOut(r, "until", m, l, idx + Len(Until))
             /\ UNCHANGED aborted
  <2>1. PICK n \in Nat : HandOut(r, "until", m, l, n) /\ UNCHANGED aborted
    BY <1>1, <1>3
  <2>2. last' \in LastType
    BY <2>1, HandOutOK DEF LastType
  <2>3. QED
    BY <2>1, <2>2 DEF TypeOK
<1>4. CASE /\ aborted' = TRUE
           /\ Keep(r, m, l)
           /\ UNCHANGED <<out, last>>
  BY <1>4 DEF TypeOK, LastType
<1>5. QED
  BY <1>2, <1>3, <1>4 DEF UntilScan

LEMMA UntilEffect ==
  ASSUME TypeOK, NEW r \in Reader, BufReader_read_until(r)
  PROVE  /\ CallEffect(r)
         /\ UNCHANGED <<sent, peer>>
         /\ last' \in LastType
         /\ aborted' \in BOOLEAN
<1>1. mem[BufferOf[r]] \in Contents /\ len[r] \in 0 .. Capacity
  BY BufferAssumption DEF TypeOK, Contents
<1>2. UNCHANGED <<sent, peer>>
  BY DEF BufReader_read_until
<1>3. CASE UntilBuffered(r)
  <2>1. UntilScan(r, mem[BufferOf[r]], len[r]) /\ UNCHANGED rcvd
    BY <1>3 DEF UntilBuffered
  <2>2. /\ last' \in LastType
        /\ aborted' \in BOOLEAN
        /\ \/ Keep(r, mem[BufferOf[r]], len[r]) /\ UNCHANGED out
           \/ \E n \in Nat : HandOut(r, "until", mem[BufferOf[r]], len[r], n)
    BY <1>1, <2>1, ScanEffect
  <2>3. Keep(r, mem[BufferOf[r]], len[r]) => UNCHANGED <<mem, len>>
    BY BufferAssumption DEF Keep, TypeOK
  <2>4. QED
    BY <1>2, <2>1, <2>2, <2>3 DEF CallEffect, NoEffect, HandOutEffect
<1>4. CASE UntilFilled(r)
  <2>1. PICK k \in 1 .. Capacity :
          /\ CanFill(r, k)
          /\ rcvd' = [rcvd EXCEPT ![r] = @ + k]
          /\ UntilScan(r, Filled(r, k), len[r] + k)
    BY <1>4 DEF UntilFilled
  <2>2. Filled(r, k) \in Contents /\ len[r] + k \in 0 .. Capacity
    BY <2>1, FillType
  <2>3. /\ last' \in LastType
        /\ aborted' \in BOOLEAN
        /\ \/ Keep(r, Filled(r, k), len[r] + k) /\ UNCHANGED out
           \/ \E n \in Nat : HandOut(r, "until", Filled(r, k), len[r] + k, n)
    BY <2>1, <2>2, ScanEffect
  <2>4. QED
    BY <1>2, <2>1, <2>3 DEF CallEffect, FillEffect, FillAndHandOutEffect
<1>5. CASE UntilFails(r)
  <2>1. PICK code \in {AGAIN, BUFIO_ERROR_BUFFER_FULL, BUFIO_ERROR_CONNECTION_CLOSED} :
          Return(r, "until", code) \/ Return(r, "until", -1)
    BY <1>5 DEF UntilFails
  <2>2. code \in Int /\ -1 \in Int
    BY DEF AGAIN, BUFIO_ERROR_BUFFER_FULL, BUFIO_ERROR_CONNECTION_CLOSED
  <2>3. last' \in LastType
    BY <2>1, <2>2, ReturnType
  <2>4. QED
    BY <1>2, <1>5, <2>3 DEF UntilFails, CallEffect, NoEffect, TypeOK
<1>6. CASE UntilAborts(r)
  BY <1>2, <1>6 DEF UntilAborts, readerVars, CallEffect, NoEffect, TypeOK, LastType
<1>7. QED
  BY <1>3, <1>4, <1>5, <1>6 DEF BufReader_read_until

-------------------------------------------------------------------------------
(* Type correctness.                                                       *)

LEMMA InitType == Init => TypeOK
<1> SUFFICES ASSUME Init PROVE TypeOK
  OBVIOUS
<1>1. mem \in [Buffer -> [Slot -> Byte \cup {Nul}]]
  BY DEF Init
<1>2. len \in [Reader -> 0 .. Capacity] /\ rcvd \in [Reader -> Nat]
  BY CapacityAssumption DEF Init
<1>3. <<>> \in Seq(Byte) /\ <<>> \in Seq(Byte \cup {Nul})
  OBVIOUS
<1>4. sent \in [Reader -> Seq(Byte)] /\ out \in [Reader -> Seq(Byte \cup {Nul})]
  BY <1>3 DEF Init
<1>5. last \in [Reader -> [call : {"none", "read", "until"}, ret : Int]]
  BY DEF Init, NoCall
<1>6. peer \in [Reader -> {"none", "open", "fin", "rst"}] /\ aborted \in BOOLEAN
  BY DEF Init
<1>7. QED
  BY <1>1, <1>2, <1>4, <1>5, <1>6 DEF TypeOK

(* An effect on a well-typed reader leaves well-typed variables.           *)
LEMMA EffectType ==
  ASSUME TypeOK, NEW r \in Reader, CallEffect(r)
  PROVE  /\ mem' \in [Buffer -> Contents]
         /\ len' \in [Reader -> 0 .. Capacity]
         /\ rcvd' \in [Reader -> Nat]
         /\ out' \in [Reader -> Seq(Byte \cup {Nul})]
<1>1. /\ mem \in [Buffer -> Contents]
      /\ mem[BufferOf[r]] \in Contents
      /\ len \in [Reader -> 0 .. Capacity]
      /\ rcvd \in [Reader -> Nat]
      /\ out \in [Reader -> Seq(Byte \cup {Nul})]
  BY BufferAssumption DEF TypeOK, Contents
<1>2. CASE NoEffect
  BY <1>1, <1>2 DEF NoEffect
<1>3. CASE FillEffect(r)
  <2>1. PICK k \in 1 .. Capacity :
          /\ CanFill(r, k)
          /\ rcvd' = [rcvd EXCEPT ![r] = @ + k]
          /\ Keep(r, Filled(r, k), len[r] + k)
          /\ UNCHANGED out
    BY <1>3 DEF FillEffect
  <2>2. k \in Nat /\ Filled(r, k) \in Contents /\ len[r] + k \in 0 .. Capacity
    BY <2>1, FillType
  <2>3. mem' \in [Buffer -> Contents] /\ len' \in [Reader -> 0 .. Capacity]
    BY <2>1, <2>2, KeepOK
  <2>4. rcvd' \in [Reader -> Nat]
    BY <1>1, <2>1, <2>2
  <2>5. QED
    BY <1>1, <2>1, <2>3, <2>4
<1>4. CASE HandOutEffect(r)
  <2>1. PICK n \in Nat, call \in {"read", "until"} :
          HandOut(r, call, mem[BufferOf[r]], len[r], n)
    BY <1>4 DEF HandOutEffect
  <2>2. /\ mem' \in [Buffer -> Contents]
        /\ len' \in [Reader -> 0 .. Capacity]
        /\ out' \in [Reader -> Seq(Byte \cup {Nul})]
    <3>1. mem[BufferOf[r]] \in Contents /\ len[r] \in 0 .. Capacity
      BY <1>1
    <3>2. QED
      BY <2>1, <3>1, HandOutOK
  <2>3. QED
    BY <1>1, <1>4, <2>2 DEF HandOutEffect
<1>5. CASE FillAndHandOutEffect(r)
  <2>1. PICK k \in 1 .. Capacity :
          /\ CanFill(r, k)
          /\ rcvd' = [rcvd EXCEPT ![r] = @ + k]
          /\ \E n \in Nat, call \in {"read", "until"} :
               HandOut(r, call, Filled(r, k), len[r] + k, n)
    BY <1>5 DEF FillAndHandOutEffect
  <2>2. k \in Nat /\ Filled(r, k) \in Contents /\ len[r] + k \in 0 .. Capacity
    BY <2>1, FillType
  <2>3. PICK n \in Nat, call \in {"read", "until"} :
          HandOut(r, call, Filled(r, k), len[r] + k, n)
    BY <2>1
  <2>4. /\ mem' \in [Buffer -> Contents]
        /\ len' \in [Reader -> 0 .. Capacity]
        /\ out' \in [Reader -> Seq(Byte \cup {Nul})]
    BY <2>2, <2>3, HandOutOK
  <2>5. rcvd' \in [Reader -> Nat]
    BY <1>1, <2>1, <2>2
  <2>6. QED
    BY <2>4, <2>5
<1>6. QED
  BY <1>2, <1>3, <1>4, <1>5 DEF CallEffect

LEMMA StepType == TypeOK /\ [Next]_vars => TypeOK'
<1> SUFFICES ASSUME TypeOK, [Next]_vars PROVE TypeOK'
  OBVIOUS
<1>1. ASSUME NEW r \in Reader, BufReader_init(r)
      PROVE  TypeOK'
  BY <1>1, CapacityAssumption DEF BufReader_init, TypeOK, NoCall
<1>2. ASSUME NEW r \in Reader, NEW n \in 0 .. MaxRead, BufReader_read(r, n)
      PROVE  TypeOK'
  BY <1>2, ReadEffect, EffectType DEF TypeOK, LastType, Contents
<1>3. ASSUME NEW r \in Reader, BufReader_read_until(r)
      PROVE  TypeOK'
  BY <1>3, UntilEffect, EffectType DEF TypeOK, LastType, Contents
<1>4. ASSUME NEW r \in Reader, PeerSend(r)
      PROVE  TypeOK'
  <2>1. sent' \in [Reader -> Seq(Byte)]
    BY <1>4 DEF PeerSend, TypeOK
  <2>2. QED
    BY <1>4, <2>1 DEF PeerSend, TypeOK, readerVars
<1>5. ASSUME NEW r \in Reader, PeerClose(r)
      PROVE  TypeOK'
  BY <1>5 DEF PeerClose, TypeOK, readerVars
<1>6. CASE UNCHANGED vars
  BY <1>6 DEF vars, TypeOK
<1>7. QED
  BY <1>1, <1>2, <1>3, <1>4, <1>5, <1>6 DEF Next

(* The reader's variables keep their types: its counters stay within the   *)
(* array, whatever is read, and whatever the peer does.                    *)
THEOREM TypeCorrect == Spec => []TypeOK
<1>1. Init => TypeOK
  BY InitType
<1>2. TypeOK /\ [Next]_vars => TypeOK'
  BY StepType
<1>3. QED
  BY <1>1, <1>2, PTL DEF Spec

-------------------------------------------------------------------------------
(* Integrity of the stream.                                                *)

(* A call keeps the integrity of the reader it is made on.                 *)
LEMMA EffectIntegrity ==
  ASSUME TypeOK, NEW r \in Reader, ReaderIntegrity(r), CallEffect(r), sent' = sent
  PROVE  ReaderIntegrity(r)'
<1>1. /\ mem[BufferOf[r]] \in Contents
      /\ len[r] \in 0 .. Capacity
      /\ rcvd \in [Reader -> Nat]
      /\ Len(out[r]) \in Nat
  BY BufferAssumption DEF TypeOK, Contents
<1>2. rcvd' \in [Reader -> Nat]
  BY EffectType
<1>3. CASE NoEffect
  BY <1>3 DEF NoEffect, ReaderIntegrity, Continues
<1>4. CASE FillEffect(r)
  <2>1. PICK k \in 1 .. Capacity :
          /\ CanFill(r, k)
          /\ rcvd' = [rcvd EXCEPT ![r] = @ + k]
          /\ Keep(r, Filled(r, k), len[r] + k)
          /\ UNCHANGED out
    BY <1>4 DEF FillEffect
  <2>2. k \in Nat /\ Filled(r, k) \in Contents /\ len[r] + k \in 0 .. Capacity
    BY <2>1, FillType
  <2>3. mem'[BufferOf[r]] = Filled(r, k) /\ len'[r] = len[r] + k
    BY <2>1, <2>2, KeepOK
  <2>4. Continues(r, Filled(r, k), len[r] + k)
    BY <2>1, FillContinues
  <2>5. rcvd'[r] = rcvd[r] + k
    BY <1>1, <2>1
  <2>6. rcvd'[r] = Len(out'[r]) + len'[r]
    BY <1>1, <2>1, <2>2, <2>3, <2>5 DEF ReaderIntegrity
  <2>7. QED
    BY <2>1, <2>3, <2>4, <2>6 DEF ReaderIntegrity, Continues
<1>5. CASE HandOutEffect(r)
  <2>1. PICK n \in Nat, call \in {"read", "until"} :
          HandOut(r, call, mem[BufferOf[r]], len[r], n)
    BY <1>5 DEF HandOutEffect
  <2>2. rcvd'[r] = Len(out[r]) + len[r]
    BY <1>5 DEF HandOutEffect, ReaderIntegrity
  <2>3. Continues(r, mem[BufferOf[r]], len[r])
    BY DEF ReaderIntegrity
  <2>4. QED
    BY <1>1, <1>2, <2>1, <2>2, <2>3, HandOutIntegrity
<1>6. CASE FillAndHandOutEffect(r)
  <2>1. PICK k \in 1 .. Capacity :
          /\ CanFill(r, k)
          /\ rcvd' = [rcvd EXCEPT ![r] = @ + k]
          /\ \E n \in Nat, call \in {"read", "until"} :
               HandOut(r, call, Filled(r, k), len[r] + k, n)
    BY <1>6 DEF FillAndHandOutEffect
  <2>2. k \in Nat /\ Filled(r, k) \in Contents /\ len[r] + k \in 0 .. Capacity
    BY <2>1, FillType
  <2>3. PICK n \in Nat, call \in {"read", "until"} :
          HandOut(r, call, Filled(r, k), len[r] + k, n)
    BY <2>1
  <2>4. Continues(r, Filled(r, k), len[r] + k)
    BY <2>1, FillContinues
  <2>5. rcvd'[r] = rcvd[r] + k
    BY <1>1, <2>1
  <2>6. rcvd'[r] = Len(out[r]) + (len[r] + k)
    BY <1>1, <2>2, <2>5 DEF ReaderIntegrity
  <2>7. QED
    BY <1>2, <2>2, <2>3, <2>4, <2>6, HandOutIntegrity
<1>7. QED
  BY <1>3, <1>4, <1>5, <1>6 DEF CallEffect

(* A call touches no other reader, nor the array of another reader.        *)
LEMMA EffectElsewhere ==
  ASSUME OwnBuffers, TypeOK,
         NEW r \in Reader, NEW q \in Reader, q # r,
         CallEffect(r), ReaderIntegrity(q), sent' = sent
  PROVE  ReaderIntegrity(q)'
<1>1. BufferOf[q] # BufferOf[r] /\ BufferOf[q] \in Buffer
  BY BufferAssumption DEF OwnBuffers
<1>2. /\ mem'[BufferOf[q]] = mem[BufferOf[q]]
      /\ len'[q] = len[q]
      /\ rcvd'[q] = rcvd[q]
      /\ out'[q] = out[q]
  BY <1>1 DEF CallEffect, NoEffect, FillEffect, HandOutEffect,
     FillAndHandOutEffect, Keep, HandOut, TypeOK
<1>3. QED
  BY <1>2 DEF ReaderIntegrity, Continues

(* A reader that is attached to a fresh connection has nothing of another. *)
LEMMA AttachIntegrity ==
  ASSUME TypeOK, NEW r \in Reader, BufReader_init(r)
  PROVE  ReaderIntegrity(r)'
<1>1. /\ len'[r] = 0 /\ rcvd'[r] = 0
      /\ out'[r] = <<>> /\ sent'[r] = <<>>
  BY DEF BufReader_init, TypeOK
<1>2. Len(out'[r]) = 0 /\ Len(sent'[r]) = 0
  BY <1>1
<1>3. QED
  BY <1>1, <1>2 DEF ReaderIntegrity, Continues

LEMMA StepIntegrity ==
  ASSUME OwnBuffers
  PROVE  IInv /\ [Next]_vars => IInv'
<1> SUFFICES ASSUME IInv, [Next]_vars PROVE IInv'
  OBVIOUS
<1> USE DEF IInv
<1>0. TypeOK'
  BY StepType
<1>1. ASSUME NEW r \in Reader, BufReader_init(r), NEW q \in Reader
      PROVE  ReaderIntegrity(q)'
  <2>1. CASE q = r
    BY <1>1, <2>1, AttachIntegrity
  <2>2. CASE q # r
    BY <1>1, <2>2 DEF BufReader_init, TypeOK, ReaderIntegrity, Continues
  <2>3. QED
    BY <2>1, <2>2
<1>2. ASSUME NEW r \in Reader, CallEffect(r), sent' = sent, NEW q \in Reader
      PROVE  ReaderIntegrity(q)'
  BY <1>2, EffectIntegrity, EffectElsewhere
<1>3. ASSUME NEW r \in Reader, PeerSend(r), NEW q \in Reader
      PROVE  ReaderIntegrity(q)'
  <2>1. CASE q = r
    <3>1. PICK b \in Byte : sent'[r] = Append(sent[r], b)
      BY <1>3 DEF PeerSend, TypeOK
    <3>2. sent[r] \in Seq(Byte) /\ Len(sent[r]) \in Nat
      BY DEF TypeOK
    <3>3. /\ Len(sent'[r]) = Len(sent[r]) + 1
          /\ \A i \in 1 .. Len(sent[r]) : sent'[r][i] = sent[r][i]
      BY <3>1, <3>2
    <3>4. UNCHANGED <<mem, len, rcvd, out>>
      BY <1>3 DEF PeerSend, readerVars
    <3>5. /\ Len(out[r]) \in Nat /\ len[r] \in Nat
          /\ Len(out[r]) + len[r] <= Len(sent[r])
      BY CapacityAssumption DEF TypeOK, ReaderIntegrity, Continues
    <3>6. \A i \in 1 .. Len(out[r]) : out'[r][i] = sent'[r][i]
      BY <3>2, <3>3, <3>4, <3>5 DEF ReaderIntegrity
    <3>7. \A i \in 1 .. len[r] : Len(out[r]) + i \in 1 .. Len(sent[r])
      BY <3>2, <3>5
    <3>8. \A i \in 1 .. len[r] : mem[BufferOf[r]][i] = sent'[r][Len(out[r]) + i]
      BY <3>3, <3>7 DEF ReaderIntegrity, Continues
    <3>9. Len(out[r]) + len[r] <= Len(sent'[r])
      BY <3>2, <3>3, <3>5
    <3>10. QED
      BY <2>1, <3>4, <3>6, <3>8, <3>9 DEF ReaderIntegrity, Continues
  <2>2. CASE q # r
    BY <1>3, <2>2 DEF PeerSend, readerVars, TypeOK, ReaderIntegrity, Continues
  <2>3. QED
    BY <2>1, <2>2
<1>4. ASSUME NEW r \in Reader, PeerClose(r) \/ UNCHANGED vars, NEW q \in Reader
      PROVE  ReaderIntegrity(q)'
  <2>1. UNCHANGED <<mem, len, rcvd, out, sent>>
    BY <1>4 DEF PeerClose, readerVars, vars
  <2>2. QED
    BY <2>1 DEF ReaderIntegrity, Continues
<1>5. ASSUME NEW q \in Reader
      PROVE  ReaderIntegrity(q)'
  <2>1. ASSUME NEW r \in Reader, NEW n \in 0 .. MaxRead, BufReader_read(r, n)
        PROVE  ReaderIntegrity(q)'
    BY <2>1, <1>2, ReadEffect
  <2>2. ASSUME NEW r \in Reader, BufReader_read_until(r)
        PROVE  ReaderIntegrity(q)'
    BY <2>2, <1>2, UntilEffect
  <2>3. QED
    BY <1>1, <1>3, <1>4, <2>1, <2>2 DEF Next
<1>6. QED
  BY <1>0, <1>5

LEMMA InitIntegrity == Init => IInv
<1> SUFFICES ASSUME Init PROVE IInv
  OBVIOUS
<1>1. ASSUME NEW r \in Reader
      PROVE  ReaderIntegrity(r)
  <2>1. len[r] = 0 /\ rcvd[r] = 0 /\ out[r] = <<>> /\ sent[r] = <<>>
    BY DEF Init
  <2>2. QED
    BY <2>1 DEF ReaderIntegrity, Continues
<1>2. QED
  BY <1>1, InitType DEF IInv

(* Byte-wise integrity is equality of sequences.                           *)
LEMMA IntegrityOfSequence ==
  ASSUME TypeOK, NEW r \in Reader, ReaderIntegrity(r)
  PROVE  out[r] \o Unread(r) = SubSeq(sent[r], 1, rcvd[r])
<1> DEFINE S == Byte \cup {Nul}
           u == Unread(r)
           p == SubSeq(sent[r], 1, rcvd[r])
<1>1. /\ mem[BufferOf[r]] \in Contents
      /\ len[r] \in 0 .. Capacity
      /\ len[r] \in Nat
      /\ out[r] \in Seq(S) /\ Len(out[r]) \in Nat
      /\ sent[r] \in Seq(Byte) /\ Len(sent[r]) \in Nat
      /\ rcvd[r] \in Nat
  BY BufferAssumption, CapacityAssumption DEF TypeOK, Contents
<1>2. MIN(len[r], len[r]) = len[r]
  BY DEF MIN
<1>3. /\ u \in Seq(S)
      /\ Len(u) = len[r]
      /\ \A i \in 1 .. len[r] : u[i] = mem[BufferOf[r]][i]
  <2>1. /\ u \in Seq(S)
        /\ Len(u) = MIN(len[r], len[r])
        /\ \A i \in 1 .. MIN(len[r], len[r]) : u[i] = mem[BufferOf[r]][i]
    BY <1>1, CopyType DEF Unread
  <2>2. QED
    BY <1>2, <2>1
<1>4. /\ rcvd[r] = Len(out[r]) + len[r]
      /\ rcvd[r] <= Len(sent[r])
      /\ \A i \in 1 .. Len(out[r]) : out[r][i] = sent[r][i]
      /\ \A i \in 1 .. len[r] : mem[BufferOf[r]][i] = sent[r][Len(out[r]) + i]
  BY <1>1 DEF ReaderIntegrity, Continues
<1>5. /\ p \in Seq(S)
      /\ Len(p) = rcvd[r]
      /\ \A i \in 1 .. rcvd[r] : p[i] = sent[r][i]
  <2>1. \A i \in 1 .. rcvd[r] : sent[r][i] \in S
    BY <1>1, <1>4
  <2>2. 1 \in Int /\ rcvd[r] \in Int
    BY <1>1
  <2>3. /\ p \in Seq(S)
        /\ Len(p) = IF 1 <= rcvd[r] THEN rcvd[r] - 1 + 1 ELSE 0
        /\ \A i \in 1 .. rcvd[r] - 1 + 1 : p[i] = sent[r][1 + i - 1]
    BY <2>1, <2>2, SubSeqProperties
  <2>4. QED
    BY <1>1, <2>3
<1> HIDE DEF u, p, S
<1>6. /\ out[r] \o u \in Seq(S)
      /\ Len(out[r] \o u) = Len(out[r]) + Len(u)
      /\ \A i \in 1 .. Len(out[r]) + Len(u) :
           (out[r] \o u)[i] = IF i <= Len(out[r]) THEN out[r][i] ELSE u[i - Len(out[r])]
  BY <1>1, <1>3, ConcatProperties
<1>7. ASSUME NEW i \in 1 .. rcvd[r]
      PROVE  (out[r] \o u)[i] = p[i]
  <2>0. /\ i \in 1 .. Len(out[r]) + Len(u)
        /\ (out[r] \o u)[i] = IF i <= Len(out[r]) THEN out[r][i] ELSE u[i - Len(out[r])]
    BY <1>1, <1>3, <1>4, <1>6
  <2>1. CASE i <= Len(out[r])
    <3>1. out[r][i] = sent[r][i]
      BY <1>1, <1>4, <2>1
    <3>2. QED
      BY <1>5, <2>0, <2>1, <3>1
  <2>2. CASE i > Len(out[r])
    <3>1. i - Len(out[r]) \in 1 .. len[r]
      BY <1>1, <1>4, <2>2
    <3>2. Len(out[r]) + (i - Len(out[r])) = i
      BY <1>1
    <3>3. u[i - Len(out[r])] = sent[r][i]
      BY <1>3, <1>4, <3>1, <3>2
    <3>4. (out[r] \o u)[i] = u[i - Len(out[r])]
      BY <1>1, <2>0, <2>2
    <3>5. QED
      BY <1>5, <3>3, <3>4
  <2>3. i <= Len(out[r]) \/ i > Len(out[r])
    BY <1>1
  <2>4. QED
    BY <2>1, <2>2, <2>3
<1>8. out[r] \o u = p
  <2> DEFINE o == out[r] \o u
  <2>1. Len(o) = rcvd[r]
    BY <1>3, <1>4, <1>6
  <2>2. o \in Seq(S) /\ Len(o) = Len(p) /\ \A i \in 1 .. Len(o) : o[i] = p[i]
    BY <1>5, <1>6, <1>7, <2>1
  <2> HIDE DEF o
  <2>3. o = p
    BY <1>5, <2>2, SeqEqual
  <2>4. QED
    BY <2>3 DEF o
<1>9. QED
  BY <1>8 DEF u, p

LEMMA IntegrityOfSequences == IInv => StreamIntegrity
BY IntegrityOfSequence DEF IInv, StreamIntegrity

(* Whatever partial reads, memmoves and reconnections happened, the bytes  *)
(* handed out and those still buffered are the bytes read(2) returned on   *)
(* this connection, in order, if every reader has an array of its own.     *)
THEOREM Integrity ==
  ASSUME OwnBuffers
  PROVE  Spec => []StreamIntegrity
<1>1. Init => IInv
  BY InitIntegrity
<1>2. IInv /\ [Next]_vars => IInv'
  BY StepIntegrity
<1>3. IInv => StreamIntegrity
  BY IntegrityOfSequences
<1>4. QED
  BY <1>1, <1>2, <1>3, PTL DEF Spec

-------------------------------------------------------------------------------
(* The reader implements a byte stream: the array, and how the network cut *)
(* the stream, cannot be seen from outside.                                *)

(* A call appends to the output of its reader and to no other.             *)
LEMMA EffectAppends ==
  ASSUME TypeOK, NEW r \in Reader, CallEffect(r)
  PROVE  \E bytes \in Seq(Byte \cup {Nul}) :
           out' = [out EXCEPT ![r] = out[r] \o bytes]
<1>1. out \in [Reader -> Seq(Byte \cup {Nul})]
  BY DEF TypeOK
<1>2. CASE UNCHANGED out
  <2>1. out[r] \o <<>> = out[r] /\ <<>> \in Seq(Byte \cup {Nul})
    BY <1>1, ConcatEmptySeq
  <2>2. out' = [out EXCEPT ![r] = out[r] \o <<>>]
    BY <1>1, <1>2, <2>1
  <2>3. QED
    BY <2>1, <2>2
<1>3. ASSUME NEW m \in Contents, NEW l \in 0 .. Capacity, NEW n \in Nat,
             NEW call \in {"read", "until"}, HandOut(r, call, m, l, n)
      PROVE  \E bytes \in Seq(Byte \cup {Nul}) :
               out' = [out EXCEPT ![r] = out[r] \o bytes]
  <2>1. Buf_copy_raw(m, l, n) \in Seq(Byte \cup {Nul})
    BY CopyType
  <2>2. out' = [out EXCEPT ![r] = out[r] \o Buf_copy_raw(m, l, n)]
    BY <1>3 DEF HandOut
  <2>3. QED
    BY <2>1, <2>2
<1>4. CASE HandOutEffect(r)
  <2>1. mem[BufferOf[r]] \in Contents /\ len[r] \in 0 .. Capacity
    BY BufferAssumption DEF TypeOK, Contents
  <2>2. QED
    BY <1>3, <1>4, <2>1 DEF HandOutEffect
<1>5. CASE FillAndHandOutEffect(r)
  <2>1. PICK k \in 1 .. Capacity :
          /\ CanFill(r, k)
          /\ \E n \in Nat, call \in {"read", "until"} :
               HandOut(r, call, Filled(r, k), len[r] + k, n)
    BY <1>5 DEF FillAndHandOutEffect
  <2>2. Filled(r, k) \in Contents /\ len[r] + k \in 0 .. Capacity
    BY <2>1, FillType
  <2>3. QED
    BY <1>3, <2>1, <2>2
<1>6. QED
  BY <1>2, <1>4, <1>5 DEF CallEffect, NoEffect, FillEffect

(* With the integrity of the reader before and after, what is appended is  *)
(* the next part of the peer's stream.                                     *)
LEMMA EffectDelivers ==
  ASSUME TypeOK, TypeOK', NEW r \in Reader, CallEffect(r),
         ReaderIntegrity(r)', sent' = sent
  PROVE  Stream!Deliver(r) \/ UNCHANGED Stream!vars
<1> DEFINE S == Byte \cup {Nul}
           d == Len(out'[r]) - Len(out[r])
<1>1. /\ out \in [Reader -> Seq(S)] /\ out[r] \in Seq(S) /\ Len(out[r]) \in Nat
      /\ out'[r] \in Seq(S) /\ Len(out'[r]) \in Nat
      /\ sent[r] \in Seq(Byte) /\ Len(sent[r]) \in Nat
      /\ len'[r] \in Nat
  <2>1. out \in [Reader -> Seq(S)] /\ out' \in [Reader -> Seq(S)]
    BY DEF TypeOK
  <2>2. sent \in [Reader -> Seq(Byte)] /\ len' \in [Reader -> Nat]
    BY CapacityAssumption DEF TypeOK
  <2>3. out[r] \in Seq(S) /\ out'[r] \in Seq(S) /\ sent[r] \in Seq(Byte)
    BY <2>1, <2>2
  <2>4. Len(out[r]) \in Nat /\ Len(out'[r]) \in Nat /\ Len(sent[r]) \in Nat
    BY <2>3, LenProperties
  <2>5. QED
    BY <2>1, <2>2, <2>3, <2>4
<1>2. PICK bytes \in Seq(S) : out' = [out EXCEPT ![r] = out[r] \o bytes]
  BY EffectAppends
<1>3. Len(bytes) \in Nat /\ Len(out[r] \o bytes) = Len(out[r]) + Len(bytes)
  BY <1>1, <1>2, ConcatProperties
<1>4. out'[r] = out[r] \o bytes
  BY <1>1, <1>2
<1>5. Len(out'[r]) = Len(out[r]) + Len(bytes)
  BY <1>3, <1>4
<1>6. d = Len(bytes)
  BY <1>1, <1>3, <1>5
<1>7. CASE Len(bytes) = 0
  <2>1. bytes = <<>>
    BY <1>2, <1>7, EmptySeq
  <2>2. out[r] \o bytes = out[r]
    BY <1>1, <2>1, ConcatEmptySeq
  <2>3. out' = out
    BY <1>1, <1>2, <2>2
  <2>4. QED
    BY <2>3 DEF Stream!vars
<1>8. CASE Len(bytes) > 0
  <2>1. Len(out'[r]) <= Len(sent[r]) /\ \A i \in 1 .. Len(out'[r]) : out'[r][i] = sent[r][i]
    BY <1>1 DEF ReaderIntegrity, Continues
  <2>2. d \in 1 .. Len(sent[r]) - Len(out[r])
    BY <1>1, <1>3, <1>5, <1>6, <1>8, <2>1
  <2>3. out'[r] = SubSeq(sent[r], 1, Len(out[r]) + d)
    <3>1. Len(out[r]) + d = Len(out'[r])
      BY <1>1
    <3>2. \A i \in 1 .. Len(out'[r]) : sent[r][i] \in S
      BY <1>1, <2>1
    <3>3. 1 \in Int /\ Len(out'[r]) \in Int
      BY <1>1
    <3>4. /\ SubSeq(sent[r], 1, Len(out'[r])) \in Seq(S)
          /\ Len(SubSeq(sent[r], 1, Len(out'[r])))
               = IF 1 <= Len(out'[r]) THEN Len(out'[r]) - 1 + 1 ELSE 0
          /\ \A i \in 1 .. Len(out'[r]) - 1 + 1 :
               SubSeq(sent[r], 1, Len(out'[r]))[i] = sent[r][1 + i - 1]
      BY <3>2, <3>3, SubSeqProperties
    <3>5. /\ Len(SubSeq(sent[r], 1, Len(out'[r]))) = Len(out'[r])
          /\ \A i \in 1 .. Len(out'[r]) :
               SubSeq(sent[r], 1, Len(out'[r]))[i] = sent[r][i]
      BY <1>1, <3>4
    <3>6. out'[r] = SubSeq(sent[r], 1, Len(out'[r]))
      BY <1>1, <2>1, <3>4, <3>5, SeqEqual
    <3>7. QED
      BY <3>1, <3>6
  <2>4. out' = [out EXCEPT ![r] = SubSeq(sent[r], 1, Len(out[r]) + d)]
    BY <1>1, <1>2, <1>4, <2>3
  <2>5. QED
    BY <2>2, <2>4 DEF Stream!Deliver
<1>9. QED
  BY <1>3, <1>7, <1>8

LEMMA StepByteStream ==
  ASSUME OwnBuffers
  PROVE  IInv /\ IInv' /\ [Next]_vars => [Stream!Next]_(Stream!vars)
<1> SUFFICES ASSUME IInv, IInv', [Next]_vars
             PROVE  [Stream!Next]_(Stream!vars)
  OBVIOUS
<1> USE DEF IInv
<1>1. ASSUME NEW r \in Reader, BufReader_init(r)
      PROVE  Stream!Restart(r)
  BY <1>1 DEF BufReader_init, Stream!Restart
<1>2. ASSUME NEW r \in Reader, NEW n \in 0 .. MaxRead, BufReader_read(r, n)
      PROVE  Stream!Deliver(r) \/ UNCHANGED Stream!vars
  BY <1>2, ReadEffect, EffectDelivers
<1>3. ASSUME NEW r \in Reader, BufReader_read_until(r)
      PROVE  Stream!Deliver(r) \/ UNCHANGED Stream!vars
  BY <1>3, UntilEffect, EffectDelivers
<1>4. ASSUME NEW r \in Reader, PeerSend(r)
      PROVE  Stream!Send(r)
  <2>1. PICK b \in Byte : sent' = [sent EXCEPT ![r] = Append(@, b)]
    BY <1>4 DEF PeerSend
  <2>2. UNCHANGED out
    BY <1>4 DEF PeerSend, readerVars
  <2>3. QED
    BY <2>1, <2>2 DEF Stream!Send
<1>5. ASSUME NEW r \in Reader, PeerClose(r)
      PROVE  UNCHANGED Stream!vars
  BY <1>5 DEF PeerClose, readerVars, Stream!vars
<1>6. CASE UNCHANGED vars
  BY <1>6 DEF vars, Stream!vars
<1>7. QED
  BY <1>1, <1>2, <1>3, <1>4, <1>5, <1>6 DEF Next, Stream!Next

(* The buffered reader implements the abstract byte stream.                *)
THEOREM Refinement ==
  ASSUME OwnBuffers
  PROVE  Spec => ImplementsByteStream
<1>1. Init => IInv /\ Stream!Init
  BY InitIntegrity DEF Init, Stream!Init
<1>2. IInv /\ [Next]_vars => IInv'
  BY StepIntegrity
<1>3. IInv /\ IInv' /\ [Next]_vars => [Stream!Next]_(Stream!vars)
  BY StepByteStream
<1>4. QED
  BY <1>1, <1>2, <1>3, PTL DEF Spec, ImplementsByteStream, Stream!Spec

-------------------------------------------------------------------------------
(* The end of the stream.                                                  *)

EndOfStream == [call |-> "until", ret |-> BUFIO_ERROR_CONNECTION_CLOSED]

Drained(r) ==
  last[r] = EndOfStream => peer[r] \in {"fin", "rst"} /\ Len(out[r]) = Len(sent[r])

DInv == IInv /\ \A r \in Reader : Drained(r)

LEMMA LastAfterRead ==
  ASSUME TypeOK, NEW r \in Reader, NEW n \in 0 .. MaxRead, BufReader_read(r, n)
  PROVE  \/ \E ret : Return(r, "read", ret)
         \/ UNCHANGED <<last, out>>
  BY DEF BufReader_read, ReadBuffered, ReadFilled, ReadFails, ReadAborts, HandOut,
     readerVars

LEMMA LastAfterUntil ==
  ASSUME TypeOK, NEW r \in Reader, BufReader_read_until(r)
  PROVE  \/ \E ret : Return(r, "until", ret) /\ ret # BUFIO_ERROR_CONNECTION_CLOSED
         \/ UNCHANGED <<last, out>>
         \/ UNCHANGED out /\ len[r] = 0 /\ Pending(r) = 0 /\ peer[r] = "fin"
            /\ Return(r, "until", BUFIO_ERROR_CONNECTION_CLOSED)
<1>1. ASSUME NEW m \in Contents, NEW l \in 0 .. Capacity, UntilScan(r, m, l)
      PROVE  \/ \E ret : Return(r, "until", ret) /\ ret # BUFIO_ERROR_CONNECTION_CLOSED
             \/ UNCHANGED <<last, out>>
  <2>1. CASE Return(r, "until", -1)
    BY <2>1 DEF BUFIO_ERROR_CONNECTION_CLOSED
  <2>2. ASSUME NEW n \in Nat, HandOut(r, "until", m, l, n)
        PROVE  \E ret : Return(r, "until", ret) /\ ret # BUFIO_ERROR_CONNECTION_CLOSED
    <3>1. MIN(n, l) \in Nat
      BY CopyType
    <3>2. MIN(n, l) # BUFIO_ERROR_CONNECTION_CLOSED
      BY <3>1 DEF BUFIO_ERROR_CONNECTION_CLOSED
    <3>3. QED
      BY <2>2, <3>2 DEF HandOut
  <2>3. Len(Until) \in Nat
    BY UntilAssumption
  <2>4. QED
    BY <1>1, <2>1, <2>2, <2>3 DEF UntilScan
<1>2. mem[BufferOf[r]] \in Contents /\ len[r] \in 0 .. Capacity
  BY BufferAssumption DEF TypeOK, Contents
<1>3. CASE UntilBuffered(r)
  BY <1>1, <1>2, <1>3 DEF UntilBuffered
<1>4. CASE UntilFilled(r)
  BY <1>1, <1>4, FillType DEF UntilFilled
<1>5. CASE UntilFails(r)
  <2>1. PICK code \in {AGAIN, BUFIO_ERROR_BUFFER_FULL, BUFIO_ERROR_CONNECTION_CLOSED} :
          /\ FillFails(r, code)
          /\ \/ len[r] = 0 /\ Return(r, "until", code)
             \/ len[r] > 0 /\ Return(r, "until", -1)
    BY <1>5 DEF UntilFails
  <2>2. -1 # BUFIO_ERROR_CONNECTION_CLOSED
    BY DEF BUFIO_ERROR_CONNECTION_CLOSED
  <2>3. CASE code # BUFIO_ERROR_CONNECTION_CLOSED
    BY <2>1, <2>2, <2>3
  <2>4. CASE code = BUFIO_ERROR_CONNECTION_CLOSED
    <3>1. Pending(r) = 0 /\ peer[r] = "fin"
      BY <2>1, <2>4 DEF FillFails, AGAIN, BUFIO_ERROR_BUFFER_FULL,
         BUFIO_ERROR_CONNECTION_CLOSED
    <3>2. UNCHANGED out
      BY <1>5 DEF UntilFails
    <3>3. QED
      BY <2>1, <2>2, <2>4, <3>1, <3>2
  <2>5. QED
    BY <2>3, <2>4
<1>6. CASE UntilAborts(r)
  BY <1>6 DEF UntilAborts, readerVars
<1>7. QED
  BY <1>3, <1>4, <1>5, <1>6 DEF BufReader_read_until

LEMMA StepDrained ==
  ASSUME OwnBuffers
  PROVE  DInv /\ [Next]_vars => DInv'
<1> SUFFICES ASSUME DInv, [Next]_vars, NEW q \in Reader
             PROVE  Drained(q)'
  BY StepIntegrity DEF DInv
<1> USE DEF DInv, IInv
<1>1. ASSUME NEW r \in Reader, BufReader_init(r)
      PROVE  Drained(q)'
  <2>1. NoCall # EndOfStream
    BY DEF NoCall, EndOfStream
  <2>2. QED
    BY <1>1, <2>1 DEF BufReader_init, Drained, TypeOK
<1>2. ASSUME NEW r \in Reader, CallEffect(r), r # q
      PROVE  out'[q] = out[q]
  BY <1>2, EffectAppends, ZenonT(60) DEF TypeOK
<1>3. ASSUME NEW r \in Reader, NEW n \in 0 .. MaxRead, BufReader_read(r, n)
      PROVE  Drained(q)'
  <2>1. CallEffect(r) /\ UNCHANGED <<sent, peer>>
    BY <1>3, ReadEffect
  <2>2. CASE UNCHANGED <<last, out>>
    BY <2>1, <2>2 DEF Drained
  <2>3. CASE \E ret : Return(r, "read", ret)
    <3>1. last'[r] # EndOfStream /\ (q # r => last'[q] = last[q])
      BY <2>3 DEF Return, TypeOK, EndOfStream
    <3>2. QED
      BY <1>2, <2>1, <3>1 DEF Drained
  <2>4. QED
    BY <1>3, <2>2, <2>3, LastAfterRead
<1>4. ASSUME NEW r \in Reader, BufReader_read_until(r)
      PROVE  Drained(q)'
  <2>1. CallEffect(r) /\ UNCHANGED <<sent, peer>>
    BY <1>4, UntilEffect
  <2>2. CASE UNCHANGED <<last, out>>
    BY <2>1, <2>2 DEF Drained
  <2>3. CASE \E ret : Return(r, "until", ret) /\ ret # BUFIO_ERROR_CONNECTION_CLOSED
    <3>1. last'[r] # EndOfStream /\ (q # r => last'[q] = last[q])
      BY <2>3 DEF Return, TypeOK, EndOfStream
    <3>2. QED
      BY <1>2, <2>1, <3>1 DEF Drained
  <2>4. CASE UNCHANGED out /\ len[r] = 0 /\ Pending(r) = 0 /\ peer[r] = "fin"
             /\ Return(r, "until", BUFIO_ERROR_CONNECTION_CLOSED)
    <3>1. Len(out[r]) = Len(sent[r])
      <4>1. rcvd[r] = Len(out[r]) + 0 /\ Len(sent[r]) - rcvd[r] = 0
        BY <2>4 DEF Pending, ReaderIntegrity
      <4>2. Len(out[r]) \in Nat /\ Len(sent[r]) \in Nat /\ rcvd[r] \in Nat
        BY DEF TypeOK
      <4>3. QED
        BY <4>1, <4>2
    <3>2. q # r => last'[q] = last[q]
      BY <2>4 DEF Return, TypeOK
    <3>3. QED
      BY <2>1, <2>4, <3>1, <3>2 DEF Drained
  <2>5. QED
    BY <1>4, <2>2, <2>3, <2>4, LastAfterUntil
<1>5. ASSUME NEW r \in Reader, PeerSend(r)
      PROVE  Drained(q)'
  <2>1. peer[r] = "open" /\ UNCHANGED <<last, out, peer>>
    BY <1>5 DEF PeerSend, readerVars
  <2>2. q # r => sent'[q] = sent[q]
    BY <1>5 DEF PeerSend, TypeOK
  <2>3. QED
    BY <2>1, <2>2 DEF Drained
<1>6. ASSUME NEW r \in Reader, PeerClose(r)
      PROVE  Drained(q)'
  <2>1. UNCHANGED <<last, out, sent>>
    BY <1>6 DEF PeerClose, readerVars
  <2>2. peer'[q] = peer[q] \/ peer'[q] \in {"fin", "rst"}
    BY <1>6 DEF PeerClose, TypeOK
  <2>3. QED
    BY <2>1, <2>2 DEF Drained
<1>7. CASE UNCHANGED vars
  BY <1>7 DEF vars, Drained
<1>8. QED
  BY <1>1, <1>3, <1>4, <1>5, <1>6, <1>7 DEF Next

LEMMA DrainedOutput == DInv => ClosedMeansDrained
<1> SUFFICES ASSUME DInv, NEW r \in Reader, last[r] = EndOfStream
             PROVE  out[r] = sent[r]
  BY DEF ClosedMeansDrained, EndOfStream
<1>1. out[r] \in Seq(Byte \cup {Nul}) /\ sent[r] \in Seq(Byte)
  BY DEF DInv, IInv, TypeOK
<1>2. sent[r] \in Seq(Byte \cup {Nul})
  BY <1>1
<1>3. Len(out[r]) = Len(sent[r]) /\ \A i \in 1 .. Len(out[r]) : out[r][i] = sent[r][i]
  BY DEF DInv, IInv, Drained, ReaderIntegrity
<1>4. QED
  BY <1>1, <1>2, <1>3, SeqEqual

(* read_until reports BUFIO_ERROR_CONNECTION_CLOSED only to a caller that  *)
(* has every byte the peer sent.                                           *)
THEOREM EndIsTheEnd ==
  ASSUME OwnBuffers
  PROVE  Spec => []ClosedMeansDrained
<1>1. Init => DInv
  <2>1. NoCall # EndOfStream
    BY DEF NoCall, EndOfStream
  <2>2. QED
    BY <2>1, InitIntegrity DEF DInv, Drained, Init
<1>2. DInv /\ [Next]_vars => DInv'
  BY StepDrained
<1>3. DInv => ClosedMeansDrained
  BY DrainedOutput
<1>4. QED
  BY <1>1, <1>2, <1>3, PTL DEF Spec

-------------------------------------------------------------------------------
(* Framing.                                                                *)

(* The bytes up to the end of the first delimiter contain no other.        *)
LEMMA FirstLine ==
  ASSUME NEW m \in Contents, NEW l \in 0 .. Capacity, NEW idx, bs_find(m, l, idx)
  PROVE  LET n == idx + Len(Until)
         IN  /\ n \in Nat /\ MIN(n, l) = n
             /\ Matches(Buf_copy_raw(m, l, n), n) = {n - Len(Until)}
<1> DEFINE n == idx + Len(Until)
           line == Buf_copy_raw(m, l, n)
<1>1. Len(Until) \in Nat \ {0} /\ l \in Nat
  BY UntilAssumption, CapacityAssumption
<1>2. idx \in Nat /\ n <= l /\ \A j \in 1 .. Len(Until) : m[idx + j] = Until[j]
  BY <1>1 DEF bs_find, Matches
<1>3. n \in Nat /\ MIN(n, l) = n /\ n - Len(Until) = idx
  BY <1>1, <1>2 DEF MIN
<1>4. \A i \in 1 .. n : line[i] = m[i]
  BY <1>3 DEF Buf_copy_raw
<1> HIDE DEF line
<1>5. \A i \in 0 .. idx, j \in 1 .. Len(Until) : i + j \in 1 .. n
  BY <1>1, <1>2
<1>6. Matches(line, n) = {i \in 0 .. idx : \A j \in 1 .. Len(Until) : line[i + j] = Until[j]}
  BY <1>3 DEF Matches
<1>7. idx \in Matches(line, n)
  <2>1. idx \in 0 .. idx
    BY <1>2
  <2>2. \A j \in 1 .. Len(Until) : line[idx + j] = Until[j]
    BY <1>2, <1>4, <1>5, <2>1
  <2>3. QED
    BY <1>6, <2>1, <2>2
<1>8. ASSUME NEW i \in Matches(line, n)
      PROVE  i = idx
  <2>1. i \in 0 .. idx /\ \A j \in 1 .. Len(Until) : line[i + j] = Until[j]
    BY <1>6
  <2>2. \A j \in 1 .. Len(Until) : m[i + j] = Until[j]
    BY <1>4, <1>5, <2>1
  <2>3. i \in 0 .. l - Len(Until)
    BY <1>1, <1>2, <2>1
  <2>4. i \in Matches(m, l)
    BY <2>2, <2>3 DEF Matches
  <2>5. idx <= i
    BY <2>4 DEF bs_find
  <2>6. QED
    BY <1>2, <2>1, <2>5
<1>9. QED
  BY <1>3, <1>7, <1>8 DEF line

(* OneLine of one reader.                                                  *)
Line(r) == SubSeq(out[r], Len(out[r]) - last[r].ret + 1, Len(out[r]))
Framed(r) ==
  last[r].call = "until" /\ last[r].ret > 0
    => Matches(Line(r), Len(Line(r))) = {Len(Line(r)) - Len(Until)}

FInv == TypeOK /\ \A r \in Reader : Framed(r)

LEMMA HandedOutLine ==
  ASSUME TypeOK, NEW r \in Reader,
         NEW m \in Contents, NEW l \in 0 .. Capacity,
         NEW idx, bs_find(m, l, idx), HandOut(r, "until", m, l, idx + Len(Until))
  PROVE  Framed(r)'
<1> DEFINE n == idx + Len(Until)
           bytes == Buf_copy_raw(m, l, n)
<1>1. n \in Nat /\ MIN(n, l) = n /\ Matches(bytes, n) = {n - Len(Until)}
  BY FirstLine
<1>2. bytes \in Seq(Byte \cup {Nul}) /\ Len(bytes) = n
  BY <1>1, CopyType
<1>3. out'[r] = out[r] \o bytes /\ out[r] \in Seq(Byte \cup {Nul})
  BY DEF HandOut, TypeOK
<1>4. last'[r].ret = n
  BY <1>1 DEF HandOut, Return, TypeOK
<1> HIDE DEF n, bytes
<1>5. Len(out'[r]) = Len(out[r]) + n /\ Len(out[r]) \in Nat
  <2>1. Len(out[r]) \in Nat
    BY <1>3
  <2>2. Len(out[r] \o bytes) = Len(out[r]) + Len(bytes)
    BY <1>2, <1>3, ConcatProperties
  <2>3. QED
    BY <1>2, <1>3, <2>1, <2>2
<1>6. SubSeq(out'[r], Len(out'[r]) - n + 1, Len(out'[r])) = bytes
  <2> DEFINE o == out'[r]
             k == Len(out[r])
  <2>1. o \in Seq(Byte \cup {Nul}) /\ Len(o) = k + n /\ k \in Nat
    BY <1>2, <1>3, <1>5
  <2>2. \A i \in 1 .. n : o[k + i] = bytes[i]
    BY <1>1, <1>2, <1>3, <1>5
  <2> HIDE DEF o, k
  <2>3. Len(o) - n + 1 = k + 1
    BY <1>1, <2>1
  <2>4. \A i \in k + 1 .. k + n : o[i] \in Byte \cup {Nul}
    BY <1>1, <2>1
  <2> DEFINE s == SubSeq(o, k + 1, k + n)
  <2>5. /\ s \in Seq(Byte \cup {Nul})
        /\ Len(s) = IF k + 1 <= k + n THEN k + n - (k + 1) + 1 ELSE 0
        /\ \A i \in 1 .. k + n - (k + 1) + 1 : s[i] = o[k + 1 + i - 1]
    BY <1>1, <2>1, <2>4, SubSeqProperties
  <2> HIDE DEF s
  <2>6. Len(s) = n /\ \A i \in 1 .. n : s[i] = o[k + i]
    BY <1>1, <2>1, <2>5
  <2>7. s = bytes
    BY <1>2, <2>2, <2>5, <2>6, SeqEqual
  <2>8. QED
    BY <2>1, <2>3, <2>7 DEF s, o
<1>7. Line(r)' = bytes
  BY <1>4, <1>6 DEF Line
<1>8. QED
  BY <1>1, <1>2, <1>7 DEF Framed

(* A successful call appends one line and records its length.              *)
LineAppended(r) ==
  \E line \in Seq(Byte \cup {Nul}) :
    /\ out' = [out EXCEPT ![r] = @ \o line]
    /\ Matches(line, Len(line)) = {Len(line) - Len(Until)}

LEMMA ScanAppends ==
  ASSUME TypeOK, NEW r \in Reader,
         NEW m \in Contents, NEW l \in 0 .. Capacity, UntilScan(r, m, l),
         ~aborted', last'[r].ret >= 0
  PROVE  LineAppended(r)
<1>1. ~Return(r, "until", -1)
  BY DEF Return, TypeOK
<1>2. PICK idx \in 0 .. Capacity :
        bs_find(m, l, idx) /\ HandOut(r, "until", m, l, idx + Len(Until))
  BY <1>1 DEF UntilScan
<1> DEFINE n == idx + Len(Until)
           line == Buf_copy_raw(m, l, n)
<1>3. n \in Nat /\ MIN(n, l) = n /\ Matches(line, n) = {n - Len(Until)}
  BY <1>2, FirstLine
<1>4. line \in Seq(Byte \cup {Nul}) /\ Len(line) = n
  BY <1>3, CopyType
<1>5. out' = [out EXCEPT ![r] = @ \o line]
  BY <1>2 DEF HandOut
<1>6. QED
  BY <1>3, <1>4, <1>5 DEF LineAppended

LEMMA UntilAppends ==
  ASSUME TypeOK, NEW r \in Reader, BufReader_read_until(r),
         ~aborted', last'[r].ret >= 0
  PROVE  LineAppended(r)
<1>1. mem[BufferOf[r]] \in Contents /\ len[r] \in 0 .. Capacity
  BY BufferAssumption DEF TypeOK, Contents
<1>2. CASE UntilBuffered(r)
  BY <1>1, <1>2, ScanAppends DEF UntilBuffered
<1>3. CASE UntilFilled(r)
  BY <1>3, FillType, ScanAppends DEF UntilFilled
<1>4. CASE UntilFails(r)
  <2>1. PICK ret \in {-3, -2, -1} : Return(r, "until", ret)
    BY <1>4 DEF UntilFails, AGAIN, BUFIO_ERROR_BUFFER_FULL, BUFIO_ERROR_CONNECTION_CLOSED
  <2>2. last'[r].ret = ret
    BY <2>1 DEF Return, TypeOK
  <2>3. QED
    BY <2>2
<1>5. CASE UntilAborts(r)
  BY <1>5 DEF UntilAborts
<1>6. QED
  BY <1>2, <1>3, <1>4, <1>5 DEF BufReader_read_until

(* A call that ends the process met a reset connection or a line that is   *)
(* longer than the caller's destination.                                   *)
LongLine(r) ==
  \E idx \in Nat :
    /\ idx >= DestLen
    /\ Len(out[r]) + idx + Len(Until) <= Len(sent[r])
    /\ \A k \in 0 .. idx - 1 :
         \E j \in 1 .. Len(Until) : sent[r][Len(out[r]) + k + j] # Until[j]

LEMMA ScanAborts ==
  ASSUME TypeOK, NEW r \in Reader,
         NEW m \in Contents, NEW l \in 0 .. Capacity, Continues(r, m, l),
         UntilScan(r, m, l), ~aborted, aborted'
  PROVE  LongLine(r)
<1>1. PICK idx \in 0 .. Capacity : bs_find(m, l, idx) /\ idx >= DestLen
  BY DEF UntilScan
<1>2. /\ Len(Until) \in Nat \ {0} /\ l \in Nat /\ Len(out[r]) \in Nat
      /\ Len(sent[r]) \in Nat /\ idx \in Nat
  BY UntilAssumption, CapacityAssumption DEF TypeOK
<1>3. idx \in 0 .. l - Len(Until) /\ \A i \in Matches(m, l) : idx <= i
  BY <1>1 DEF bs_find, Matches
<1>4. Len(out[r]) + l <= Len(sent[r])
  BY DEF Continues
<1>5. Len(out[r]) + idx + Len(Until) <= Len(sent[r])
  BY <1>2, <1>3, <1>4
<1>6. ASSUME NEW k \in 0 .. idx - 1
      PROVE  \E j \in 1 .. Len(Until) : sent[r][Len(out[r]) + k + j] # Until[j]
  <2>1. k \in 0 .. l - Len(Until) /\ ~(idx <= k)
    BY <1>2, <1>3
  <2>2. k \notin Matches(m, l)
    BY <1>3, <2>1
  <2>3. PICK j \in 1 .. Len(Until) : m[k + j] # Until[j]
    BY <2>1, <2>2 DEF Matches
  <2>4. k + j \in 1 .. l /\ Len(out[r]) + (k + j) = Len(out[r]) + k + j
    <3>1. k \in Nat /\ j \in Nat /\ j >= 1 /\ j <= Len(Until) /\ k + Len(Until) <= l
      BY <1>2, <2>1
    <3>2. k + j <= l /\ k + j >= 1
      BY <1>2, <3>1
    <3>3. k + j \in 1 .. l
      BY <1>2, <3>1, <3>2
    <3>4. \A a, b, c \in Nat : a + (b + c) = a + b + c
      OBVIOUS
    <3>5. Len(out[r]) + (k + j) = Len(out[r]) + k + j
      BY <1>2, <3>1, <3>4, ZenonT(60)
    <3> QED
      BY <3>3, <3>5
  <2>5. m[k + j] = sent[r][Len(out[r]) + (k + j)]
    BY <2>4 DEF Continues
  <2> QED
    BY <2>3, <2>4, <2>5
<1> QED
  BY <1>1, <1>2, <1>5, <1>6 DEF LongLine

LEMMA UntilAbortsBecause ==
  ASSUME TypeOK, NEW r \in Reader, ReaderIntegrity(r), BufReader_read_until(r), aborted'
  PROVE  peer[r] = "rst" \/ LongLine(r)
<1>1. mem[BufferOf[r]] \in Contents /\ len[r] \in 0 .. Capacity
  BY BufferAssumption DEF TypeOK, Contents
<1>2. ~aborted
  BY DEF BufReader_read_until, Live
<1>3. CASE UntilBuffered(r)
  BY <1>1, <1>2, <1>3, ScanAborts DEF UntilBuffered, ReaderIntegrity
<1>4. CASE UntilFilled(r)
  <2>1. PICK k \in 1 .. Capacity :
          CanFill(r, k) /\ UntilScan(r, Filled(r, k), len[r] + k)
    BY <1>4 DEF UntilFilled
  <2>2. Filled(r, k) \in Contents /\ len[r] + k \in 0 .. Capacity
    <3>1. Filled(r, k) \in Contents /\ len[r] + k \in 1 .. Capacity
      BY <2>1, FillType
    <3> QED
      BY <3>1, CapacityAssumption
  <2>3. Continues(r, Filled(r, k), len[r] + k)
    BY <2>1, FillContinues
  <2> QED
    BY <1>2, <2>1, <2>2, <2>3, ScanAborts
<1>5. CASE UntilFails(r)
  BY <1>2, <1>5 DEF UntilFails
<1>6. CASE UntilAborts(r)
  BY <1>6 DEF UntilAborts, FillAborts
<1> QED
  BY <1>3, <1>4, <1>5, <1>6 DEF BufReader_read_until

(* What a call of read_until does to the framing of its reader.            *)
LEMMA ScanFramed ==
  ASSUME TypeOK, NEW r \in Reader,
         NEW m \in Contents, NEW l \in 0 .. Capacity, UntilScan(r, m, l)
  PROVE  Framed(r)' \/ UNCHANGED <<last, out>>
<1>1. CASE Return(r, "until", -1)
  BY <1>1 DEF Return, TypeOK, Framed
<1>2. CASE \E idx \in 0 .. Capacity :
             bs_find(m, l, idx) /\ HandOut(r, "until", m, l, idx + Len(Until))
  BY <1>2, HandedOutLine
<1>3. CASE UNCHANGED <<out, last>>
  BY <1>3
<1>4. QED
  BY <1>1, <1>2, <1>3 DEF UntilScan

LEMMA UntilFramed ==
  ASSUME TypeOK, NEW r \in Reader, BufReader_read_until(r)
  PROVE  Framed(r)' \/ UNCHANGED <<last, out>>
<1>1. mem[BufferOf[r]] \in Contents /\ len[r] \in 0 .. Capacity
  BY BufferAssumption DEF TypeOK, Contents
<1>2. CASE UntilBuffered(r)
  BY <1>1, <1>2, ScanFramed DEF UntilBuffered
<1>3. CASE UntilFilled(r)
  BY <1>3, FillType, ScanFramed DEF UntilFilled
<1>4. CASE UntilFails(r)
  <2>1. PICK ret \in {-3, -2, -1} : Return(r, "until", ret)
    BY <1>4 DEF UntilFails, AGAIN, BUFIO_ERROR_BUFFER_FULL, BUFIO_ERROR_CONNECTION_CLOSED
  <2>2. QED
    BY <2>1 DEF Return, TypeOK, Framed
<1>5. CASE UntilAborts(r)
  BY <1>5 DEF UntilAborts, readerVars
<1>6. QED
  BY <1>2, <1>3, <1>4, <1>5 DEF BufReader_read_until

(* A call records its result for its own reader only.                      *)
LEMMA OthersLast ==
  ASSUME TypeOK, NEW r \in Reader, NEW q \in Reader, q # r,
         (\E n \in 0 .. MaxRead : BufReader_read(r, n)) \/ BufReader_read_until(r)
  PROVE  last'[q] = last[q] /\ out'[q] = out[q]
<1>1. CallEffect(r)
  BY ReadEffect, UntilEffect
<1>2. out'[q] = out[q]
  BY <1>1, EffectAppends DEF TypeOK
<1>3. \A call, ret : Return(r, call, ret) => last'[q] = last[q]
  BY DEF Return, TypeOK
<1>4. last'[q] = last[q]
  BY <1>3, LastAfterRead, LastAfterUntil
<1>5. QED
  BY <1>2, <1>4

LEMMA StepFramed == FInv /\ [Next]_vars => FInv'
<1> SUFFICES ASSUME FInv, [Next]_vars, NEW q \in Reader
             PROVE  Framed(q)'
  BY StepType DEF FInv
<1>1. TypeOK /\ Framed(q)
  BY DEF FInv
<1>2. last'[q] = last[q] /\ out'[q] = out[q] => Framed(q)'
  BY <1>1 DEF Framed, Line
<1>3. ASSUME NEW r \in Reader, BufReader_init(r)
      PROVE  Framed(q)'
  <2>1. CASE q = r
    BY <1>1, <1>3, <2>1 DEF BufReader_init, NoCall, Framed, TypeOK
  <2>2. CASE q # r
    BY <1>1, <1>2, <1>3, <2>2 DEF BufReader_init, TypeOK
  <2>3. QED
    BY <2>1, <2>2
<1>4. ASSUME NEW r \in Reader, NEW n \in 0 .. MaxRead, BufReader_read(r, n)
      PROVE  Framed(q)'
  <2>1. CASE q = r /\ \E ret : Return(r, "read", ret)
    BY <1>1, <2>1 DEF Return, TypeOK, Framed
  <2>2. QED
    BY <1>1, <1>2, <1>4, <2>1, LastAfterRead, OthersLast
<1>5. ASSUME NEW r \in Reader, BufReader_read_until(r)
      PROVE  Framed(q)'
  BY <1>1, <1>2, <1>5, UntilFramed, OthersLast
<1>6. ASSUME NEW r \in Reader, PeerSend(r) \/ PeerClose(r)
      PROVE  Framed(q)'
  BY <1>2, <1>6 DEF PeerSend, PeerClose, readerVars
<1>7. CASE UNCHANGED vars
  BY <1>2, <1>7 DEF vars
<1>8. QED
  BY <1>3, <1>4, <1>5, <1>6, <1>7 DEF Next

(* Readers that share arrays included, a chunk read_until hands out ends   *)
(* with the delimiter and does not contain it earlier.                     *)
THEOREM Framing == Spec => []OneLine
<1>1. Init => FInv
  BY InitType DEF Init, FInv, Framed, NoCall
<1>2. FInv /\ [Next]_vars => FInv'
  BY StepFramed
<1>3. FInv => OneLine
  BY DEF FInv, Framed, Line, OneLine
<1>4. QED
  BY <1>1, <1>2, <1>3, PTL DEF Spec
=============================================================================
