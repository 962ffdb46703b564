------------------------------- MODULE BufReader -------------------------------
(***************************************************************************)
(* The buffered reader of libs/buff_io.h over a TCP socket.                *)
(*                                                                         *)
(* A reader owns an array of Capacity slots; its first len[r] slots are    *)
(* the bytes read(2) returned and no caller has taken.  The array is       *)
(* indexed from 1 here, so that C's data[i] is mem[b][i + 1]; indices that *)
(* the code returns (bs_find) stay zero-based.                             *)
(*                                                                         *)
(* A call is one step: the library is single-threaded and makes at most    *)
(* one read(2) per call, whose result is chosen by the environment.  The   *)
(* peer and the network act between calls: a TCP peer's bytes reach        *)
(* read(2) in order but in pieces of any size.                             *)
(***************************************************************************)
EXTENDS Integers, Sequences

CONSTANTS
  Reader,      \* the readers of the program
  Buffer,      \* the arrays readers are initialised with
  BufferOf,    \* the array each reader was given
  Capacity,    \* slots of an array (BUFIO_DEFAULT_BUFFER_SIZE)
  DestLen,     \* size of the caller's destination in read_until
  Byte,        \* the bytes a peer may send
  Nul,         \* what a slot holds before anything was stored in it
  Until,       \* the delimiter ("\r\n")
  NonBlocking, \* whether the descriptor is in non-blocking mode
  MaxRead,     \* bound: largest length passed to BufReader_read
  MaxSent      \* bound: most bytes a peer sends on one connection

ASSUME CapacityAssumption == Capacity \in Nat \ {0}
ASSUME LengthAssumption == DestLen \in Nat /\ MaxRead \in Nat /\ MaxSent \in Nat
ASSUME UntilAssumption == Until \in Seq(Byte) /\ Len(Until) > 0
ASSUME BufferAssumption == BufferOf \in [Reader -> Buffer]
ASSUME ModeAssumption == NonBlocking \in BOOLEAN

VARIABLES
  mem,     \* the arrays
  len,     \* len[r]: reader->buffer.len
  sent,    \* the bytes the peer of r sent on the current connection
  rcvd,    \* how many of them read(2) has returned
  peer,    \* the peer's end of the connection
  out,     \* the bytes handed to the caller on the current connection
  last,    \* the last call on r and what it returned
  aborted  \* an assertion failed: the process is gone

readerVars == <<mem, len, rcvd, out, last>>
vars == <<mem, len, sent, rcvd, peer, out, last, aborted>>

Slot == 1 .. Capacity

AGAIN == -1
BUFIO_ERROR_BUFFER_FULL == -2
BUFIO_ERROR_CONNECTION_CLOSED == -3
NoCall == [call |-> "none", ret |-> 0]

TypeOK ==
  /\ mem \in [Buffer -> [Slot -> Byte \cup {Nul}]]
  /\ len \in [Reader -> 0 .. Capacity]
  /\ sent \in [Reader -> Seq(Byte)]
  /\ rcvd \in [Reader -> Nat]
  /\ peer \in [Reader -> {"none", "open", "fin", "rst"}]
  /\ out \in [Reader -> Seq(Byte \cup {Nul})]
  /\ last \in [Reader -> [call : {"none", "read", "until"}, ret : Int]]
  /\ aborted \in BOOLEAN

-------------------------------------------------------------------------------
(* Operations on an array m whose first l slots are unread.                *)

MIN(a, b) == IF a < b THEN a ELSE b

\* Mutated form of Buf__advance: the memmove is forgotten.
Buf__advance_NoMove(m, l, by) == m

(* memmove the unread bytes behind the first by to the front; what lies    *)
(* behind them keeps its old contents.                                     *)
Buf__advance(m, l, by) ==
  [i \in Slot |-> IF i + by <= l THEN m[i + by] ELSE m[i]]

Buf_copy_raw(m, l, n) == [i \in 1 .. MIN(n, l) |-> m[i]]

(* The offsets at which the delimiter occurs; bs_find returns the least.   *)
Matches(m, l) ==
  {i \in 0 .. (l - Len(Until)) : \A j \in 1 .. Len(Until) : m[i + j] = Until[j]}

\* Mutated form of bs_find: the offset behind the window that matched.
bs_find_Behind(m, l, idx) ==
  idx - 1 \in Matches(m, l) /\ \A i \in Matches(m, l) : idx - 1 <= i

\* Mutated form of bs_find: it misses an occurrence that ends the string.
bs_find_Short(m, l, idx) ==
  /\ idx \in Matches(m, l)
  /\ \A i \in Matches(m, l) : idx <= i
  /\ idx + Len(Until) < l

bs_find(m, l, idx) ==
  /\ idx \in Matches(m, l)
  /\ \A i \in Matches(m, l) : idx <= i

-------------------------------------------------------------------------------
(* read(2) into the free end of the array.                                 *)

Pending(r) == Len(sent[r]) - rcvd[r]

\* Mutated form of Room: read(2) may store one byte behind the array.
Room_OneTooMany(r) == Capacity - len[r] + 1

Room(r) == Capacity - len[r]

(* read(2) may return k bytes; the array then holds them after the unread  *)
(* ones.                                                                   *)
CanFill(r, k) == k \in 1 .. MIN(Room(r), Pending(r))

Filled(r, k) ==
  [i \in Slot |-> IF i \in len[r] + 1 .. len[r] + k
                    THEN sent[r][rcvd[r] + i - len[r]]
                    ELSE mem[BufferOf[r]][i]]

(* The early returns of BufReader_read: no room, EAGAIN, end of stream.  A *)
(* blocking descriptor has no EAGAIN: the call waits.                      *)
FillFails(r, code) ==
  \/ Room(r) = 0 /\ code = BUFIO_ERROR_BUFFER_FULL
  \/ /\ Room(r) > 0
     /\ Pending(r) = 0
     /\ \/ NonBlocking /\ peer[r] = "open" /\ code = AGAIN
        \/ peer[r] = "fin" /\ code = BUFIO_ERROR_CONNECTION_CLOSED

(* Any other errno, here ECONNRESET, runs into _UNREACHABLE.               *)
FillAborts(r) == Room(r) > 0 /\ peer[r] = "rst"

-------------------------------------------------------------------------------
(* The calls.                                                              *)

Return(r, call, ret) == last' = [last EXCEPT ![r] = [call |-> call, ret |-> ret]]

\* Mutated form of HandOut: a byte behind the copied ones is dropped as well.
HandOut_DropsOneMore(r, call, m, l, n) ==
  LET bytes == Buf_copy_raw(m, l, n) IN
    /\ out' = [out EXCEPT ![r] = @ \o bytes]
    /\ mem' = [mem EXCEPT ![BufferOf[r]] = Buf__advance(m, l, MIN(n, l) + 1)]
    /\ len' = [len EXCEPT ![r] = l - MIN(n, l) - 1]
    /\ Return(r, call, MIN(n, l))

(* Copy the first n of l unread bytes of m to the caller and drop them.    *)
HandOut(r, call, m, l, n) ==
  LET bytes == Buf_copy_raw(m, l, n) IN
    /\ out' = [out EXCEPT ![r] = @ \o bytes]
    /\ mem' = [mem EXCEPT ![BufferOf[r]] = Buf__advance(m, l, MIN(n, l))]
    /\ len' = [len EXCEPT ![r] = l - MIN(n, l)]
    /\ Return(r, call, MIN(n, l))

(* Keep the l unread bytes of m, as a fill left them.                      *)
Keep(r, m, l) ==
  /\ mem' = [mem EXCEPT ![BufferOf[r]] = m]
  /\ len' = [len EXCEPT ![r] = l]

Live(r) == ~aborted /\ peer[r] # "none"

\* Mutated form of BufReader_init: the bytes of the last connection stay.
BufReader_init_KeepsBytes(r) ==
  /\ ~aborted
  /\ sent' = [sent EXCEPT ![r] = <<>>]
  /\ rcvd' = [rcvd EXCEPT ![r] = 0]
  /\ out' = [out EXCEPT ![r] = <<>>]
  /\ peer' = [peer EXCEPT ![r] = "open"]
  /\ last' = [last EXCEPT ![r] = NoCall]
  /\ UNCHANGED <<mem, len, aborted>>

(* BufReader_init for a socket that has just been connected.               *)
BufReader_init(r) ==
  /\ ~aborted
  /\ len' = [len EXCEPT ![r] = 0]
  /\ sent' = [sent EXCEPT ![r] = <<>>]
  /\ rcvd' = [rcvd EXCEPT ![r] = 0]
  /\ out' = [out EXCEPT ![r] = <<>>]
  /\ peer' = [peer EXCEPT ![r] = "open"]
  /\ last' = [last EXCEPT ![r] = NoCall]
  /\ UNCHANGED <<mem, aborted>>

NeedsFill(r, n) == len[r] < n \/ n = 0

ReadBuffered(r, n) ==
  /\ ~NeedsFill(r, n)
  /\ HandOut(r, "read", mem[BufferOf[r]], len[r], n)
  /\ UNCHANGED <<rcvd, aborted>>

ReadFilled(r, n) ==
  /\ NeedsFill(r, n)
  /\ \E k \in 1 .. Capacity :
       /\ CanFill(r, k)
       /\ rcvd' = [rcvd EXCEPT ![r] = @ + k]
       /\ \/ /\ n = 0
             /\ Keep(r, Filled(r, k), len[r] + k)
             /\ Return(r, "read", k)
             /\ UNCHANGED out
          \/ /\ n > 0
             /\ HandOut(r, "read", Filled(r, k), len[r] + k, n)
  /\ UNCHANGED aborted

ReadFails(r, n) ==
  /\ NeedsFill(r, n)
  /\ \E code \in {AGAIN, BUFIO_ERROR_BUFFER_FULL, BUFIO_ERROR_CONNECTION_CLOSED} :
       FillFails(r, code) /\ Return(r, "read", code)
  /\ UNCHANGED <<mem, len, rcvd, out, aborted>>

ReadAborts(r, n) ==
  /\ NeedsFill(r, n)
  /\ FillAborts(r)
  /\ aborted' = TRUE
  /\ UNCHANGED readerVars

BufReader_read(r, n) ==
  /\ Live(r)
  /\ \/ ReadBuffered(r, n)
     \/ ReadFilled(r, n)
     \/ ReadFails(r, n)
     \/ ReadAborts(r, n)
  /\ UNCHANGED <<sent, peer>>

(* The second scan of BufReader_read_until and what follows it.            *)
UntilScan(r, m, l) ==
  \/ /\ Matches(m, l) = {}
     /\ Keep(r, m, l)
     /\ Return(r, "until", -1)
     /\ UNCHANGED <<out, aborted>>
  \/ \E idx \in 0 .. Capacity :
       /\ bs_find(m, l, idx)
       /\ idx < DestLen
       /\ HandOut(r, "until", m, l, idx + Len(Until))
       /\ UNCHANGED aborted
  \/ \E idx \in 0 .. Capacity :
       /\ bs_find(m, l, idx)
       /\ idx >= DestLen
       /\ aborted' = TRUE
       /\ Keep(r, m, l)
       /\ UNCHANGED <<out, last>>

UntilBuffered(r) ==
  /\ Matches(mem[BufferOf[r]], len[r]) # {}
  /\ UntilScan(r, mem[BufferOf[r]], len[r])
  /\ UNCHANGED rcvd

UntilFilled(r) ==
  /\ Matches(mem[BufferOf[r]], len[r]) = {}
  /\ \E k \in 1 .. Capacity :
       /\ CanFill(r, k)
       /\ rcvd' = [rcvd EXCEPT ![r] = @ + k]
       /\ UntilScan(r, Filled(r, k), len[r] + k)

\* Mutated form of UntilFails: the test for an empty buffer is dropped.
UntilFails_BytesLeft(r) ==
  /\ Matches(mem[BufferOf[r]], len[r]) = {}
  /\ \E code \in {AGAIN, BUFIO_ERROR_BUFFER_FULL, BUFIO_ERROR_CONNECTION_CLOSED} :
       FillFails(r, code) /\ Return(r, "until", code)
  /\ UNCHANGED <<mem, len, rcvd, out, aborted>>

(* A failed fill is reported as such only when nothing is buffered.        *)
UntilFails(r) ==
  /\ Matches(mem[BufferOf[r]], len[r]) = {}
  /\ \E code \in {AGAIN, BUFIO_ERROR_BUFFER_FULL, BUFIO_ERROR_CONNECTION_CLOSED} :
       /\ FillFails(r, code)
       /\ \/ len[r] = 0 /\ Return(r, "until", code)
          \/ len[r] > 0 /\ Return(r, "until", -1)
  /\ UNCHANGED <<mem, len, rcvd, out, aborted>>

UntilAborts(r) ==
  /\ Matches(mem[BufferOf[r]], len[r]) = {}
  /\ FillAborts(r)
  /\ aborted' = TRUE
  /\ UNCHANGED readerVars

BufReader_read_until(r) ==
  /\ Live(r)
  /\ \/ UntilBuffered(r)
     \/ UntilFilled(r)
     \/ UntilFails(r)
     \/ UntilAborts(r)
  /\ UNCHANGED <<sent, peer>>

-------------------------------------------------------------------------------
(* The peer.                                                               *)

PeerSend(r) ==
  /\ peer[r] = "open"
  /\ Len(sent[r]) < MaxSent
  /\ \E b \in Byte : sent' = [sent EXCEPT ![r] = Append(@, b)]
  /\ UNCHANGED <<readerVars, peer, aborted>>

(* An orderly shutdown, or a reset, after which read(2) may still return   *)
(* bytes that had arrived.                                                 *)
PeerClose(r) ==
  /\ \/ peer[r] = "open" /\ peer' = [peer EXCEPT ![r] = "fin"]
     \/ peer[r] \in {"open", "fin"} /\ peer' = [peer EXCEPT ![r] = "rst"]
  /\ UNCHANGED <<readerVars, sent, aborted>>

-------------------------------------------------------------------------------
Init ==
  /\ mem = [b \in Buffer |-> [i \in Slot |-> Nul]]
  /\ len = [r \in Reader |-> 0]
  /\ sent = [r \in Reader |-> <<>>]
  /\ rcvd = [r \in Reader |-> 0]
  /\ peer = [r \in Reader |-> "none"]
  /\ out = [r \in Reader |-> <<>>]
  /\ last = [r \in Reader |-> NoCall]
  /\ aborted = FALSE

Next ==
  \E r \in Reader :
    \/ BufReader_init(r)
    \/ \E n \in 0 .. MaxRead : BufReader_read(r, n)
    \/ BufReader_read_until(r)
    \/ PeerSend(r)
    \/ PeerClose(r)

Spec == Init /\ [][Next]_vars

(* A caller that keeps calling read_until, as ws__http_read_header does.   *)
FairSpec == Spec /\ \A r \in Reader : WF_vars(BufReader_read_until(r))

-------------------------------------------------------------------------------
(* Properties.                                                             *)

Unread(r) == Buf_copy_raw(mem[BufferOf[r]], len[r], len[r])

(* Integrity: whatever reads, partial reads, memmoves and reconnections    *)
(* happened, the bytes handed out followed by the bytes still buffered are *)
(* exactly what read(2) took from this connection: nothing lost, repeated, *)
(* reordered or left over from another connection.                         *)
StreamIntegrity ==
  \A r \in Reader : out[r] \o Unread(r) = SubSeq(sent[r], 1, rcvd[r])

(* Framing: a chunk read_until handed out ends with the delimiter and does *)
(* not contain it earlier, wherever the network cut the stream.            *)
OneLine ==
  \A r \in Reader :
    last[r].call = "until" /\ last[r].ret > 0 =>
      LET line == SubSeq(out[r], Len(out[r]) - last[r].ret + 1, Len(out[r]))
      IN  Matches(line, Len(line)) = {Len(line) - Len(Until)}

(* read_until reports the end of the stream only to a caller who was       *)
(* handed every byte the peer sent.                                        *)
ClosedMeansDrained ==
  \A r \in Reader :
    last[r] = [call |-> "until", ret |-> BUFIO_ERROR_CONNECTION_CLOSED]
      => out[r] = sent[r]

(* The assertion "buffer to small" of read_until is there to keep the copy *)
(* inside the caller's destination.                                        *)
CopyFitsDestination ==
  \A r \in Reader : last[r].call = "until" => last[r].ret <= DestLen

(* Lines of which the peer sent everything and the caller has not been     *)
(* handed the end, of which some may be longer than an array.              *)
LinesLeft(r) == {i \in Matches(sent[r], Len(sent[r])) : i >= Len(out[r])}

UndeliveredLine(r) ==
  \E i \in LinesLeft(r) : i + Len(Until) <= Len(out[r]) + Capacity

(* An array that is full of one line, whose delimiter is still to come.    *)
Stuck(r) == Room(r) = 0 /\ Matches(mem[BufferOf[r]], len[r]) = {}

(* Liveness: a caller that goes on calling read_until is handed every      *)
(* complete line the peer sent that an array can hold; what keeps a longer *)
(* one from it is an array full of its beginning, and nothing else.        *)
LinesDelivered ==
  \A r \in Reader :
    /\ UndeliveredLine(r) ~> (~UndeliveredLine(r) \/ aborted)
    /\ LinesLeft(r) # {} ~> (LinesLeft(r) = {} \/ aborted \/ Stuck(r))

Stream == INSTANCE ByteStream WITH Byte <- Byte \cup {Nul}

(* The reader implements a plain byte stream.                              *)
ImplementsByteStream == Stream!Spec
===============================================================================
