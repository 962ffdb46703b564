# websockets_c in TLA+

A specification of the WebSocket client in this repository: TLA+ modules for its
reader, handshake, sender and codecs, TLC configurations that check them on
small instances, and TLAPS proofs of the properties that matter most.

Run `tlc -config X.cfg M` for a configuration of the table below, `tlapm M.tla`
for a module of proofs.

## 1. The system

A single-threaded C client. `main.c` creates a context, calls `ws_connect`,
sends one message with `ws_send_message` and exits. There is no receiving side
yet: after the handshake the library only writes.

| component | source | state it keeps | operations | interacts with |
|---|---|---|---|---|
| buffered reader | `libs/buff_io.h` | array, `len`, descriptor | `BufReader_init`, `BufReader_read`, `BufReader_read_until` | read(2), the peer, the caller's destination |
| handshake | `websocket.c` 183-377 | context, descriptor, key | `ws_connect` and its helpers | reader, upgrade request, codecs, server |
| response headers | `websocket.c` 120-181, 218-265, 319-377 | status line, list of headers | parse, look up, verify | string views, string builder, dynamic array |
| upgrade request | `websocket.c` 282-318 | a string builder | `ws_do_http_upgrade` | string builder, write(2) |
| frame writer | `websocket.c` 378-457 | the frame, mask, `bytes_wrote` | `ws_send_message`, `ws_write_frame`, `write_exact` | write(2), the peer |
| string builder | `libs/bs.h` 332-452 | `data`, `len`, `capacity` | new, new_alloc, reserve, append, sprintf, destory | realloc(3), vsnprintf(3) |
| string views | `libs/bs.h` 112-330 | none | find, trim, split, eq, escape | reader, parser |
| base64, SHA-1 | `libs/base64.c`, `libs/sha1.h` | none | encode, decode, digest | key and accept header |
| random numbers | `libs/rng_*.c`, `libs/crng_linux.c` | generator state, descriptor | key and mask | handshake, frame writer |
| dynamic array | `libs/dyn_array.h` | items, `len`, `capacity` | `da_append`, ... | header list |
| integers | `libs/extint.h` | none | `log2i`, byte order | string builder, SHA-1 |
| example program | `main.c` | the context | connect, send, exit | handshake, frame writer, the kernel |

What is hard here is not concurrency inside the process, it is what the
environment does between and within calls:

- TCP hands over bytes in order but in pieces of any size, so every read can end
  in the middle of a line or of its delimiter, or bring several lines and frames;
- the peer closes or resets at any time, before or after bytes that are still to
  be read;
- write(2) takes some of the bytes;
- malloc(3), realloc(3), socket(2), connect(2) and a read of /dev/urandom fail, and
  an assertion then ends the process in the middle of what it was doing;
- the process exits with bytes in flight and bytes unread;
- one static array (`websocket.c:206`) backs the reader of every connection;
- lengths meet the size of an array, of a byte, of a capacity exactly.

What has to be right: the reader neither loses, repeats nor reorders a byte; a
line it hands out is one line; success of `ws_connect` means a verified answer
to the key that was sent, with the header consumed and nothing behind it; the
peer decodes the messages that were sent, also from a process that exits at once;
no buffer is overrun, whatever allocation fails; the codecs compute what their
standards define. `PROJECT.json` lists, under "hazards", the
lines at which each of these could go wrong.

## 2. The modules

| module | models | state and actions |
|---|---|---|
| `ByteStream` | what a reader promises | the bytes sent and the bytes handed out; abstract |
| `BufReader` | `libs/buff_io.h` | `mem`, `len` of the code, plus the peer (`sent`, `rcvd`, `peer`) and what the caller saw (`out`, `last`); one action per function, one disjunct per way it ends |
| `WsConnect` | `ws_connect` | an instance of `BufReader` for all contexts on one array, and the control of the call: `pc` between system calls, `key`, `httpLine`, `headers`; the server as environment |
| `MessageChannel` | what sending promises | messages submitted and received; abstract |
| `FrameWriter` | `ws_send_message` down to write(2) | the stage (which `write_exact`), `wrote`, the bytes in flight; the peer as a decoder |
| `Session` | what a program that uses the library promises | connections, requests, answers, verdicts, messages and the exit; abstract, with `MessageChannel` inside |
| `WsClient` | `main.c` | `WsConnect` and an instance of `FrameWriter` on its connection, with the open descriptors (`fds`, `fd`) and how the process ended (`exit`, `hangup`) |
| `StringViews` | the views of `libs/bs.h`, as functions | no state |
| `StringBuilder`, `DynArray` | the growing string and array | `len`, `capacity`, the real allocation, what is stored; an operation is the set of its results |
| `UpgradeRequest` | `ws_do_http_upgrade` | extends `StringBuilder`; one step per line of the request |
| `HttpPayload` | what the parser makes of a response | `http_line`, `payload` of the code; one step per line, then the verification; every allocation may fail |
| `Words` | `uint32_t` and `uint64_t` | sequences of bits, as functions |
| `Base64`, `Sha1`, `Random` | the codecs and generators, as functions | no state |
| `Codec` | calls of the codecs and generators | an action per function; one round of SHA-1 and one word of a random buffer a step |
| `MC...` | small instances, published results | values of constants only |
| `BufReader_proofs`, `WsConnect_proofs`, `WsClient_proofs`, `FrameWriter_proofs`, `UpgradeRequest_proofs`, `HttpPayload_proofs`, `Codec_proofs` | proofs about the module of that name | |
| `Strings_proofs` | lemmas about `StringViews`, `StringBuilder` and `DynArray` | |

How the pieces compose: `WsConnect` runs the actions of `BufReader` as the calls
of its parser (`ReadStatusLine`, `ReadHeaderLine`), so the interplay of network
cuts, the shared array and the parser is one state machine. `WsClient` adds the
rest of the program: the descriptor `ws_establish_tcp_connection` is given, the
frames `FrameWriter` writes on the connection made last, and the exit. A reset is
one event of both instances (`Reset`). The response splits in two:
`WsConnect` has its network and its order, `HttpPayload` its strings, on complete
lines. `UpgradeRequest` has the text of the request, which is one write(2) in
`WsConnect`.

Names are those of the code. Where the code is zero-based, arrays here are
one-based (`data[i]` is `mem[b][i + 1]`); offsets that functions return stay
zero-based.

### Abstractions

- A line of the response is a sequence of tokens (status line with its code,
  accept header with the key it was computed from, other header, white space),
  exactly what the parser tells apart. Header names other than the accept header,
  and the two values of a header, are not distinguished.
- The accept value is the key it was computed from: SHA-1 and base64 are taken
  as injective there. Their own behaviour is checked in `Codec`.
- In `HttpPayload` a line is a sequence of words, single spaces, colons, CR and LF,
  so that trimming and splitting are what the code does; a word stands for a run of
  characters none of the functions stops at.
- A machine word is its bits in a sequence, least significant first: TLC's integers
  are narrower than `uint32_t`.
- Bytes of frames are numbers below `ByteMod`. All limits of the frame format are
  derived from it: with 256 they are the ones of the code (125, 126, 127, 0x80),
  with 16 the same boundaries lie within reach of TLC.
- A piece of a string in `StringBuilder` is its length; whether its last byte was
  replaced by NUL is kept.
- The sequence of a function's steps between two system calls is one step: the
  process has one thread and shares nothing.

### Undefined and environment-dependent behaviour

- `websocket.c:359` keeps a view of a temporary. The default build is not
  optimised and the temporary keeps a stack slot of its own, so the key is intact;
  the model takes it as intact.
- `BufReader_init` asks F_GETFD and sets F_SETFD: the socket stays blocking. So
  `WsConnect` uses the reader with `NonBlocking = FALSE`; `BufReader.cfg` uses
  `NonBlocking = TRUE` so that the EAGAIN path is covered as well.
- An assertion that fails ends the process (`aborted`, `pc = "dead"`): the default
  build has assertions. A write(2) on a reset connection returns an error or ends
  the process with SIGPIPE; both are possible in the model.
- After a store behind an allocation `UpgradeRequest` stops: anything may follow.
- The exit closes the connection. When bytes of the server are still in the socket's
  queue, the close is a reset and may discard what is in flight (`Exit`).

## 3. The runs

| run | configuration | bounds | what it shows |
|---|---|---|---|
| `buf_reader` | `BufReader.cfg` | array of 3, delimiter of 2, 4 bytes sent per connection, any number of reconnections | see below |
| `client` | `WsClient.cfg` | 2 contexts on the static array and one that asks for TLS, 2 calls, 2 keys, array of 4, answers of up to 12 tokens, 1 message, socket buffer of 2 bytes | good, bad, split, truncated and reset answers; the second call after any first one; message and exit |
| `http_payload` | `HttpPayload.cfg` | status lines of up to 5 tokens, header lines of up to 4, 2 headers in any order, 8 and 9 headers; 2 failing allocations | the parser and the verification |
| `frame_writer` | `FrameWriter.cfg` | `ByteMod` 16, 2 messages, socket buffer of 5 bytes | the peer decodes what was sent |
| `upgrade_request` | `UpgradeRequest.cfg` | paths of 0 to 130, 2 failing reallocs | no overrun without a failure, what a failure costs |
| `codec` | `Codec.cfg` | up to 5 bytes of 3 values, buffers from one byte too small to 5 too large; paddings up to 140 bytes, 3 digests, 1 accept value; 3 fills of 3, 8, 16 or 24 bytes in 3 seconds | codecs and generators against their standards |
| `buf_reader_copy` | `BufReaderCopy.cfg` | destination of 2 | violation, finding below |
| `ws_connect_split` | `WsConnectSplit.cfg` | correct answers only | violation |
| `frame_writer_long` | `FrameWriterLong.cfg` | `ByteMod` 256, a payload of 256 | violation |
| `upgrade_request_cut` | `UpgradeRequestCut.cfg` | paths of 0 to 20 | violation |
| `base64_required` | `CodecRequired.cfg` | exact output buffer | violation |
| `base64_decode` | `CodecDecode.cfg` | output buffers around the required size | violation |

Why the bounds are enough. An array of three slots with a delimiter of two holds
an empty line, a line of one byte, half a delimiter and a full array without a
delimiter; four bytes are one more than fits, so that the peer is ahead of the
array, and a byte that is neither half of the delimiter lets a half stand alone.
In `WsClient` the array of four tokens holds a line and the beginning of the
next, and every answer with headers is longer; two calls are the least that can
disturb each other, on one context and on two; a socket buffer of two bytes cuts
every frame, and the message is short because `FrameWriter.cfg` varies its length.
In `HttpPayload` five tokens are a status line with a field too many or two spaces
too few, four are a header with a second colon or with white space anywhere, and
nine headers grow the array past its first eight; two failures reach a second
one behind a first that was not looked at. Six payload lengths lie on each side of every
limit of the length byte, for two messages so that a byte left over by the first
would be met by the second, and the socket takes fewer bytes than a frame has.
Paths of up to 130 bytes take the builder through four doublings; all residues of
its capacity are met. 140 bytes are more than two blocks of SHA-1, so that all
residues of 64 occur with and without preceding blocks; the digests have one
block, two blocks of which the second is only padding, and two full ones and a
third.

### The properties

`BufReader`
- `StreamIntegrity`: bytes handed out, then bytes buffered, are the bytes read(2)
  returned on this connection.
- `OneLine`: what `read_until` hands out ends with its first delimiter.
- `ClosedMeansDrained`: the end of the stream is reported to a caller that has
  everything.
- `ImplementsByteStream`: refinement of `ByteStream`.
- `LinesDelivered`: a caller that goes on calling gets every complete line that
  fits an array. Lines longer than the array are part of it: a caller that is not
  handed the rest of what the peer sent has an array full of one line's beginning
  (`Stuck`), which `read_until` reports as -1 for ever; nothing else stops it.

`WsConnect` and `WsClient`
- `OwnResponseOnly`: the call sees the bytes of its own connection, whatever the
  shared array held.
- `FramesKept`: what the connection made last received is handed out or still in its
  buffer, through failed calls on other contexts and through messages. The connection
  made before it has lost its first frames, because both share the static array; that is
  why the property speaks of the last one (`conn`).
- `HeaderTakenExactly`: a finished call consumed the header, up to the blank line.
- `SuccessIsVerified`: success only for a 101 answer whose first accept header
  belongs to the key this server was sent, once.
- `OnlyWrongAnswersKill`: no answer that is right ends the process, in whatever
  pieces its lines arrive, as long as each is complete when it is read.
- `OwnDescriptor`: a connected context has an open descriptor that is nobody else's,
  whatever failed calls left open. That nothing ever closes a socket is in the model
  (`fds` only grows), but no property forbids it.
- `ExitSuccessDelivers`: a program that returned EXIT_SUCCESS has delivered its
  message, unless the server reset the connection or had sent frames the program
  never reads.
- `ImplementsSession`: refinement of `Session`. One request on every connection, a
  verdict that is the answer's to that request (failure as well as success), messages
  only to a server that agreed, received in order, EXIT_SUCCESS only after a message.
- `CallAdvances`: every system call of `ws_connect` makes what it still has to do
  (`ToDo`: phases, and bytes of the answer not taken) smaller.
- `ProgramEnds`: whatever its server does, the program ends (by itself or by an
  assertion), or from some moment on it waits for the server (`EndsOrWaits`): in a read
  on an open connection without bytes, or in a write to a server that has stopped
  reading. There is no timeout and the socket blocks, so a silent server does keep it for
  ever. With a server that answers, gives up connections it does not answer on and reads
  what it is sent (`ServerIsFair`) it ends.

`FrameWriter`
- `ImplementsChannel`: the peer receives the submitted messages in order and
  unchanged.
- `NoTrailingBytes`: a message that was sent is one whole frame.
- `DeathLeavesHeader`: a process that ends inside a message (no random bytes, no
  memory, a length too long) has sent its first byte or its header, or nothing.
- `WritesAdvance`: every write(2), also one that takes nothing or fails, makes what the
  message still has to do (`ToWrite`: buffers and bytes) smaller.
- `MessagesArrive`: a submitted message arrives unless the connection is reset or
  the process dies.

`HttpPayload`
- `HeadersWhole`: a process that goes on has the header of every line, whole and in
  order, whatever allocation failed. What the header of a line is is stated without
  the code's functions (`IsHeaderOf`).
- `NothingStoredOutside`: nothing is stored behind a block or through NULL.
- `VerdictIsRight`: success and failure are returned for the answers they are meant
  for. Two exceptions need a failed allocation: a lost status line is reported as a
  failed connection, and an empty accept value passes when the digest could not be
  encoded.
- `DeathHasCause`: while memory lasts only a wrong response ends the process.

`UpgradeRequest`
- `InAllocation`: without a failing realloc `capacity` is covered by the
  allocation and nothing is stored behind it. (With one, a later append does store
  behind it: the new capacity has been recorded already.)
- `OnlyAppendedLinesLost`: what a failing realloc may take from a request that is
  sent are lines appended without a look at the result, at most one for each
  failure; the blank line at the end can be one of them.
- `RequestLineWhole`: the request line never loses its last byte.

`Codec`
- `EncodesTheBits`, `EncodeFits`, `RoundTrip`, `PaddingIsStandard`: RFC 4648, the
  output buffer, which bytes survive the decoder, FIPS 180.
- `DigestIsPublished`, `SeedIsPublished`: the digests of FIPS 180,
  the accept value of RFC 6455 and published values of splitmix64 come out, round by
  round and with the machine's byte order.
- `FillsAgree`: the whole words of random buffers are filled from one sequence. A call
  returns exactly when they are all: `libs/rng_xoroshiro.c:63` asserts
  `offset + i > len` where `offset + i` is always below `len`, so that each length that is
  not a multiple of eight ends the process. The only caller asks for 16 bytes.
- `KeysTellSeconds`: two keys are equal exactly when they were drawn in one second.

### Findings

Each violation run checks one statement of the code that the code does not keep:
1. `libs/buff_io.h:110` asserts that the line fits, without its delimiter.
2. `websocket.c:325` ends the process when a line has not arrived completely.
3. `websocket.c:404` asserts a limit on a length it has truncated to a byte.
4. `websocket.c:299` with `libs/bs.h:426`: with a path of ten characters the key
   line is sent with NUL for its newline.
5. `libs/base64.h:16`: the required size is not enough for multiples of three.
6. `libs/base64.c:131` stores a byte behind the buffer it asserts to respect.

### Fairness

`BufReader`: weak fairness of `read_until`, that is, a caller that keeps calling.
`WsClient`: weak fairness of the program's own steps (`Main`: it runs on until it blocks,
and its calls come to an end) and nothing of the server. The second
half of `ProgramEnds` has what it needs of the server as its hypothesis `ServerIsFair`, an
assumption the code needs because it has no timeout and its socket blocks; the first half,
`EndsOrWaits`, does without it.
`FrameWriter`: weak fairness of the writer's own steps and of the peer reading and
decoding. Nothing is assumed of resets or of closing.

## 4. The proofs

`BufReader_proofs` proves for every set of readers, capacity, delimiter, alphabet
and bound:
- `TypeCorrect`: `Spec => []TypeOK`;
- `Integrity`: `Spec => []StreamIntegrity`;
- `Refinement`: the reader implements `ByteStream`;
- `EndIsTheEnd`: `Spec => []ClosedMeansDrained`;
- `Framing`: `Spec => []OneLine`.

`Integrity`, `Refinement` and `EndIsTheEnd` assume `OwnBuffers`: no two readers share
an array. In the program they do share one, but only one connection is read at a time
and `BufReader_init` starts it afresh; `WsConnect_proofs` is about that case.
`TypeCorrect` and `Framing` need no such assumption; `OneLine` is inductive with
`TypeOK`, because it follows from the one step that hands out a line: `bs_find` gave the
least match, and the copy ends behind it.

`StreamIntegrity` is an equation between sequences built by concatenation and is
not convenient to carry through a memmove. The inductive invariant `IInv` states it
with counters and byte by byte: `rcvd` is what was handed out plus `len`, does not
exceed what was sent, and the i-th byte handed out or buffered is the i-th byte sent.
The proof of a step goes through three lemmas about the operators, advance, fill
and copy, which say what each does to the bytes; the calls are then combinations of a
fill (or none) and a hand-out (or none), and everything about other readers follows
from `OwnBuffers`. `IntegrityOfSequences` turns the byte-wise statement back into
the equation.

For the refinement, sent and handed-out bytes map to themselves; a hand-out is
`Deliver` of as many bytes as the call returned, a `PeerSend` is `Send`,
`BufReader_init` is `Restart`, and every other step stutters.

`WsConnect_proofs` proves four properties of ws_connect and `WsClient_proofs` the same
four for the whole program (`ClientSpec`), for every number of contexts on the one
static array, every number of calls and every set of answers:
- `OwnResponse` (`OwnResponseOnly`). The proof instantiates `BufReader_proofs` and uses
  its lemmas about one reader, which do not need `OwnBuffers`: the invariant `OInv`
  claims the byte-wise integrity of the reader of `cur` only. A call of ws_connect
  starts it (`AttachIntegrity`), a line read keeps it (`EffectIntegrity`), and it is
  given up when the call returns. The program adds one kind of step, a connection that
  ends between two calls, which changes no byte.
- `HeaderExact` (`HeaderTakenExactly`). `HInv` adds what the lines read so far are: each
  ends with the only line break in it (from the lemmas under `Framing`), the blank line
  comes last and only once, and what was handed out is a prefix of what was sent. So
  the first blank line of the answer is where the call stopped.
- `SuccessVerified` (`SuccessIsVerified`). The same invariant relates `httpLine` and
  `headers` to the lines handed out; a token of the header that is a status line or an
  accept header is the first of its line, so the parser has it.
- `OnlyWrongKill` (`OnlyWrongAnswersKill`). `KInv` carries the cause of a death from the
  step that dies, and says of the headers kept that each is one whole line.

`SuccessVerified` assumes `AnswersStartLines`, that no answer has a status line or an
accept header behind white space: the property is stated with the tokens of the answer,
the parser trims the line, and for an answer the assumption excludes the two would
disagree about what the first accept header is. `OnlyWrongKill` assumes
`AnswersWellFormed`: besides that, that line breaks are CR LF, that an accept header is
its value and white space, and that the lines fit the line buffer (a longer one fails an
assertion, finding 1). Both are hypotheses of the theorems and not of the model; TLC
evaluates them for the answers of the runs (`MCWsConnect`).

`WsClient_proofs` also proves `ClientTypeCorrect` (`ClientTypeOK`),
`DescriptorsOfTheirOwn` (`OwnDescriptor`) and `SuccessDelivers`
(`ExitSuccessDelivers`). The invariant of the descriptors says of every context,
connected or not, that its descriptor is 0 or its own, and that whoever reads a response
has one; that socket(2)'s least free number exists is proved from the finiteness of
`fds`, which needs the assumption that `Ctx` is finite. For `SuccessDelivers` the program
carries the frame writer's invariant (below) for its one connection: the connection made
last is fresh, a message is sent only on it, and an exit with success finds the writer
idle.

`LastConnectionKeeps` (`FramesKept`) adds to `OInv`, which speaks of the call in progress,
the invariant `KeptInv`, which claims the same of the connection made last: while a call is
made on it `OInv` gives it (`KeptInCall`), a call on another context either fails before
it attaches its reader or becomes the connection made last, and no message touches a
buffer (`KeptStutter`).

`SessionRefinement` is the refinement of `Session` (`ImplementsSession`) by the whole
program, for every number of contexts and calls, any answers that start their lines
(`AnswersStartLines`) and any payload the assertion judges rightly (below). The mapping
takes the keys the server was sent (`request`), what it answered (`sent`) and the
messages as they are, and the verdict of every context but the one whose call is in
progress. Sending the request, the answer, the return, a message and the exit are the
steps of that name; the reads, the writes of a frame and the death of a process stutter.
The invariant `SInv` joins those of the handshake, the descriptors and the frames, and
adds that what a server sent is part of one of its answers and that the connection made
last has a verdict when no call is in progress. Two things had to be shown that no other theorem
says. `SuccessVerified` has only one direction, and a verdict of failure, too, has to be
the answer's: WS_CONNECTION_FAILURE is returned after a status line that is not 101, and
a wrong accept header ends the process instead of returning. And what the peer receives
after an exit that reset the connection is still a prefix of what was submitted: for the
writer such an exit is a reset (`Broken`).

`CallAdvance` and `CallAdvanceInProgram` (`CallAdvances`), and `Advance`
(`WritesAdvance`) of `FrameWriter_proofs`, are what can be proved of termination here:
the measures are natural numbers and every step of the code makes them smaller, so that
a call and a message take a bounded number of system calls. That the steps are taken is
fairness, and stays with TLC. For a call the invariant has to say that an answer is no
longer than its bound and that no more was handed out than was sent; for a message (`AInv`), that
`write_exact` never counts more than its buffer holds. Neither needs an assumption.

`FrameWriter_proofs` proves for every byte width, every set of payloads and keys and
every socket: `TypeCorrect` (`TypeOK`), and, assuming `AssertionTells`, `WholeFrames`
(`NoTrailingBytes`), `DeathBetweenBuffers` (`DeathLeavesHeader`) and `Refinement`
(`ImplementsChannel`). The inductive invariant `FInv` says that there are places in the
stream of bytes, one for every message submitted, and keys such that between two places
lies the frame of that message; the decoder stands at a place, what is in the inbox and
in flight lies behind it, and a writer inside a message has written a prefix of its
frame. The places are needed because the equation "inbox, flight and rest are the frames
of what was not yet received" cannot be kept by a step that moves one byte without
induction over the messages. From `FInv` a decoded message is the next one submitted:
decoding is `Receive` of the abstract channel, submitting is `Submit`, and every other
step stutters. `AssertionTells` says that a payload the assertion on the truncated
length admits is short; without it the theorems are false (finding 3). It is evaluated
for the payloads of `FrameWriter.cfg` and `WsClient.cfg`.

`Strings_proofs` has what the functions of `libs/bs.h` and `libs/dyn_array.h` return,
for views, builders and arrays of any size: `TrimCuts` (bs_trim leaves a part of the view
with white space around it, and no white space at its ends unless there is nothing
else), what a search and a split return, what an append to a builder and an array keep,
and `ReservedExceeds`: the power of two that is reserved is larger than the request. The
last one is about a loop; `log2i` is the number it stops at, and `PowerOfTwo` a recursive
function because the prover knows nothing of `2 ^ n` for a variable `n`. That the
recursion defines a function is `PowersOfTwo`, from the finite tables below every number;
all induction there is goes by the least element of the set of counterexamples.

`UpgradeRequest_proofs` proves for every length of the path and any number of failed
allocations: `TypeCorrect` (`TypeOK`), `StaysInAllocation` (`InAllocation`),
`RequestLineUncut` (`RequestLineWhole`) and `LinesLost` (`OnlyAppendedLinesLost`). The
inductive invariant `AllocInv` says that the length is within the capacity, always, and
the capacity within the allocation while nothing failed, and that the builder is empty
before the request line; a line keeps it because a reservation exceeds what it was asked
for. `LinesLost` has its own, which follows the
lines attempted so far: increasing, below the next one, complete in the checked ones,
and as many missing as allocations failed.

`HttpPayload_proofs` proves for every response and any failed allocations all five
invariants of the module: `TypeCorrect` (`TypeOK`), `HeadersKept` (`HeadersWhole`),
`StoresInside` (`NothingStoredOutside`), `Verdict` (`VerdictIsRight`) and `Death`
(`DeathHasCause`). The invariant `ParseInv` adds to the first of them how far the parser
is, that the status line is trimmed or lost with an allocation, and that the list's
allocation has its capacity as long as the process lives. That the functions of the code
agree with the reading of the lines in the properties is proved without state:
`HeaderParsed` (trim, split at the first colon, trim again), `HeaderOnce` (a line has one
header), `CodeOfLine` (splitting the trimmed line twice finds the field between its first
two spaces, and the assertion fails exactly if there is none or it is empty), `FoundHas`
and `HasFound` (the header looked up is the first in the response). The proofs need that
a blank is white space and a colon is not (`SpaceAssumption`), and that no line is empty
(`ResponseAssumption`): it has at least its line break.

`Codec_proofs` proves for every input the invariants of `Codec` that are not about
published values:
- `StandardPadding` (`PaddingIsStandard`): the last blocks hold the rest, the padding and
  the length exactly, for messages of every length.
- `TextIsStandard` (`EncodesTheBits`) and `Fits` (`EncodeFits`), for data of every length
  and every size of the output buffer. The code of base64_encode is modelled index by
  index, so no induction is needed: the values of a triple are the six-bit digits of its
  number (`QuadBits`), a rest is a triple filled up with zeros, and `EncodeResult` says of
  one call what it returns or how it ends. The invariant `EncodeInv` says that the result
  a behaviour keeps is that of the data and the buffer it keeps.
- `Returned` (`RoundTrip`), from `EncodeResult`, `TripleSurvives` (decoding the four
  values of any three bytes gives the bytes) and `ValueSurvives` (the alphabet), with
  `DecodeResult` for the call of base64_decode and the invariant `DecodeInv` that relates
  its result to the text. The proof has a case for each rest: a rest of one byte survives
  without padding as well, of a rest of two the first.
- `SameSecondSameBytes` (`FillsAgree`), for every set of lengths and any number of calls.
  Two calls agree because both draw from the contexts that follow one another from the
  seed of their second. `FillInv` therefore says that there are such contexts (`Chain`),
  as many as were needed so far, that every buffer holds the bytes of whole words of them
  in order (`Holds`), and that the call in progress is at the context its next word comes
  from. The chain is asserted to exist rather than defined by recursion, which would need
  an induction over data; a step makes it longer by one context if no call has been there
  before (`ChainGrows`). `RestFails` says that the assertion behind the whole words holds only
  for multiples of eight, so a call that returns holds whole words and nothing else. The lengths are natural numbers (`LengthAssumption`: they are
  `size_t`), and `Sample` holds bytes (`SampleAssumption`).
- `KeysAreTold` (`KeysTellSeconds`), for any seconds and any number of connections. It
  puts the two chains above together: the 16 bytes of a fill are those `KeyBytes` has for
  its second, by `FillInv`; base64_encode turns any 16 bytes into 24 characters without
  failing (`KeyEncoded`, from `EncodeResult`), which decode to the bytes (`KeyDecoded`,
  `WholeBack`), so that different bytes have different keys. That the generator draws
  different bytes in different seconds is the theorem's hypothesis `GeneratorTells`: of
  all the seconds there are it is not known, and it is not assumed of the model. Only "same key, same second" uses it. The
  run shows it for its seconds. Seconds are natural numbers (`SecondsAssumption`:
  time_t after 1970).

`Codec_proofs` also says what the words of `Words` compute. `Plus` adds words byte by
byte with a carry; `Sum64` and `Sum32` say that for up to eight words of 64 or 32 bits the
result is a word of that width and that its number is the sum of their numbers modulo
2^64 or 2^32. The generators and SHA-1 add with it. Every column and the carry that
enters it are the byte that is kept and 256 times the carry that leaves it; the eight
equations are combined in two halves because the solver does not handle numbers of 64
bits in one obligation.

The inductive invariants over data that TLC can enumerate (`AllocInv`, `ParseInv`,
`EncodeInv`, `DecodeInv`, the invariants of the handshake) were checked with TLC on the
instances of the runs before they were proved, or on smaller ones. `FillInv` quantifies
over functions on sequences of words and is only proved.

Only model-checked:
- the liveness properties `LinesDelivered`, `ProgramEnds` and `MessagesArrive`: the
  prover does not handle fairness and ENABLED;
- the published values (`DigestIsPublished`, `SeedIsPublished`): a
  computation for given inputs, which TLC evaluates;
- that the generator tells the seconds of the run apart (`GeneratorTells`), which
  `KeysTellSeconds` shows there.

No module declares a RECURSIVE operator: what is recursive (`PowerOfTwo`, the carries of
`Words`) is a recursive function, so that any module can be proved about.

## 5. What is not modelled

- `bs_escape`, `bs_escape_wid_writer`, `bs_eq_ignore_case`, `bs_builder_reset`, the
  macros of `libs/dyn_array.h` but `da_append`, `crng_next_i64`, `crng_deinit`, the
  conversions of `libs/extint.h` nobody calls: without a caller there is no state they
  could be in; `jump` is unimplemented;
- `ws__read_raw` and the commented-out decoder of frames (`websocket.c` 1-118): no
  caller;
- base64_decode of characters outside the alphabet: `_base64_value_for_data`'s inverse
  ends the process there, and no caller passes any;
- heap blocks as a resource: what is never freed (`websocket.c:386`);
- a send on a context that was never connected, which no program here makes;
- the values masking keys take (the kernel's), beyond that there are several;
- logging, error strings, the build, the test drivers.

## 6. Plan

Done: the modules above, in this order (reader, handshake, sender, request, codecs,
the program, the response's strings, the words under SHA-1 and the generators), and the
proofs of section 4.

Left: the invariants TLC alone checks are computations for given inputs, and liveness,
which the prover does not handle. Of the words, sums are proved, the rotations and the
products of the generators (`Times`) are not; whether two seconds can have one key is a
question about the generator that these proofs do not answer.
