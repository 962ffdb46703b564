------------------------------ MODULE HttpPayload ------------------------------
(***************************************************************************)
(* What websocket.c makes of the lines of a response: the list of headers, *)
(* each in two strings of its own, the status code and the verification of *)
(* the accept value, when any allocation may fail.                         *)
(*                                                                         *)
(* The lines arrive complete and in order: how they get through the        *)
(* network is WsConnect's subject, which takes a parsed line for a token.  *)
(* The digest is a token too: the accept value of the key, which Codec     *)
(* computes.  An assertion that fails and a NULL dereference end the       *)
(* process (pc = "dead").                                                  *)
(***************************************************************************)
EXTENDS StringBuilder, DynArray, StringViews

CONSTANTS
  Token,    \* what a line consists of
  Response, \* the responses a server may send: the lines before the blank one
  Accept,   \* the token "Sec-WebSocket-Accept"
  Digest,   \* the accept value of the key of this connection
  MaxOoms   \* bound: allocations that fail

ASSUME OomAssumption == MaxOoms \in Nat
ASSUME ResponseAssumption ==
  /\ {Accept, Digest} \subseteq Token
  /\ Response \subseteq Seq(Seq(Token))
  /\ \A r \in Response : r # <<>> /\ \A i \in DOMAIN r : r[i] # <<>>
(* isspace(3) of the two characters the lines are split at.                *)
ASSUME SpaceAssumption == " " \in Space /\ ":" \notin Space

VARIABLES
  response,  \* what the server sends
  read,      \* how many of its lines have been read
  pc,        \* the next step, or how the process ended
  http_line, \* payload.http_line
  payload,   \* payload.items, len and capacity
  overrun,   \* a byte was stored behind an allocation
  ooms,      \* failed allocations
  result     \* what ws_connect returned

vars == <<response, read, pc, http_line, payload, overrun, ooms, result>>

WS_SUCCESS == "WS_SUCCESS"
WS_CONNECTION_FAILURE == "WS_CONNECTION_FAILURE"

TypeOK ==
  /\ response \in Response
  /\ read \in 0 .. Len(response)
  /\ pc \in {"status", "headers", "verify", "returned", "dead"}
  /\ http_line.null \in BOOLEAN
  /\ Len(payload.items) <= payload.capacity
  /\ payload.alloc <= payload.capacity
  /\ payload.overrun \in BOOLEAN /\ overrun \in BOOLEAN
  /\ ooms \in 0 .. MaxOoms
  /\ result \in {"none", WS_SUCCESS, WS_CONNECTION_FAILURE}

-------------------------------------------------------------------------------
(* The allocating helpers.                                                 *)

Text(b) == IF b.pieces = <<>> THEN <<>> ELSE b.pieces[1]

(* A failed clone is a NULL view.                                          *)
bs_clone(str) ==
  {[ooms |-> Failed(r), view |-> IF r.ok THEN View(str) ELSE NullView] :
     r \in bs_builder_reserve_exact(bs_builder_new, Len(str))}

(* The owned copy of a key or a value: neither the reservation nor the     *)
(* append is looked at.                                                    *)
OwnedCopy(str) ==
  UNION { {[ooms |-> Failed(r) + Failed(a), b |-> a.b] :
             a \in bs_builder_append_sv(r.b, str, Len(str))} :
          r \in bs_builder_reserve_exact(bs_builder_new, Len(str)) }

-------------------------------------------------------------------------------
(* ws__http_read_header.                                                   *)

Fails(n) == ooms' = ooms + n /\ ooms' <= MaxOoms

ReadStatusLine ==
  /\ pc = "status"
  /\ read' = 1
  /\ \E clone \in bs_clone(bs_trim(response[1])) :
       Fails(clone.ooms) /\ http_line' = clone.view
  /\ pc' = "headers"
  /\ UNCHANGED <<response, payload, overrun, result>>

\* Mutated form of _http_payload_append_header: the assertion is dropped.
_http_payload_append_header_Unchecked(header, failed) ==
  \E a \in da_append(payload, header) :
    /\ Fails(failed + Failed(a))
    /\ payload' = a.xs
    /\ UNCHANGED pc

_http_payload_append_header(header, failed) ==
  \E a \in da_append(payload, header) :
    /\ Fails(failed + Failed(a))
    /\ payload' = a.xs
    /\ pc' = IF a.ok THEN pc ELSE "dead"

(* A line without a colon is a value under an empty key.                   *)
_http_parse_header(line) ==
  LET split == bs_split_once_by_delim(bs_trim(line), ":")
      key == bs_trim(split.chopped.text)
      value == bs_trim(split.rest)
  IN  \E k \in OwnedCopy(key), v \in OwnedCopy(value) :
        /\ overrun' = (overrun \/ k.b.overrun \/ v.b.overrun)
        /\ \/ /\ k.b.len = Len(key) /\ v.b.len = Len(value)
              /\ _http_payload_append_header([key |-> Text(k.b), value |-> Text(v.b)],
                                             k.ooms + v.ooms)
           \/ /\ k.b.len # Len(key) \/ v.b.len # Len(value)
              /\ Fails(k.ooms + v.ooms)
              /\ pc' = "dead"
              /\ UNCHANGED payload

(* A line of white space is unreachable code.                              *)
ReadHeaderLine ==
  /\ pc = "headers"
  /\ read < Len(response)
  /\ read' = read + 1
  /\ \/ /\ bs_trim(response[read + 1]) # <<>>
        /\ _http_parse_header(response[read + 1])
     \/ /\ bs_trim(response[read + 1]) = <<>>
        /\ pc' = "dead"
        /\ UNCHANGED <<payload, overrun, ooms>>
  /\ UNCHANGED <<response, http_line, result>>

ReadBlankLine ==
  /\ pc = "headers"
  /\ read = Len(response)
  /\ pc' = "verify"
  /\ UNCHANGED <<response, read, http_line, payload, overrun, ooms, result>>

-------------------------------------------------------------------------------
(* The rest of ws_connect.                                                 *)

(* The second field of the status line.  A NULL line has a NULL code; of   *)
(* any other the code is asserted to be there (dies).                      *)
_http_status_code(line) ==
  LET version == bs_split_once_by_bs(line.text, <<" ">>)
      code == bs_split_once_by_bs(version.rest, <<" ">>).chopped
  IN  IF line.null THEN [dies |-> FALSE, code |-> <<>>]
      ELSE [dies |-> code.null \/ code.text = <<>>, code |-> code.text]

\* Mutated form of _http_payload_header_get: the last one.
_http_payload_header_get_Last(items, key) ==
  {i \in DOMAIN items :
     items[i].key = key /\ \A j \in i + 1 .. Len(items) : items[j].key # key}

(* The first header with this key, if any.                                 *)
_http_payload_header_get(items, key) ==
  {i \in DOMAIN items :
     items[i].key = key /\ \A j \in 1 .. i - 1 : items[j].key # key}

KeyAndGuid == 60
DigestRequired == 32

(* What base64_encode leaves in a buffer of this size, its status unseen.  *)
Encoded(size) == IF size < 28 THEN <<>> ELSE <<Digest>>

(* How many allocations fail and whether the assertions hold.              *)
_ws_verify_websocket_sec_key(value) ==
  UNION { IF ~k.ok THEN {[ooms |-> 1, alive |-> FALSE]}
          ELSE {[ooms |-> Failed(d), alive |-> value = Encoded(d.b.capacity)] :
                  d \in bs_builder_new_alloc(DigestRequired)} :
          k \in bs_builder_vsprintf(bs_builder_new, "key", KeyAndGuid) }

(* A response without the header is dereferenced all the same.             *)
VerifyResponse ==
  /\ pc = "verify"
  /\ LET status == _http_status_code(http_line)
         found == _http_payload_header_get(payload.items, <<Accept>>)
     IN  \/ /\ ~status.dies
            /\ status.code # <<"101">>
            /\ result' = WS_CONNECTION_FAILURE /\ pc' = "returned"
            /\ UNCHANGED ooms
         \/ /\ ~status.dies
            /\ status.code = <<"101">>
            /\ \E i \in found :
                 \E v \in _ws_verify_websocket_sec_key(payload.items[i].value) :
                   /\ Fails(v.ooms)
                   /\ \/ v.alive /\ result' = WS_SUCCESS /\ pc' = "returned"
                      \/ ~v.alive /\ pc' = "dead" /\ UNCHANGED result
         \/ /\ status.dies \/ (status.code = <<"101">> /\ found = {})
            /\ pc' = "dead"
            /\ UNCHANGED <<ooms, result>>
  /\ UNCHANGED <<response, read, http_line, payload, overrun>>

Init ==
  /\ response \in Response
  /\ read = 0
  /\ pc = "status"
  /\ http_line = NullView
  /\ payload = da_new
  /\ overrun = FALSE
  /\ ooms = 0
  /\ result = "none"

Next == ReadStatusLine \/ ReadHeaderLine \/ ReadBlankLine \/ VerifyResponse

Spec == Init /\ [][Next]_vars

-------------------------------------------------------------------------------
(* A reading of the lines that does not follow the code.                   *)

(* text is str without the white space around it.                          *)
Trimmed(str, text) ==
  /\ text # <<>> => text[1] \notin Space /\ text[Len(text)] \notin Space
  /\ \E i \in 0 .. Len(str) - Len(text) :
       /\ SubSeq(str, i + 1, i + Len(text)) = text
       /\ \A j \in (1 .. i) \cup (i + Len(text) + 1 .. Len(str)) : str[j] \in Space

Colons(line) == {i \in DOMAIN line : line[i] = ":"}

(* The header of a line: around its first colon, or all of it the value.   *)
IsHeaderOf(line, header) ==
  \/ /\ Colons(line) = {}
     /\ header.key = <<>>
     /\ Trimmed(line, header.value)
  \/ \E c \in Colons(line) :
       /\ \A d \in Colons(line) : c <= d
       /\ Trimmed(SubSeq(line, 1, c - 1), header.key)
       /\ Trimmed(SubSeq(line, c + 1, Len(line)), header.value)

(* The field between the first two single spaces behind the line's leading *)
(* white space, both before its last word.                                 *)
HasCode(line, code) ==
  \E a, b, e \in DOMAIN line :
    /\ a < b /\ b < e /\ line[a] = " " /\ line[b] = " " /\ line[e] \notin Space
    /\ \A i \in 1 .. b - 1 : line[i] = " " => i = a \/ \A j \in 1 .. i : line[j] \in Space
    /\ \E i \in 1 .. a - 1 : line[i] \notin Space
    /\ code = SubSeq(line, a + 1, b - 1)

(* The first accept header of the response has this value.                 *)
HasAccept(r, value) ==
  \E i \in 2 .. Len(r) :
    /\ IsHeaderOf(r[i], [key |-> <<Accept>>, value |-> value])
    /\ \A j \in 2 .. i - 1 :
         \A c \in Colons(r[j]) :
           (\A d \in Colons(r[j]) : c <= d) => ~Trimmed(SubSeq(r[j], 1, c - 1), <<Accept>>)

-------------------------------------------------------------------------------
(* Properties.                                                             *)

(* Whatever allocation failed, a process that goes on has every header of  *)
(* the lines read so far, whole and in order.                              *)
HeadersWhole ==
  pc # "dead" =>
    /\ Len(payload.items) = IF read = 0 THEN 0 ELSE read - 1
    /\ \A i \in DOMAIN payload.items : IsHeaderOf(response[i + 1], payload.items[i])

(* Whatever allocation failed, nothing is stored behind a block or through *)
(* a NULL pointer: the unchecked reservations of _http_parse_header are    *)
(* harmless because the appends that follow reserve again.                 *)
NothingStoredOutside == ~overrun /\ ~payload.overrun

(* ws_connect returns WS_SUCCESS only for a 101 answer whose first accept  *)
(* header is the digest, and WS_CONNECTION_FAILURE only for another code.  *)
(* A failed allocation can change that: the status line may be lost, and   *)
(* an empty accept value equals the digest nobody could encode.            *)
VerdictIsRight ==
  /\ result = WS_SUCCESS =>
       /\ HasCode(response[1], <<"101">>)
       /\ HasAccept(response, <<Digest>>) \/ (ooms > 0 /\ HasAccept(response, <<>>))
  /\ result = WS_CONNECTION_FAILURE =>
       ~HasCode(response[1], <<"101">>) \/ (ooms > 0 /\ http_line.null)

(* As long as memory lasts, only a response that is wrong ends the         *)
(* process: a blank header line, a status line without a code between two  *)
(* spaces, or a 101 answer without the digest.                             *)
DeathHasCause ==
  pc = "dead" /\ ooms = 0 =>
    \/ \E i \in 2 .. Len(response) : Trimmed(response[i], <<>>)
    \/ ~\E i, j \in DOMAIN response[1] :
          i < j /\ HasCode(response[1], SubSeq(response[1], i, j - 1))
    \/ HasCode(response[1], <<"101">>) /\ ~HasAccept(response, <<Digest>>)
===============================================================================
