----------------------------- MODULE MCFrameWriter -----------------------------
(* Small instances of FrameWriter.                                         *)
EXTENDS FrameWriter, Bitwise

MCByteXor(a, b) == a ^^ b

\* A payload of n bytes, no two neighbours equal and the fifth not the first.
Bytes(n) == [i \in 1 .. n |-> (i * 5) % ByteMod]

\* Short payloads, the longest the assertion admits, and all those between
\* it and the first length the truncation to a byte makes short again.
MCPayload == {Bytes(n) : n \in {0, 1, LenMax - 1, LenMax, Marker16, ByteMod - 1}}

\* The first such length.
MCWrappedPayload == {Bytes(ByteMod)}

MCMaskKey == {<<1, 6, 11, 12>>, <<0, 0, 0, 0>>}

ASSUME TellAssumption == Payload = MCPayload => AssertionTells
===============================================================================
