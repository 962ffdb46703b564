------------------------------ MODULE MCWsClient ------------------------------
(* A small instance of WsClient: the answers of MCWsConnect and one short   *)
(* message.                                                                *)
EXTENDS WsClient, MCWsConnect, Bitwise

MCByteXor(a, b) == a ^^ b
MCPayload == {<<5>>}
MCMaskKey == {<<1, 6, 11, 12>>}

ASSUME TellAssumption == F!AssertionTells
===============================================================================
