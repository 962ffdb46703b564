\* Two calls, on one context or on two that share the static array or on one
\* that asks for TLS, and one message.
SPECIFICATION FairClientSpec
CONSTANTS
  Ctx = {c1, c2, c3}
  IsTls = {c3}
  Key = {1, 2}
  Capacity = 4
  DestLen = 2
  Response <- MCResponse
  MaxLen = 12
  MaxAttempts = 2
  ByteMod = 16
  ByteXor <- MCByteXor
  Payload <- MCPayload
  MaskKey <- MCMaskKey
  SendBuffer = 2
  MaxMessages = 1
INVARIANTS ClientTypeOK OwnResponseOnly FramesKept HeaderTakenExactly SuccessIsVerified OnlyWrongAnswersKill OwnDescriptor ExitSuccessDelivers
PROPERTIES ImplementsSession CallAdvances ProgramEnds
\* The program exits, or a failed assertion ends it.
CHECK_DEADLOCK FALSE
