\* Two messages in four-bit bytes, over a socket that holds five of them.
SPECIFICATION FairSpec
CONSTANTS
  ByteMod = 16
  ByteXor <- MCByteXor
  Payload <- MCPayload
  MaskKey <- MCMaskKey
  SendBuffer = 5
  MaxMessages = 2
INVARIANTS TypeOK NoTrailingBytes DeathLeavesHeader
PROPERTIES ImplementsChannel WritesAdvance MessagesArrive
\* The program sends its last message and ends, or an assertion ends it.
CHECK_DEADLOCK FALSE
