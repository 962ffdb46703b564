\* Eight-bit bytes and one payload of 256 bytes.
SPECIFICATION Spec
CONSTANTS
  ByteMod = 256
  ByteXor <- MCByteXor
  Payload <- MCWrappedPayload
  MaskKey <- MCMaskKey
  SendBuffer = 300
  MaxMessages = 1
INVARIANT AssertedLengthIsInline
CHECK_DEADLOCK FALSE
