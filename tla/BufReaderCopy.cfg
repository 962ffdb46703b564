\* The copy of a line whose delimiter begins in the last byte of the caller's
\* destination.
SPECIFICATION Spec
CONSTANTS
  Reader = {r1}
  Buffer = {r1}
  BufferOf <- MCBufferOf
  Capacity = 4
  DestLen = 2
  Byte <- MCByte
  Nul = "nul"
  Until <- MCUntil
  NonBlocking = FALSE
  MaxRead = 0
  MaxSent = 4
INVARIANT CopyFitsDestination
CHECK_DEADLOCK FALSE
