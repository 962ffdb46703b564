\* One reader of an array that holds two short lines, the peer sends one byte
\* more; the descriptor may have nothing to read.
SPECIFICATION FairSpec
CONSTANTS
  Reader = {r1}
  Buffer = {r1}
  BufferOf <- MCBufferOf
  Capacity = 3
  DestLen = 2
  Byte <- MCByte
  Nul = "nul"
  Until <- MCUntil
  NonBlocking = TRUE
  MaxRead = 2
  MaxSent = 4
INVARIANTS TypeOK StreamIntegrity OneLine ClosedMeansDrained
PROPERTIES ImplementsByteStream LinesDelivered
\* A blocking read waits for a silent peer and an assertion ends the process.
CHECK_DEADLOCK FALSE
