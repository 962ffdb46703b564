\* Every path of up to 130 characters; two calls of realloc may fail.
SPECIFICATION Spec
CONSTANTS
  MaxPath = 130
  MaxOoms = 2
INVARIANTS TypeOK InAllocation OnlyAppendedLinesLost RequestLineWhole
\* The request is sent, an assertion fails, or memory is overwritten.
CHECK_DEADLOCK FALSE
