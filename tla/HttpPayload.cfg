\* Status lines of up to five tokens, header lines of up to four, lists of up to
\* nine headers; any two allocations may fail.
SPECIFICATION Spec
CONSTANTS
  Space <- MCSpace
  Token <- MCToken
  Response <- MCResponse
  Accept = "Accept"
  Digest = "digest"
  MaxOoms = 2
INVARIANTS TypeOK HeadersWhole NothingStoredOutside VerdictIsRight DeathHasCause
\* ws_connect returns, or the process ends.
CHECK_DEADLOCK FALSE
