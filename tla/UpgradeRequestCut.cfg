\* Every path of up to 20 characters; no call of realloc fails.
SPECIFICATION Spec
CONSTANTS
  MaxPath = 20
  MaxOoms = 0
INVARIANT KeyLineWhole
CHECK_DEADLOCK FALSE
