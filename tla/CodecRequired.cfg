\* An output buffer of exactly the required size.
SPECIFICATION Spec
CONSTANTS
  Sample = {0, 109}
  MaxData = 3
  MaxSlack = 0
  MaxMessage = 0
  Digests <- MCDigests
  Accepts <- MCAccepts
  Seconds = {}
  Seeds <- MCSeeds
  Lengths = {}
  MaxFills = 0
INVARIANT RequiredSizeSuffices
CHECK_DEADLOCK FALSE
