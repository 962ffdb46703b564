\* Text that is decoded into buffers around the required size.
SPECIFICATION Spec
CONSTANTS
  Sample = {0, 109}
  MaxData = 3
  MaxSlack = 4
  MaxMessage = 0
  Digests <- MCDigests
  Accepts <- MCAccepts
  Seconds = {}
  Seeds <- MCSeeds
  Lengths = {}
  MaxFills = 0
INVARIANT DecodeStoresInside
CHECK_DEADLOCK FALSE
