\* Data of up to five bytes, buffers around the required size, and messages of
\* up to three blocks.
SPECIFICATION Spec
CONSTANTS
  Sample = {0, 109, 254}
  MaxData = 5
  MaxSlack = 5
  MaxMessage = 140
  Digests <- MCDigests
  Accepts <- MCAccepts
  Seconds = {1234567, 1700000000, 1700000001}
  Seeds <- MCSeeds
  Lengths = {3, 8, 16, 24}
  MaxFills = 3
INVARIANTS EncodesTheBits EncodeFits RoundTrip PaddingIsStandard DigestIsPublished SeedIsPublished FillsAgree KeysTellSeconds
\* The calls come to an end.
CHECK_DEADLOCK FALSE
