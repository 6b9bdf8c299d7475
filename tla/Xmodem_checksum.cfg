SPECIFICATION Spec
CONSTANTS
  File <- MCFile
  b1 = b1
  b2 = b2
  b3 = b3
  b4 = b4
  Garbled = garbled
  Blocks = {b1, b2, b3, b4, garbled}
  NumModulus = 2
  RETRIES = 3
  LineFaults = {"data"}
  NumberDamage = {}
  Patience = 2
  MaxFaults = 1
  MaxInFlight = 2
CHECK_DEADLOCK FALSE
PROPERTY BadChecksumIsRetried
