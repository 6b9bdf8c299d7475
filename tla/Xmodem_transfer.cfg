SPECIFICATION FairSpec
CONSTANTS
  File <- MCFile4
  b1 = b1
  b2 = b2
  b3 = b3
  b4 = b4
  Garbled = garbled
  Blocks = {b1, b2, b3, b4, garbled}
  NumModulus = 3
  RETRIES = 12
  LineFaults = {"data", "number", "junk", "loss", "reply"}
  NumberDamage = {2}
  Patience = 2
  MaxFaults = 2
  MaxInFlight = 2
CHECK_DEADLOCK FALSE
INVARIANTS
  TypeOK
  DeliveredIsPrefix
  AckMeansStored
PROPERTIES ImplementsFileTransfer TransferEnds
