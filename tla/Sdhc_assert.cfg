SPECIFICATION Spec
CONSTANTS
  OcrTries = 2
  IdentifyTries = 1
  CardBlocks = 2
  MaxBlocks = 2
  MaxCalls = 2
  MaxFaults = 0
  Cards <- MCCards
CHECK_DEADLOCK FALSE
INVARIANT OnlyTooFastStops
