SPECIFICATION FairSpec
CONSTANTS
  OcrTries = 2
  IdentifyTries = 1
  CardBlocks = 2
  MaxBlocks = 2
  MaxCalls = 2
  MaxFaults = 2
  Cards <- MCCards
CHECK_DEADLOCK FALSE
INVARIANTS TypeOK InitMeansReady TransferIsExact FaultIsPending NoWaitRunsOut
PROPERTY Returns
