SPECIFICATION FairSpec
CONSTANTS
  CountModulus = 4
  JumpModulus = 16
  BufBytes = 86
  StackUse = 9
  Pictures = {p1, p2}
  Sizes <- BoundarySizes
  FbBytes = 99
  MaxCalls = 2
CHECK_DEADLOCK FALSE
INVARIANTS TypeOK ProgramFits LoopEncodes
PROPERTIES CopyIsExact Completes
