SPECIFICATION FairSpec
CONSTANTS
  PacketBytes = 2
  Image <- MCImage
  LineFaults = {"stray", "byte", "answer", "card"}
  MaxFaults = 1
  Patience = 1
  Addresses = {0, 1, 2, 3, 4, 5, 6, 7, 8, 9, 10, 11, 12}
  Kernel = 0
  KernelBytes = 4
  Loader = 4
  LoaderBytes = 2
  StageBytes = 3
  Down = 6
  OsBytes = 4
  OsFile = 3
  OsName = "prog"
  FileAddr = 11
  FileBytes = 2
  PageBytes = 2
  NandRows = 4
  NandKernel = 2
  CmdSize = 5
  Inis <- MCInis
  IniBytes = 8
  StackTails <- MCTails
  Lines <- MCLines
  Keys <- MCKeys
  atoi <- MCAtoi
  MaxLines = 2
  MaxKeys = 1
  MaxCycles = 1
CHECK_DEADLOCK FALSE
INVARIANTS TypeOK NeverAstray KernelGetsTags
PROPERTIES ImplementsMonitor Answers
