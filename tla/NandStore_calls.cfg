SPECIFICATION FairSpec
CONSTANTS
  PageBytes = 2
  PagesPerBlock = 2
  BootPages = 1
  Blocks = 4
  MemoryPages = 16
  BlockModulus = 8
  FlashAddrs = {0, 1, 2}
  Downloads = {0, 7}
  Lens = {0, 1, 4, 5, 8, 11}
  MaxCalls = 2
CHECK_DEADLOCK FALSE
INVARIANTS TypeOK RangeIsCopied RestOfFlashKept
PROPERTY CommandsEnd
