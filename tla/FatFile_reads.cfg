SPECIFICATION FairSpec
CONSTANTS
  FATBUFSIZE = 12
  SECTOR_SIZE = 2
  ClustSize = 2
  Clusters = 3
  EntriesPerBuf = 2
  CheckFrom = 6
  EndMark = 6
  CountModulus = 65536
  Sizes = {0, 1, 3, 4, 5, 8, 9, 11, 14}
  MaxSizes = {0, 6}
  BufferBytes = 16
  StaleEntries = {0, 2}
  ReadsFail = TRUE
  Untouched = untouched
  Garbage = garbage
CHECK_DEADLOCK FALSE
INVARIANTS TypeOK CacheCoherent ContentIsFile ShortReadIsExact NoOverrun
PROPERTY Terminates
