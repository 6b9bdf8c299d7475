SPECIFICATION Spec
CONSTANTS
  FATBUFSIZE = 12
  SECTOR_SIZE = 2
  ClustSize = 2
  Clusters = 2
  EntriesPerBuf = 2
  CheckFrom = 5
  EndMark = 5
  CountModulus = 65536
  Sizes = {5, 9}
  MaxSizes = {0}
  BufferBytes = 20
  StaleEntries = {0}
  ReadsFail = TRUE
  Untouched = untouched
  Garbage = garbage
CHECK_DEADLOCK FALSE
INVARIANT ReadErrorIsReported
