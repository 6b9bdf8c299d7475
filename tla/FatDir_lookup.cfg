SPECIFICATION FairSpec
CONSTANTS
  plain = plain
  long = long
  toolong = toolong
  dcim = dcim
  DIRENTSPERBLOCK = 4
  PrefetchSectors = 2
  VFAT_MAXSEQ = 2
  FieldModulus = 64
  Files = {plain, long, toolong, dcim}
  Slots <- MCSlots
  Initial <- MCInitial
  DirStart <- MCDirStart
  ClusterNums <- MCClusters
  Volumes <- MCVolumes
CHECK_DEADLOCK FALSE
INVARIANTS TypeOK GeometryIsExact LookupIsExact RootPosition
PROPERTY LookupEnds
