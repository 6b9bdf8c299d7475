SPECIFICATION FairSpec
CONSTANTS
  ScreenUnit = 6
  WavUnit = 10
  Files = {"tian", "leaf", "rose", "today", "song"}
  Inis <- MCInis
CHECK_DEADLOCK FALSE
INVARIANTS TypeOK ArgumentsAreNamed ScreenIsPicture
PROPERTY EveryPictureShown
