SPECIFICATION FairSpec
CONSTANTS
  FlushOver = 2
  MaxMessages = 4
  MaxFaults = 3
INVARIANTS
  TypeOK
  FileInOrder
  NothingLost
PROPERTIES
  DropsOnlyLongList
  SentIsLogged
CHECK_DEADLOCK FALSE
