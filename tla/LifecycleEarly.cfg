SPECIFICATION FairSpec
CONSTANTS
  Workers = {w1}
  Files <- GoodFiles
  MaxFaults = 0
PROPERTIES
  ShutdownCompletes
CHECK_DEADLOCK FALSE
