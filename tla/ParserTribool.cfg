SPECIFICATION Spec
CONSTANTS
  Known = {"host", "agent", "accept"}
  Foreign = {"foreign"}
  NotANumber = NotANumber
  HeaderLines = 5
  LineLength = 6
  SizeRange = 100
  Requests <- GoodRequests
INVARIANTS
  TriboolMeans
CHECK_DEADLOCK FALSE
