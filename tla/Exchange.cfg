SPECIFICATION ExchangeSpec
CONSTANTS
  Known = {"host", "agent", "accept"}
  Foreign = {"foreign"}
  NotANumber = NotANumber
  HeaderLines = 5
  LineLength = 6
  SizeRange = 100
  Requests <- AllRequests
  Params <- AllParams
INVARIANTS
  ExchangeTypeOK
  TrueIsBody
  GoodAnswered
  ActsVerified
  OneDocument
  
  ReturnedIsTold
CHECK_DEADLOCK FALSE
