SPECIFICATION PromptSpec
CONSTANTS
  Workers = {w1, w2}
  Files <- AllFiles
  MaxFaults = 1
INVARIANTS
  TypeOK
  NoUseAfterDelete
  LogOutlivesThreads
PROPERTIES
  PromptShutdown
  ListsRecover
  StartsAsConfigured
CHECK_DEADLOCK FALSE
