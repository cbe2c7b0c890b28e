CONSTANTS
  Session = {s1}
  NoSession = NoSession
  thread_count = 2
  Size = {2}
  MaxBulk = 1
  SpuriousWakeup = FALSE
  OpenFails = FALSE
SPECIFICATION FairSpec
PROPERTIES
  DisconnectReturns
CHECK_DEADLOCK FALSE
