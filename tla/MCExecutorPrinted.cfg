CONSTANTS
  Session = {s1}
  NoSession = NoSession
  thread_count = 2
  Size = {2}
  MaxBulk = 2
  SpuriousWakeup = FALSE
  OpenFails = FALSE
SPECIFICATION FairSpec
PROPERTIES
  BlocksArePrinted
CHECK_DEADLOCK FALSE
