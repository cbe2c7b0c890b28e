CONSTANTS
  Session = {s1}
  NoSession = NoSession
  thread_count = 3
  Size = {2}
  MaxBulk = 2
  SpuriousWakeup = FALSE
  OpenFails = FALSE
SPECIFICATION FairSpec
INVARIANTS
  TypeOK
  IInv
  FilesComplete
  EachCommandOnce
  FilesInOrder
  ClosedIsWritten
PROPERTIES
  StoppedThreadExits
CHECK_DEADLOCK FALSE
