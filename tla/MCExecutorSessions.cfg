CONSTANTS
  Session = {s1, s2}
  NoSession = NoSession
  thread_count = 2
  Size = {2}
  MaxBulk = 2
  SpuriousWakeup = TRUE
  OpenFails = TRUE
SPECIFICATION Spec
INVARIANTS
  HoldInv
  PrintedInOrder
  ClosedIsWritten
  FileHoldsItsBlock
PROPERTIES
  ImplementsOutput
  ClosedIsQuiet
SYMMETRY SessionSymmetry
CHECK_DEADLOCK FALSE
