CONSTANTS
  Char = {a, b}
  OpenBrace = OpenBrace
  CloseBrace = CloseBrace
  NL = NL
  Buffer <- Segments
  Script <- NoScript
  MaxReceive = 3
  ChunkSize = {2}
SPECIFICATION Spec
INVARIANTS
  TakesWholeLines
CHECK_DEADLOCK FALSE
