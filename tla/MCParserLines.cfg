CONSTANTS
  Char = {a, b}
  OpenBrace = OpenBrace
  CloseBrace = CloseBrace
  NL = NL
  Buffer <- MixedBuffers
  Script <- TinyScripts
  MaxReceive = 4
  ChunkSize = {2}
SPECIFICATION MatchedSpec
INVARIANTS
  TypeOK
  AssemblesBuffers
PROPERTIES
  DropsOnlyOpenBlock
  ImplementsAssembly
CHECK_DEADLOCK FALSE
