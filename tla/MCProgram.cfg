CONSTANTS
  Char = {a, b}
  OpenBrace = OpenBrace
  CloseBrace = CloseBrace
  NL = NL
  Script <- Scripts
  NotGiven = NotGiven
  ChunkArg = {NotGiven, 0, 2}
  ThreadArg = {NotGiven, 0, 1}
  Main = Main
  Cout = Cout
  OpenFails = TRUE
SPECIFICATION FairSpec
INVARIANTS
  TypeOK
  PrintsTheInput
  FilesMirrorConsole
  IInv
PROPERTIES
  ImplementsOutput
  ProgramEnds
CHECK_DEADLOCK FALSE
