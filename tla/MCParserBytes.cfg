CONSTANTS
  Char = {a}
  OpenBrace = OpenBrace
  CloseBrace = CloseBrace
  NL = NL
  Buffer <- ByteBuffers
  Script <- ShortScripts
  MaxReceive = 3
  ChunkSize = {2}
SPECIFICATION FairSpec
INVARIANTS
  BlocksAreWhole
  StaticBlocksBounded
  CommandsCarryBlockId
  BlockIdsIncrease
  IInv
  AssemblesBuffers
  MatchedInv
PROPERTIES
  CallReturns
CHECK_DEADLOCK FALSE
