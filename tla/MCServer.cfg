CONSTANTS
  Client = {c1, c2}
  NoClient = NoClient
  Handle = {h1, h2}
  NoHandle = NoHandle
  bulk_size_ = 2
  thread_cnt = 2
  MaxReceived = 4
  max_length = 2
SPECIFICATION FairSpec
INVARIANTS
  TypeOK
  IInv
  PoolIsLive
  GoneIsExecuted
  DynamicBlocksApart
  StaticBlocksAreCut
  NumbersAreUnique
  StopsForThreadsOnly
PROPERTIES
  ClosedIsServed
CHECK_DEADLOCK FALSE
