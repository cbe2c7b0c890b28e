CONSTANTS
  Client = {c1, c2}
  NoClient = NoClient
  Handle = {h1, h2}
  NoHandle = NoHandle
  bulk_size_ = 2
  thread_cnt = 2
  MaxReceived = 4
  max_length = 2
SPECIFICATION Spec
INVARIANTS
  StaticBlocksMix
CHECK_DEADLOCK FALSE
