\* One dispatcher: the epoll accept layer runs and takes every connection.
SPECIFICATION FairSpec
CONSTANTS
  Clients = {c1, c2, c3}
  Dispatchers = {epoll}
  MAX_CLIENT_THREADS = 2
  MAX_TRIES_TO_FIND_A_THREAD_ID = 2
  UINT = 8
  Faults = {"create", "sockopt", "tls"}
  NoThread = NoThread
  StaleId = StaleId
INVARIANTS SlotIsMine
PROPERTY EveryClientIsClosed
CHECK_DEADLOCK FALSE
