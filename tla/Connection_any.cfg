\* A client that waits for each answer, or sends requests back to back.
SPECIFICATION FairSpec
CONSTANTS
  NReq = 3
  Kinds <- MixedKinds
  FASTPATH_MAX_PIPELINED_REQUESTS = 2
  SockoptFails = TRUE
INVARIANTS NoEventOnFreedMemory
PROPERTIES ExchangeSpec AnsweredOrClosed
CHECK_DEADLOCK FALSE
