CONSTANTS
  MAX_HTTP_REQUEST_HEADER = 18
  MAX_POST_TRANSACTION_SIZE = 35
  HTTP_POST_GROWTH_STEP_REQUEST_HEADER = 7
  ENABLE_POST = TRUE
  Requests <- MCRequests
  API_MAX_REQUEST_SIZE = 3
  NReq = 3
  Kinds = {"get", "keep", "close", "refused", "unsplit", "huge"}
  MAX_FILE_READ_BLOCK = 2
  MaxSize = 5
  MaxChanges = 1
  Width = 16
  Asked <- MCAsked
  RingCounts = {1, 2}
  connectionSlots = 2
  URING_ACCEPT_RESERVE = 1
  MaxQueue = 3
SPECIFICATION MCSpec
CHECK_DEADLOCK FALSE
INVARIANTS
  AnsweredAsSent
  NobodyWaits
  RangeAsAsked
  KeptInStep
  OneRingAccepts
PROPERTIES
  ExchangeSpec
  AnsweredOrClosed
