\* A shared page, asked for by three clients; its handler may be removed.
SPECIFICATION FairSpec
CONSTANTS
  Threads = {t1, t2, t3}
  Buffers = {b1}
  NULL = NULL
  SamePage = TRUE
  Every = 2
  Width = 8
  MaxClock = 5
  MaxRequests = 2
  Results = {"page", "nothing"}
  Reallocs = FALSE
  Removes = TRUE
  OutOfMemory = TRUE
INVARIANT OneCallback
PROPERTIES RateLimit RequestEnds
CHECK_DEADLOCK FALSE
