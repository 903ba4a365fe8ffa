\* A page for each client: callbacks reallocate, the handler is removed.
\* Static files: two callers, until a load meets another call.
SPECIFICATION MCSpec
CONSTANTS
  Views = {"dynamic", "static"}
  NULL = NULL
  Threads = {t1, t2}
  Buffers = {b1, b2, b3}
  SamePage = FALSE
  Every = 2
  Width = 4
  MaxClock = 0
  MaxRequests = 3
  Results = {"page", "path"}
  Reallocs = TRUE
  Removes = TRUE
  OutOfMemory = FALSE
  Callers = {c1, c2}
  Files = {f1, f2, large}
  Large = large
  SizeOf <- MCSizeOf
  Garbage = Garbage
  MAX_CACHE_SIZE_IN_MB = 4
  MAX_CACHE_SIZE_FOR_EACH_FILE_IN_MB = 3
  MAX_SEPERATE_CACHE_ITEMS = 2
  MaxCalls = 2
  PastMeetings = FALSE
SYMMETRY Interchangeable
INVARIANTS LiveBuffer PrivatePages ServedRightFile
CHECK_DEADLOCK FALSE
