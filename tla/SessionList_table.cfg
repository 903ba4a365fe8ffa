\* More clients than the table holds, two of them served at a time.
SPECIFICATION Spec
CONSTANTS
  Threads = {t1, t2}
  Tokens = {s1, s2, s3}
  NoToken = NoToken
  MAX_SESSIONS = 2
  SESSION_IDLE_TIMEOUT_SECONDS = 1
  MaxTime = 2
  MaxCalls = 1
SYMMETRY ThreadsAndTokens
INVARIANT LoginGetsFreshSession
CHECK_DEADLOCK FALSE
