\* Two dispatchers share the turn.
SPECIFICATION MCSpec
CONSTANTS
  Views = {"pool"}
  Clients = {c1, c2, c3}
  Dispatchers = {main, epoll}
  MAX_CLIENT_PRESPAWNED_THREADS = 2
  Created = {0, 1}
  MayStop = FALSE
  NoClient = NoClient
  MAX_TRIES_TO_BIND_TO_PORT = 2
  Prespawned = {p1, p2}
  MaxFresh = 2
  PrivilegedPort = TRUE
  StopAnytime = TRUE
  Signals = TRUE
INVARIANT IndexInPool
CHECK_DEADLOCK FALSE
