\* An application that stops a running server.
SPECIFICATION MCSpec
CONSTANTS
  Views = {"life"}
  Clients = {c1, c2, c3}
  Dispatchers = {main, epoll}
  MAX_CLIENT_PRESPAWNED_THREADS = 2
  Created = {0}
  MayStop = TRUE
  NoClient = NoClient
  MAX_TRIES_TO_BIND_TO_PORT = 2
  Prespawned = {p1, p2}
  MaxFresh = 2
  PrivilegedPort = FALSE
  StopAnytime = TRUE
  Signals = FALSE
INVARIANT InstanceOutlivesThreads
CHECK_DEADLOCK FALSE
