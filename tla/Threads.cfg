\* A pool with two dispatchers, one of two slots without a thread, and a stop at any time.
\* Start, stop and signals in every order.
SPECIFICATION MCFairSpec
CONSTANTS
  Views = {"pool", "life"}
  Clients = {c1, c2, c3}
  Dispatchers = {main, epoll}
  MAX_CLIENT_PRESPAWNED_THREADS = 2
  Created = {0}
  MayStop = TRUE
  NoClient = NoClient
  MAX_TRIES_TO_BIND_TO_PORT = 2
  Prespawned = {p1, p2}
  MaxFresh = 2
  PrivilegedPort = TRUE
  StopAnytime = TRUE
  Signals = TRUE
INVARIANTS HandedOverOnce ServesItsSlot NoLostWakeup ContextOutlivesCopy
PROPERTIES HandedOverIsServed StartComesBack
CHECK_DEADLOCK FALSE
