---------------------------- MODULE FreshThreads ----------------------------
(***************************************************************************)
(* The pool of freshly spawned worker threads of AmmServerlib              *)
(* (threads/freshThreads.c, and the thread body in threads/clientServer.c).*)
(*                                                                         *)
(* An accepted connection that no prespawned thread takes gets a thread of *)
(* its own.  The pool is one array, threads_pool, and two counters; none   *)
(* of them is protected by a lock.  Dispatchers (the accept loop, and the  *)
(* epoll accept layer thread) look for a zero entry and pass its address   *)
(* to pthread_create; the worker zeroes the entry when it is done.         *)
(*                                                                         *)
(* One step of the model is one shared access the threads can interleave   *)
(* on.  `++counter' on an unsynchronised unsigned int is a load and a      *)
(* store.  A thread is named by the connection it serves.                  *)
(***************************************************************************)
EXTENDS Integers, FiniteSets

CONSTANTS
  Clients,             \* the connections that may be accepted
  Dispatchers,         \* threads that call SpawnThreadToServeNewClient
  MAX_CLIENT_THREADS,  \* length of threads_pool, 3000 in the code
  MAX_TRIES_TO_FIND_A_THREAD_ID,  \* passes over the pool, 5 in the code
  UINT,                \* 2^32: the counters are unsigned int
  Faults,              \* which of FaultKinds the environment may produce
  NoThread,            \* a zero entry of threads_pool
  StaleId              \* what a failed pthread_create may leave in the entry

FaultKinds == {"create", "sockopt", "tls"}

ASSUME PoolAssumption ==
  /\ MAX_CLIENT_THREADS \in Nat \ {0}
  /\ MAX_TRIES_TO_FIND_A_THREAD_ID \in Nat \ {0}
  /\ UINT \in Nat
  /\ MAX_CLIENT_THREADS < UINT
  /\ Faults \subseteq FaultKinds
  /\ NoThread \notin Clients
  /\ StaleId \notin Clients
  /\ NoThread # StaleId

Slots == 0 .. MAX_CLIENT_THREADS - 1

VARIABLES
  threads_pool,            \* entry -> the thread whose id is stored there
  CLIENT_THREADS_STARTED,  \* unsigned int
  CLIENT_THREADS_STOPPED,  \* unsigned int
  disp,                    \* what each dispatcher is doing, and its locals
  thread,                  \* the worker of each connection, and its locals
  sock                     \* the descriptor of each connection

counters == << CLIENT_THREADS_STARTED, CLIENT_THREADS_STOPPED >>

vars == << threads_pool, CLIENT_THREADS_STARTED, CLIENT_THREADS_STOPPED,
           disp, thread, sock >>

DispatcherState ==
  [ pc     : {"accept", "check", "probe", "create", "load", "store", "close"},
    client : Clients \cup {NoThread},
    slot   : 0 .. MAX_CLIENT_THREADS,
    tries  : 0 .. MAX_TRIES_TO_FIND_A_THREAD_ID,
    reg    : 0 .. UINT - 1 ]

ThreadState ==
  [ pc   : {"none", "unpack", "serve", "clear", "load", "store", "gone"},
    slot : Slots,
    reg  : 0 .. UINT - 1 ]

\* "waiting": not accepted yet; "dropped": closed because of the thread limit
SockState == {"waiting", "open", "closed", "dropped"}

TypeOK ==
  /\ threads_pool \in [Slots -> Clients \cup {NoThread, StaleId}]
  /\ CLIENT_THREADS_STARTED \in 0 .. UINT - 1
  /\ CLIENT_THREADS_STOPPED \in 0 .. UINT - 1
  /\ disp \in [Dispatchers -> DispatcherState]
  /\ thread \in [Clients -> ThreadState]
  /\ sock \in [Clients -> SockState]

Init ==
  /\ threads_pool = [s \in Slots |-> NoThread]
  /\ CLIENT_THREADS_STARTED = 0
  /\ CLIENT_THREADS_STOPPED = 0
  /\ disp = [d \in Dispatchers |->
               [pc |-> "accept", client |-> NoThread,
                slot |-> 0, tries |-> 0, reg |-> 0]]
  /\ thread = [c \in Clients |-> [pc |-> "none", slot |-> 0, reg |-> 0]]
  /\ sock = [c \in Clients |-> "waiting"]

\* Threads between pthread_create and the zeroing of their entry.
Serving == {c \in Clients : thread[c].pc \in {"unpack", "serve", "clear"}}

-----------------------------------------------------------------------------
(* The dispatcher: dispatch_accepted_client -> SpawnThreadToServeNewClient *)

\* accept4 handed the dispatcher a connection.
AcceptClient(d, c) ==
  /\ disp[d].pc = "accept"
  /\ sock[c] = "waiting"
  /\ sock' = [sock EXCEPT ![c] = "open"]
  /\ disp' = [disp EXCEPT ![d] = [@ EXCEPT !.pc = "check", !.client = c]]
  /\ UNCHANGED << threads_pool, counters, thread >>

\* The unsigned difference the limit is tested on.
ActiveThreads == (CLIENT_THREADS_STARTED - CLIENT_THREADS_STOPPED) % UINT

\* Over the limit: SpawnThreadToServeNewClient returns 0, the caller closes.
RefuseOverLimit(d) ==
  /\ disp[d].pc = "check"
  /\ ActiveThreads >= MAX_CLIENT_THREADS
  /\ sock' = [sock EXCEPT ![disp[d].client] = "dropped"]
  /\ disp' = [disp EXCEPT ![d] = [@ EXCEPT !.pc = "accept",
                                           !.client = NoThread]]
  /\ UNCHANGED << threads_pool, counters, thread >>

\* Under the limit: FindAProperThreadID starts at STARTED modulo the pool.
StartSearch(d) ==
  /\ disp[d].pc = "check"
  /\ ActiveThreads < MAX_CLIENT_THREADS
  /\ disp' = [disp EXCEPT ![d] = 
               [@ EXCEPT !.pc = "probe", !.tries = 0,
                         !.slot = CLIENT_THREADS_STARTED % MAX_CLIENT_THREADS]]
  /\ UNCHANGED << threads_pool, counters, thread, sock >>

\* Mutant: the search takes whatever entry it looks at.
ProbeAnyEntry(d) ==
  /\ disp[d].pc = "probe"
  /\ disp[d].slot < MAX_CLIENT_THREADS
  /\ disp' = [disp EXCEPT ![d] = [@ EXCEPT !.pc = "create"]]
  /\ UNCHANGED << threads_pool, counters, thread, sock >>

\* One look at one entry; past the last entry the scan starts over.
Probe(d) ==
  LET s == disp[d].slot IN
  /\ disp[d].pc = "probe"
  /\ disp[d].tries < MAX_TRIES_TO_FIND_A_THREAD_ID
  /\ \/ /\ s < MAX_CLIENT_THREADS
        /\ threads_pool[s] = NoThread
        /\ disp' = [disp EXCEPT ![d] = [@ EXCEPT !.pc = "create"]]
     \/ /\ s < MAX_CLIENT_THREADS
        /\ threads_pool[s] # NoThread
        /\ disp' = [disp EXCEPT ![d] = [@ EXCEPT !.slot = s + 1]]
     \/ /\ s = MAX_CLIENT_THREADS
        /\ disp' = [disp EXCEPT ![d] =
                       [@ EXCEPT !.slot = 0, !.tries = disp[d].tries + 1]]
  /\ UNCHANGED << threads_pool, counters, thread, sock >>

\* Every pass found every entry taken.
GiveUpSearch(d) ==
  /\ disp[d].pc = "probe"
  /\ disp[d].tries = MAX_TRIES_TO_FIND_A_THREAD_ID
  /\ disp' = [disp EXCEPT ![d] = [@ EXCEPT !.pc = "close", !.slot = 0]]
  /\ UNCHANGED << threads_pool, counters, thread, sock >>

\* pthread_create(&threads_pool[slot], ...): glibc stores the id before the
\* new thread runs.
CreateThread(d) ==
  LET c == disp[d].client
      s == disp[d].slot
  IN
  /\ disp[d].pc = "create"
  /\ threads_pool' = [threads_pool EXCEPT ![s] = c]
  /\ thread' = [thread EXCEPT ![c] = [@ EXCEPT !.pc = "unpack", !.slot = s]]
  /\ disp' = [disp EXCEPT ![d] = [@ EXCEPT !.pc = "load"]]
  /\ UNCHANGED << counters, sock >>

\* pthread_create fails; what is left in the entry is undefined (POSIX), and
\* glibc leaves it alone or has already stored an id, depending on the cause.
CreateThreadFails(d) ==
  LET s == disp[d].slot IN
  /\ "create" \in Faults
  /\ disp[d].pc = "create"
  /\ \E left \in {threads_pool[s], StaleId} :
       threads_pool' = [threads_pool EXCEPT ![s] = left]
  /\ disp' = [disp EXCEPT ![d] = [@ EXCEPT !.pc = "close", !.slot = 0]]
  /\ UNCHANGED << counters, thread, sock >>

\* CLIENT_THREADS_STARTED++, the load ...
LoadStarted(d) ==
  /\ disp[d].pc = "load"
  /\ disp' = [disp EXCEPT ![d] = [@ EXCEPT !.pc = "store",
                                           !.reg = CLIENT_THREADS_STARTED]]
  /\ UNCHANGED << threads_pool, counters, thread, sock >>

\* ... and the store; the dispatcher is done with this connection.
StoreStarted(d) ==
  /\ disp[d].pc = "store"
  /\ CLIENT_THREADS_STARTED' = (disp[d].reg + 1) % UINT
  /\ disp' = [disp EXCEPT ![d] = [@ EXCEPT !.pc = "accept",
                                           !.client = NoThread, !.slot = 0]]
  /\ UNCHANGED << threads_pool, CLIENT_THREADS_STOPPED, thread, sock >>

\* Mutant: the caller forgets the descriptor nobody serves.
CloseUnservedLeaks(d) ==
  /\ disp[d].pc = "close"
  /\ disp' = [disp EXCEPT ![d] = [@ EXCEPT !.pc = "accept",
                                           !.client = NoThread]]
  /\ UNCHANGED << threads_pool, counters, thread, sock >>

\* SpawnThreadToServeNewClient returned 0: dispatch_accepted_client closes.
CloseUnserved(d) ==
  /\ disp[d].pc = "close"
  /\ sock' = [sock EXCEPT ![disp[d].client] = "closed"]
  /\ disp' = [disp EXCEPT ![d] = [@ EXCEPT !.pc = "accept",
                                           !.client = NoThread]]
  /\ UNCHANGED << threads_pool, counters, thread >>

-----------------------------------------------------------------------------
(* The worker: ServeClientAfterUnpackingThreadMessage, ServeClientInternal *)

\* Context unpacked, pthread_detach(threads_pool[slot]), session started.
Unpack(c) ==
  /\ thread[c].pc = "unpack"
  /\ thread' = [thread EXCEPT ![c] = [@ EXCEPT !.pc = "serve"]]
  /\ UNCHANGED << threads_pool, counters, disp, sock >>

\* The TLS handshake fails: the socket is closed and the thread returns.
TLSHandshakeFails(c) ==
  /\ "tls" \in Faults
  /\ thread[c].pc = "serve"
  /\ sock' = [sock EXCEPT ![c] = "closed"]
  /\ thread' = [thread EXCEPT ![c] = [@ EXCEPT !.pc = "gone"]]
  /\ UNCHANGED << threads_pool, counters, disp >>

\* setSocketTimeouts fails: ServeClientInternal returns at once.
SocketTimeoutsFail(c) ==
  /\ "sockopt" \in Faults
  /\ thread[c].pc = "serve"
  /\ thread' = [thread EXCEPT ![c] = [@ EXCEPT !.pc = "gone"]]
  /\ UNCHANGED << threads_pool, counters, disp, sock >>

\* The keep-alive loop ended; close(clientSock).
CloseServed(c) ==
  /\ thread[c].pc = "serve"
  /\ sock' = [sock EXCEPT ![c] = "closed"]
  /\ thread' = [thread EXCEPT ![c] = [@ EXCEPT !.pc = "clear"]]
  /\ UNCHANGED << threads_pool, counters, disp >>

\* threads_pool[threadID] = 0
ClearSlot(c) ==
  /\ thread[c].pc = "clear"
  /\ threads_pool' = [threads_pool EXCEPT ![thread[c].slot] = NoThread]
  /\ thread' = [thread EXCEPT ![c] = [@ EXCEPT !.pc = "load"]]
  /\ UNCHANGED << counters, disp, sock >>

\* ++CLIENT_THREADS_STOPPED, the load ...
LoadStopped(c) ==
  /\ thread[c].pc = "load"
  /\ thread' = [thread EXCEPT ![c] = [@ EXCEPT !.pc = "store",
                                               !.reg = CLIENT_THREADS_STOPPED]]
  /\ UNCHANGED << threads_pool, counters, disp, sock >>

\* ... and the store; the thread returns.
StoreStopped(c) ==
  /\ thread[c].pc = "store"
  /\ CLIENT_THREADS_STOPPED' = (thread[c].reg + 1) % UINT
  /\ thread' = [thread EXCEPT ![c] = [@ EXCEPT !.pc = "gone"]]
  /\ UNCHANGED << threads_pool, CLIENT_THREADS_STARTED, disp, sock >>

-----------------------------------------------------------------------------
Dispatch(d) ==
  \/ \E c \in Clients : AcceptClient(d, c)
  \/ RefuseOverLimit(d)
  \/ StartSearch(d)
  \/ Probe(d)
  \/ GiveUpSearch(d)
  \/ CreateThread(d)
  \/ CreateThreadFails(d)
  \/ LoadStarted(d)
  \/ StoreStarted(d)
  \/ CloseUnserved(d)

Work(c) ==
  \/ Unpack(c)
  \/ TLSHandshakeFails(c)
  \/ SocketTimeoutsFail(c)
  \/ CloseServed(c)
  \/ ClearSlot(c)
  \/ LoadStopped(c)
  \/ StoreStopped(c)

Next ==
  \/ \E d \in Dispatchers : Dispatch(d)
  \/ \E c \in Clients : Work(c)

Spec == Init /\ [][Next]_vars

\* The kernel keeps scheduling every thread; a served client finishes within
\* the socket timeouts or by closing.
Fairness ==
  /\ \A d \in Dispatchers : WF_vars(Dispatch(d))
  /\ \A c \in Clients : WF_vars(Work(c))

FairSpec == Spec /\ Fairness

-----------------------------------------------------------------------------
(* Properties *)

\* A worker that has not zeroed its entry yet finds its own thread id there:
\* its pthread_detach(threads_pool[id]) detaches itself, and the "thread_pool
\* id is already zero.. This could be a bug" message of ServeClientInternal
\* is never printed.
SlotIsMine ==
  \A c \in Serving : threads_pool[thread[c].slot] = c

\* Workers the counters should still account for: created by a dispatcher that
\* has finished its ++CLIENT_THREADS_STARTED, not past ++CLIENT_THREADS_STOPPED.
Accounted ==
  {c \in Clients :
     /\ thread[c].pc \notin {"none", "gone"}
     /\ \A d \in Dispatchers : disp[d].client # c}

\* Lost increments only ever make STARTED - STOPPED too large: the limit test
\* never believes there is more room than there is.
NeverUndercounts ==
  (\A d \in Dispatchers : disp[d].pc = "check")
     => Cardinality(Accounted) <= ActiveThreads

\* A client is refused for the thread limit only while MAX_CLIENT_THREADS
\* workers really exist.
RefusalMeansFull ==
  [][ \A c \in Clients :
        (sock[c] = "open" /\ sock'[c] = "dropped")
          => Cardinality({t \in Clients : thread[t].pc \notin {"none", "gone"}})
                >= MAX_CLIENT_THREADS ]_vars

\* A worker that has returned holds no entry of the pool any more, so the pool
\* never runs out of entries while there are few clients.
ReturnedThreadsFreeTheirSlot ==
  \A c \in Clients : thread[c].pc = "gone" => \A s \in Slots : threads_pool[s] # c

\* The worker returned from a failed setSocketTimeouts and nobody closes.
TimeoutsFailed(c) == thread[c].pc = "gone" /\ sock[c] = "open"

\* Every accepted connection is eventually closed, by its worker or by the
\* dispatcher that found no thread for it; only the early return of
\* ServeClientInternal keeps the descriptor.
EveryClientIsClosed ==
  \A c \in Clients :
    (sock[c] = "open") ~> (sock[c] \in {"closed", "dropped"} \/ TimeoutsFailed(c))
=============================================================================
