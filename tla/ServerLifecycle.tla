---------------------------- MODULE ServerLifecycle ----------------------------
(***************************************************************************)
(* Starting and stopping an instance: the application's thread in          *)
(* AmmServer_Start and AmmServer_Stop (main.c), StartThreadedHTTPServer and *)
(* StopThreadedHTTPServer, the main server thread, the threads it starts   *)
(* (threads/threadedServer.c, threads/prespawnedThreads.c) and the         *)
(* termination signal (main.c).                                            *)
(*                                                                         *)
(* What a thread does between starting and ending is left to the other     *)
(* modules; here it only uses the instance.  Once the instance is freed    *)
(* under a running thread anything may happen: no further step of that     *)
(* thread is described.                                                    *)
(***************************************************************************)
EXTENDS Naturals

CONSTANTS
  MAX_TRIES_TO_BIND_TO_PORT,  \* 5 in the code
  Prespawned,                 \* the prespawned threads
  MaxFresh,                   \* bound: fresh worker threads at a time
  PrivilegedPort,             \* binding needs root
  StopAnytime,                \* the application stops a running server too
  Signals                     \* SIGINT, SIGHUP or SIGTERM may arrive

\* What is assumed of them.
Parameters ==
  /\ MAX_TRIES_TO_BIND_TO_PORT \in Nat
  /\ MaxFresh \in Nat
  /\ {PrivilegedPort, StopAnytime, Signals} \subseteq BOOLEAN

VARIABLES
  app,                 \* the application's thread
  server,              \* MainThreadedHTTPServerThread
  keep_var_on_stack,   \* the flag in the context on the application's stack
  server_running,
  stop_server,
  root,                \* the process still has root's privileges
  bindTries,
  bound,               \* serversock holds the port
  pool,                \* the prespawned threads
  epollThread,         \* EpollAcceptLayerThread
  fresh,               \* fresh worker threads serving a client
  freed,               \* the instance and what it points to are freed
  kill,                \* GLOBAL_KILL_SERVER_SWITCH
  exited               \* the process is gone

flags   == << server_running, stop_server >>
port    == << bindTries, bound >>
threads == << pool, epollThread, fresh >>
signal  == << kill, exited >>

vars == << app, server, keep_var_on_stack, flags, root, port, threads, freed,
           signal >>

TypeOK ==
  /\ app \in {"start", "handshake", "running", "notStarted", "stopping", "done"}
  /\ server \in {"none", "setup", "signalled", "binding", "listening", "serving",
                 "leaving", "ended"}
  /\ keep_var_on_stack \in {0, 1, 2}
  /\ server_running \in BOOLEAN
  /\ stop_server \in {0, 2}
  /\ root \in BOOLEAN
  /\ bindTries \in 0 .. MAX_TRIES_TO_BIND_TO_PORT
  /\ bound \in BOOLEAN
  /\ pool \in [Prespawned -> {"none", "idle", "busy", "ended"}]
  /\ epollThread \in {"none", "running", "ended"}
  /\ fresh \in 0 .. MaxFresh
  /\ freed \in BOOLEAN
  /\ kill \in BOOLEAN
  /\ exited \in BOOLEAN

Init ==
  /\ app = "start"
  /\ server = "none"
  /\ keep_var_on_stack = 0
  /\ server_running = FALSE
  /\ stop_server = 0
  /\ root = PrivilegedPort
  /\ bindTries = 0
  /\ bound = FALSE
  /\ pool = [p \in Prespawned |-> "none"]
  /\ epollThread = "none"
  /\ fresh = 0
  /\ freed = FALSE
  /\ kill = FALSE
  /\ exited = FALSE

-----------------------------------------------------------------------------
(* The application's thread *)

\* StartThreadedHTTPServer up to pthread_create, which may fail.
Start ==
  /\ app = "start"
  /\ keep_var_on_stack' = 1
  /\ server_running' = TRUE
  /\ stop_server' = 0
  /\ \/ /\ app' = "handshake"
        /\ server' = "setup"
     \/ /\ app' = "notStarted"
        /\ UNCHANGED server
  /\ UNCHANGED << root, port, threads, freed, signal >>

\* Mutant: the flag is not waited for.
StartReturnsAtOnce ==
  /\ app = "handshake"
  /\ root' = FALSE
  /\ app' = "running"
  /\ UNCHANGED << server, keep_var_on_stack, flags, port, threads, freed, signal >>

\* The server thread has copied the context: drop root and return the instance.
StartReturns ==
  /\ app = "handshake"
  /\ keep_var_on_stack # 1
  /\ root' = FALSE
  /\ app' = "running"
  /\ UNCHANGED << server, keep_var_on_stack, flags, port, threads, freed, signal >>

\* There is no server thread: drop root, and StartInstance stops the instance.
StartFails ==
  /\ app = "notStarted"
  /\ root' = FALSE
  /\ app' = "stopping"
  /\ UNCHANGED << server, keep_var_on_stack, flags, port, threads, freed, signal >>

\* AmmServer_Stop, usually after the application's loop over AmmServer_Running.
\* stop_server is 0 or 2 here, so StopThreadedHTTPServer returns at once: what
\* follows its first line is never executed.
Stop ==
  /\ app = "running"
  /\ StopAnytime \/ ~server_running
  /\ stop_server \in {0, 2}
  /\ app' = "stopping"
  /\ UNCHANGED << server, keep_var_on_stack, flags, root, port, threads, freed,
                  signal >>

\* The rest of AmmServer_Stop: the cache, the sessions, the pools, the instance.
Teardown ==
  /\ app = "stopping"
  /\ freed' = TRUE
  /\ app' = "done"
  /\ UNCHANGED << server, keep_var_on_stack, flags, root, port, threads, signal >>

-----------------------------------------------------------------------------
(* MainThreadedHTTPServerThread *)

\* Mutant: a server without a socket forgets its parent.
SocketFailsSilently ==
  /\ server = "setup"
  /\ server_running' = FALSE
  /\ server' = "ended"
  /\ UNCHANGED << app, keep_var_on_stack, stop_server, root, port, threads, freed,
                  signal >>

\* socket() fails.
SocketFails ==
  /\ server = "setup"
  /\ server_running' = FALSE
  /\ keep_var_on_stack' = 2
  /\ server' = "ended"
  /\ UNCHANGED << app, stop_server, root, port, threads, freed, signal >>

\* The context is copied and the parent told ...
SignalParent ==
  /\ server = "setup"
  /\ keep_var_on_stack' = 2
  /\ server' = "signalled"
  /\ UNCHANGED << app, flags, root, port, threads, freed, signal >>

\* ... and the flag is read back through the pointer into the parent's stack.  Any
\* other value than 2 is only logged, and then the port is bound.
ReadFlagBack ==
  /\ server = "signalled"
  /\ server' = "binding"
  /\ UNCHANGED << app, keep_var_on_stack, flags, root, port, threads, freed, signal >>

BindFails ==
  /\ server = "binding"
  /\ bindTries < MAX_TRIES_TO_BIND_TO_PORT
  /\ bindTries' = bindTries + 1
  /\ UNCHANGED << app, server, keep_var_on_stack, flags, root, bound, threads,
                  freed, signal >>

\* bind() is called once more after the last permitted failure; the loop ends
\* whatever it returns, and the test after it looks at bindTries only.
BindGivesUp ==
  /\ server = "binding"
  /\ bindTries = MAX_TRIES_TO_BIND_TO_PORT
  /\ bound' \in {FALSE, PrivilegedPort => root}
  /\ server_running' = FALSE
  /\ server' = "ended"
  /\ UNCHANGED << app, keep_var_on_stack, stop_server, root, bindTries, threads,
                  freed, signal >>

Bind ==
  /\ server = "binding"
  /\ bindTries < MAX_TRIES_TO_BIND_TO_PORT
  /\ PrivilegedPort => root
  /\ bound' = TRUE
  /\ server' = "listening"
  /\ UNCHANGED << app, keep_var_on_stack, flags, root, bindTries, threads, freed,
                  signal >>

ListenFails ==
  /\ server = "listening"
  /\ server_running' = FALSE
  /\ server' = "ended"
  /\ UNCHANGED << app, keep_var_on_stack, stop_server, root, port, threads, freed,
                  signal >>

\* PreSpawnThreads and the epoll layer; a thread that cannot be created is done
\* without.
Listen ==
  /\ server = "listening"
  /\ \E created \in SUBSET Prespawned :
       pool' = [p \in Prespawned |-> IF p \in created THEN "idle" ELSE "none"]
  /\ epollThread' \in {"none", "running"}
  /\ server' = "serving"
  /\ UNCHANGED << app, keep_var_on_stack, flags, root, port, fresh, freed, signal >>

\* The accept loop ends: first server_running, then stop_server.
LeaveLoop ==
  /\ server = "serving"
  /\ ~server_running \/ stop_server # 0 \/ kill
  /\ server_running' = FALSE
  /\ server' = "leaving"
  /\ UNCHANGED << app, keep_var_on_stack, stop_server, root, port, threads, freed,
                  signal >>

ServerEnds ==
  /\ server = "leaving"
  /\ stop_server' = 2
  /\ server' = "ended"
  /\ UNCHANGED << app, keep_var_on_stack, server_running, root, port, threads,
                  freed, signal >>

-----------------------------------------------------------------------------
(* The threads that serve *)

\* The accept loop or the epoll layer gives a connection to a thread.
Dispatch ==
  /\ server = "serving" \/ epollThread = "running"
  /\ \/ \E p \in Prespawned :
          /\ pool[p] = "idle"
          /\ pool' = [pool EXCEPT ![p] = "busy"]
          /\ UNCHANGED fresh
     \/ /\ fresh < MaxFresh
        /\ fresh' = fresh + 1
        /\ UNCHANGED pool
  /\ UNCHANGED << app, server, keep_var_on_stack, flags, root, port, epollThread,
                  freed, signal >>

\* A client leaves, times out or is not kept.
ClientServed ==
  /\ \/ \E p \in Prespawned :
          /\ pool[p] = "busy"
          /\ pool' = [pool EXCEPT ![p] = "idle"]
          /\ UNCHANGED fresh
     \/ /\ fresh > 0
        /\ fresh' = fresh - 1
        /\ UNCHANGED pool
  /\ UNCHANGED << app, server, keep_var_on_stack, flags, root, port, epollThread,
                  freed, signal >>

\* A prespawned thread finds stop_server or the kill switch set.
PrespawnedEnds(p) ==
  /\ pool[p] = "idle"
  /\ stop_server # 0 \/ kill
  /\ pool' = [pool EXCEPT ![p] = "ended"]
  /\ UNCHANGED << app, server, keep_var_on_stack, flags, root, port, epollThread,
                  fresh, freed, signal >>

\* So does the epoll layer, after its epoll_wait.
EpollEnds ==
  /\ epollThread = "running"
  /\ stop_server # 0 \/ kill
  /\ epollThread' = "ended"
  /\ UNCHANGED << app, server, keep_var_on_stack, flags, root, port, pool, fresh,
                  freed, signal >>

-----------------------------------------------------------------------------
(* AmmServer_GlobalTerminationHandler *)

Terminate ==
  /\ Signals
  /\ app # "start"
  /\ ~kill
  /\ kill' = TRUE
  /\ UNCHANGED << app, server, keep_var_on_stack, flags, root, port, threads,
                  freed, exited >>

Exit ==
  /\ kill
  /\ exited' = TRUE
  /\ UNCHANGED << app, server, keep_var_on_stack, flags, root, port, threads,
                  freed, kill >>

-----------------------------------------------------------------------------
Application == Start \/ StartReturns \/ StartFails \/ Stop \/ Teardown

ServerThread ==
  /\ ~freed
  /\ \/ SocketFails \/ SignalParent \/ ReadFlagBack \/ BindFails \/ BindGivesUp
     \/ Bind \/ ListenFails \/ Listen \/ LeaveLoop \/ ServerEnds

Workers ==
  /\ ~freed
  /\ \/ Dispatch
     \/ ClientServed
     \/ \E p \in Prespawned : PrespawnedEnds(p)
     \/ EpollEnds

Next ==
  /\ ~exited
  /\ Application \/ ServerThread \/ Workers \/ Terminate \/ Exit

Spec == Init /\ [][Next]_vars

\* The two threads of the start handshake run.
FairSpec == Spec /\ WF_vars(~exited /\ Application) /\ WF_vars(~exited /\ ServerThread)

-----------------------------------------------------------------------------
(* Properties *)

\* What the server thread copies out of the context (instance, port, address), it
\* copies while StartThreadedHTTPServer has not returned: the context lies on its
\* stack.
ContextOutlivesCopy == server = "setup" => app = "handshake"

\* The parent keeps the context on its stack until the child has done with it, as
\* threadInitHelper.h:76 says of the flag, "so that the parent will keep it in his
\* stack".  The child does not stop there: it reads the flag once more.
ContextOutlivesReader == server \in {"setup", "signalled"} => app = "handshake"

\* AmmServer_Start comes back to the application, also when the server thread
\* cannot even make its socket.
StartComesBack == app = "handshake" ~> (app # "handshake" \/ exited)

\* A server thread that has given up is seen as not running, so that the
\* application's loop over AmmServer_Running ends.
DeadServerIsNotRunning == server = "ended" => ~server_running

\* The instance is not freed under the main server thread, the epoll layer or
\* a prespawned thread: they have ended by the time AmmServer_Stop frees it.
InstanceOutlivesThreads ==
  freed => /\ server \in {"none", "ended"}
           /\ epollThread # "running"
           /\ \A p \in Prespawned : pool[p] \in {"none", "ended"}

\* Root's privileges go only after the port that needs them is bound.
BoundBeforeRootDropped ==
  PrivilegedPort /\ ~root /\ app = "running" => bound \/ server = "ended"

\* A server thread that reports that it cannot bind holds no port.
GaveUpUnbound ==
  [][ server = "binding" /\ server' = "ended" => ~bound' ]_vars
=============================================================================
