---------------------------- MODULE PreSpawnedPool ----------------------------
(***************************************************************************)
(* The pool of prespawned worker threads (threads/prespawnedThreads.c).    *)
(*                                                                         *)
(* Every slot has a mutex, a condition variable and one worker.  The       *)
(* accept loop and the epoll accept layer hand connections over by filling *)
(* a slot that is not busy and signalling it; the worker waits with a      *)
(* timeout, serves, and frees the slot.  What runs under a slot's mutex    *)
(* touches only that slot, so each critical section is one step; the wait  *)
(* on the condition variable ends one.  prespawn_turn_to_serve has no      *)
(* lock: each load and store of it is a step of its own, so that with two  *)
(* dispatchers one may see the value N which the other is about to reduce. *)
(* A dispatcher that has taken N for a slot would lock what lies behind    *)
(* the pool; its description ends there.                                   *)
(***************************************************************************)
EXTENDS Naturals, FiniteSets

CONSTANTS
  Clients,                        \* connections to hand over
  Dispatchers,                    \* threads that hand connections over
  MAX_CLIENT_PRESPAWNED_THREADS,  \* -prefork N
  Created,                        \* slots whose pthread_create succeeded
  MayStop,                        \* whether stop_server may be set
  NoClient

ASSUME PreSpawnAssumption ==
  /\ MAX_CLIENT_PRESPAWNED_THREADS \in Nat \ {0}
  /\ Created \subseteq 0 .. MAX_CLIENT_PRESPAWNED_THREADS - 1
  /\ MayStop \in BOOLEAN
  /\ NoClient \notin Clients

N == MAX_CLIENT_PRESPAWNED_THREADS
Slots == 0 .. N - 1

VARIABLES
  busy, clientsock,   \* the fields of each slot
  signalled,          \* a signal has been sent to the slot's waiting worker
  worker,             \* where each worker is
  context,            \* the worker's own copy of the job
  disp,               \* each dispatcher: where it is, and its locals
  prespawn_turn_to_serve,
  stop_server,
  sock                \* who is responsible for each connection

slotVars == << busy, clientsock, signalled >>
vars == << busy, clientsock, signalled, worker, context, disp,
           prespawn_turn_to_serve, stop_server, sock >>

DispatcherLocals ==
  [ pc : {"idle", "turn", "reset", "read", "try", "scan", "next", "wrap"},
    client : Clients \cup {NoClient},
    candidate : 0 .. N,
    i : 0 .. N ]

\* A slot that has been filled is one of the pool.
DispatcherState == {r \in DispatcherLocals : r.pc \in {"next", "wrap"} => r.candidate \in Slots}

\* "fresh": no prespawned thread took it, SpawnThreadToServeNewClient is next.
SockState == {"waiting", "dispatcher", "slot", "fresh", "closed", "leaked"}

TypeOK ==
  /\ busy \in [Slots -> BOOLEAN]
  /\ clientsock \in [Slots -> Clients \cup {NoClient}]
  /\ signalled \in [Slots -> BOOLEAN]
  /\ worker \in [Slots -> {"top", "lock", "wait", "serve", "free", "exit"}]
  /\ context \in [Slots -> Clients \cup {NoClient}]
  /\ disp \in [Dispatchers -> DispatcherState]
  /\ prespawn_turn_to_serve \in 0 .. N
  /\ stop_server \in BOOLEAN
  /\ sock \in [Clients -> SockState]

\* PreSpawnThreads: every slot is cleared before its thread is created; a slot
\* whose thread could not be created stays in the pool.
Init ==
  /\ busy = [s \in Slots |-> FALSE]
  /\ clientsock = [s \in Slots |-> NoClient]
  /\ signalled = [s \in Slots |-> FALSE]
  /\ worker = [s \in Slots |-> IF s \in Created THEN "top" ELSE "exit"]
  /\ context = [s \in Slots |-> NoClient]
  /\ disp = [d \in Dispatchers |->
               [pc |-> "idle", client |-> NoClient, candidate |-> 0, i |-> 0]]
  /\ prespawn_turn_to_serve = 0
  /\ stop_server = FALSE
  /\ sock = [c \in Clients |-> "waiting"]

-----------------------------------------------------------------------------
(* The worker: PreSpawnedThread *)

\* Mutant: the loop condition is inverted.
LoopTestInverted(s) ==
  /\ worker[s] = "top"
  /\ worker' = [worker EXCEPT ![s] = IF stop_server THEN "lock" ELSE "exit"]
  /\ UNCHANGED << slotVars, context, disp, prespawn_turn_to_serve, stop_server,
                  sock >>

\* The loop condition is read without a lock.
LoopTest(s) ==
  /\ worker[s] = "top"
  /\ worker' = [worker EXCEPT ![s] = IF stop_server THEN "exit" ELSE "lock"]
  /\ UNCHANGED << slotVars, context, disp, prespawn_turn_to_serve, stop_server,
                  sock >>

\* Under the mutex, a busy slot is copied to the worker's context.
TakeJob(s) ==
  /\ busy[s]
  /\ context' = [context EXCEPT ![s] = clientsock[s]]
  /\ worker' = [worker EXCEPT ![s] = "serve"]

\* Mutant: the worker frees the slot as soon as it has copied the job.
LockSlotFreesEarly(s) ==
  /\ worker[s] = "lock"
  /\ \/ /\ TakeJob(s)
        /\ busy' = [busy EXCEPT ![s] = FALSE]
     \/ /\ ~busy[s]
        /\ worker' = [worker EXCEPT ![s] = "wait"]
        /\ UNCHANGED << busy, context >>
  /\ signalled' = [signalled EXCEPT ![s] = FALSE]
  /\ UNCHANGED << clientsock, disp, prespawn_turn_to_serve, stop_server, sock >>

\* Lock the slot: take its job, or wait for the condition variable.
LockSlot(s) ==
  /\ worker[s] = "lock"
  /\ \/ TakeJob(s)
     \/ /\ ~busy[s]
        /\ worker' = [worker EXCEPT ![s] = "wait"]
        /\ UNCHANGED context
  /\ signalled' = [signalled EXCEPT ![s] = FALSE]
  /\ UNCHANGED << busy, clientsock, disp, prespawn_turn_to_serve, stop_server,
                  sock >>

\* The wait ends and busy is tested again.
WakeUp(s) ==
  /\ worker[s] = "wait"
  /\ \/ TakeJob(s)
     \/ /\ ~busy[s]
        /\ worker' = [worker EXCEPT ![s] = "top"]
        /\ UNCHANGED context
  /\ signalled' = [signalled EXCEPT ![s] = FALSE]
  /\ UNCHANGED << busy, clientsock, disp, prespawn_turn_to_serve, stop_server,
                  sock >>

\* The wait ends because of pthread_cond_signal ...
Signalled(s) == signalled[s] /\ WakeUp(s)

\* ... or after 200 ms, or for no reason.
TimedOut(s) == ~signalled[s] /\ WakeUp(s)

\* ServeClientAfterUnpackingThreadMessage returns: the socket is closed, or
\* setSocketTimeouts failed and nobody closed it.
Serve(s) ==
  /\ worker[s] = "serve"
  /\ \E end \in {"closed", "leaked"} :
       sock' = [sock EXCEPT ![context[s]] = end]
  /\ worker' = [worker EXCEPT ![s] = "free"]
  /\ UNCHANGED << slotVars, context, disp, prespawn_turn_to_serve, stop_server >>

\* Only now is the slot free for another connection.
FreeSlot(s) ==
  /\ worker[s] = "free"
  /\ busy' = [busy EXCEPT ![s] = FALSE]
  /\ worker' = [worker EXCEPT ![s] = "top"]
  /\ UNCHANGED << clientsock, signalled, context, disp, prespawn_turn_to_serve,
                  stop_server, sock >>

-----------------------------------------------------------------------------
(* The dispatcher: UsePreSpawnedThreadToServeNewClient *)

\* dispatch_accepted_client is called with a connection.
Accept(d, c) ==
  /\ disp[d].pc = "idle"
  /\ sock[c] = "waiting"
  /\ sock' = [sock EXCEPT ![c] = "dispatcher"]
  /\ disp' = [disp EXCEPT ![d] = [@ EXCEPT !.pc = "turn", !.client = c]]
  /\ UNCHANGED << slotVars, worker, context, prespawn_turn_to_serve,
                  stop_server >>

\* Is the turn past the last slot?
TestTurn(d) ==
  /\ disp[d].pc = "turn"
  /\ disp' = [disp EXCEPT ![d] =
       [@ EXCEPT !.pc = IF prespawn_turn_to_serve >= N THEN "reset" ELSE "read",
                 !.candidate = prespawn_turn_to_serve]]
  /\ UNCHANGED << slotVars, worker, context, prespawn_turn_to_serve, stop_server,
                  sock >>

\* Then back to 0.
ResetTurn(d) ==
  /\ disp[d].pc = "reset"
  /\ prespawn_turn_to_serve' = 0
  /\ disp' = [disp EXCEPT ![d] = [@ EXCEPT !.pc = "read", !.candidate = 0]]
  /\ UNCHANGED << slotVars, worker, context, stop_server, sock >>

\* candidate = prespawn_turn_to_serve: read again, or what the compiler has kept
\* in a register from the test or the reset.
ReadTurn(d) ==
  /\ disp[d].pc = "read"
  /\ \E turn \in {prespawn_turn_to_serve, disp[d].candidate} :
       disp' = [disp EXCEPT ![d] = [@ EXCEPT !.pc = "try", !.candidate = turn]]
  /\ UNCHANGED << slotVars, worker, context, prespawn_turn_to_serve, stop_server,
                  sock >>

\* Mutant: the slot is filled whether or not it is busy.
FillBusySlot(d, s) ==
  /\ busy' = [busy EXCEPT ![s] = TRUE]
  /\ clientsock' = [clientsock EXCEPT ![s] = disp[d].client]
  /\ signalled' = [signalled EXCEPT ![s] = worker[s] = "wait"]
  /\ sock' = [sock EXCEPT ![disp[d].client] = "slot"]
  /\ disp' = [disp EXCEPT ![d] = [@ EXCEPT !.pc = "next", !.candidate = s]]

\* Mutant: the worker is not signalled.
FillSlotSilently(d, s) ==
  /\ ~busy[s]
  /\ busy' = [busy EXCEPT ![s] = TRUE]
  /\ clientsock' = [clientsock EXCEPT ![s] = disp[d].client]
  /\ sock' = [sock EXCEPT ![disp[d].client] = "slot"]
  /\ disp' = [disp EXCEPT ![d] = [@ EXCEPT !.pc = "next", !.candidate = s]]
  /\ UNCHANGED signalled

\* Fill the slot, set busy last, signal the worker.
FillSlot(d, s) ==
  /\ ~busy[s]
  /\ busy' = [busy EXCEPT ![s] = TRUE]
  /\ clientsock' = [clientsock EXCEPT ![s] = disp[d].client]
  /\ signalled' = [signalled EXCEPT ![s] = worker[s] = "wait"]
  /\ sock' = [sock EXCEPT ![disp[d].client] = "slot"]
  /\ disp' = [disp EXCEPT ![d] = [@ EXCEPT !.pc = "next", !.candidate = s]]

\* Lock the candidate; if it is busy, scan the pool from slot 0.
TryCandidate(d) ==
  LET s == disp[d].candidate IN
  /\ disp[d].pc = "try"
  /\ s \in Slots
  /\ \/ FillSlot(d, s)
     \/ /\ busy[s]
        /\ disp' = [disp EXCEPT ![d] = [@ EXCEPT !.pc = "scan", !.i = 0]]
        /\ UNCHANGED << slotVars, sock >>
  /\ UNCHANGED << worker, context, prespawn_turn_to_serve, stop_server >>

\* Lock slot i of the scan; past the last one, return 0.
ScanSlot(d) ==
  LET s == disp[d].i IN
  /\ disp[d].pc = "scan"
  /\ \/ /\ s < N
        /\ FillSlot(d, s)
     \/ /\ s < N
        /\ busy[s]
        /\ disp' = [disp EXCEPT ![d] = [@ EXCEPT !.i = s + 1]]
        /\ UNCHANGED << slotVars, sock >>
     \/ /\ s = N
        /\ sock' = [sock EXCEPT ![disp[d].client] = "fresh"]
        /\ disp' = [disp EXCEPT ![d] = [@ EXCEPT !.pc = "idle",
                                                 !.client = NoClient]]
        /\ UNCHANGED slotVars
  /\ UNCHANGED << worker, context, prespawn_turn_to_serve, stop_server >>

\* Round robin: the next slot, which may be past the last one ...
StoreTurn(d) ==
  /\ disp[d].pc = "next"
  /\ prespawn_turn_to_serve' = disp[d].candidate + 1
  /\ disp' = [disp EXCEPT ![d] = [@ EXCEPT !.pc = "wrap"]]
  /\ UNCHANGED << slotVars, worker, context, stop_server, sock >>

\* ... until it has been taken modulo N, read again or not.
WrapTurn(d) ==
  /\ disp[d].pc = "wrap"
  /\ \E turn \in {prespawn_turn_to_serve, disp[d].candidate + 1} :
       prespawn_turn_to_serve' = turn % N
  /\ disp' = [disp EXCEPT ![d] = [@ EXCEPT !.pc = "idle", !.client = NoClient]]
  /\ UNCHANGED << slotVars, worker, context, stop_server, sock >>

\* The main thread leaves its loop.
StopServer ==
  /\ MayStop
  /\ ~stop_server
  /\ stop_server' = TRUE
  /\ UNCHANGED << slotVars, worker, context, disp, prespawn_turn_to_serve, sock >>

-----------------------------------------------------------------------------
Work(s) == LoopTest(s) \/ LockSlot(s) \/ Signalled(s) \/ TimedOut(s) \/ Serve(s)
           \/ FreeSlot(s)

Dispatch(d) ==
  \/ \E c \in Clients : Accept(d, c)
  \/ TestTurn(d)
  \/ ResetTurn(d)
  \/ ReadTurn(d)
  \/ TryCandidate(d)
  \/ ScanSlot(d)
  \/ StoreTurn(d)
  \/ WrapTurn(d)

Next ==
  \/ \E s \in Slots : Work(s)
  \/ \E d \in Dispatchers : Dispatch(d)
  \/ StopServer

Spec == Init /\ [][Next]_vars

\* Threads keep running and served clients finish, but no timeout is needed:
\* the 200 ms wait may be as long as it likes.
WorkWithoutTimeout(s) ==
  LoopTest(s) \/ LockSlot(s) \/ Signalled(s) \/ Serve(s) \/ FreeSlot(s)

Fairness ==
  /\ \A s \in Slots : WF_vars(WorkWithoutTimeout(s))
  /\ \A d \in Dispatchers : WF_vars(Dispatch(d))

FairSpec == Spec /\ Fairness

-----------------------------------------------------------------------------
(* Properties *)

\* The slots that hold a connection for their worker.
Holding(c) == {s \in Slots : busy[s] /\ clientsock[s] = c /\ worker[s] # "free"}

\* A connection UsePreSpawnedThreadToServeNewClient accepted is in exactly one
\* slot until it has been served, and the slot is not given a second one:
\* neither two dispatchers nor a busy worker ever lose or share a connection.
HandedOverOnce ==
  \A c \in Clients :
    /\ sock[c] = "slot" => Cardinality(Holding(c)) = 1
    /\ Holding(c) # {} => sock[c] = "slot"

\* The worker serves the connection its slot holds, and the slot stays busy
\* while it does.
ServesItsSlot ==
  \A s \in Slots :
    worker[s] = "serve" => busy[s] /\ clientsock[s] = context[s]

\* A worker that sleeps next to a job has been signalled: with the test and the
\* wait under one mutex no wake-up is lost.
NoLostWakeup ==
  \A s \in Slots : busy[s] /\ worker[s] = "wait" => signalled[s]

\* UsePreSpawnedThreadToServeNewClient picks a slot of the pool.  Its comment
\* (prespawnedThreads.c:146) asks for one caller, "Please note that this must only
\* get called from the main process/thread..", which this needs; the epoll accept
\* layer is a second one.
IndexInPool == \A d \in Dispatchers : disp[d].pc = "try" => disp[d].candidate \in Slots

\* A slot whose thread could not be created has taken the connection.
WithoutThread(c) == \E s \in Slots \ Created : busy[s] /\ clientsock[s] = c

\* A connection that was accepted for a prespawned thread is served by it, with
\* no help from the 200 ms timeout, unless the server stops or the slot has no
\* thread.
HandedOverIsServed ==
  \A c \in Clients :
    (sock[c] = "slot")
      ~> (sock[c] \in {"closed", "leaked"} \/ stop_server \/ WithoutThread(c))
=============================================================================
