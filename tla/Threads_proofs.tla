-------------------------- MODULE Threads_proofs -----------------------
(***************************************************************************)
(* The threads of an instance.  First the hand-over of connections to      *)
(* prespawned threads (PreSpawnedPool), for any number of slots,           *)
(* dispatchers and clients, with slots that have no thread and a stop at   *)
(* any time: a connection is in one slot, its worker serves that one, and  *)
(* no wake-up is lost.  Then starting and stopping (ServerLifecycle, as    *)
(* Life), for any number of tries to bind, any threads and any order of    *)
(* stops and signals: the start handshake, and the one way of stopping     *)
(* under which nothing is freed under a thread.                            *)
(***************************************************************************)
EXTENDS MC_Threads, FiniteSetTheorems, TLAPS

-----------------------------------------------------------------------------
(* The hand-over to prespawned threads *)

\* The next turn may be N, and is inside the pool again once it has been reduced.
LEMMA TurnInRange ==
  /\ \A i \in Slots : i + 1 \in 0 .. N
  /\ \A i \in 0 .. N : i % N \in Slots
  /\ Slots \subseteq 0 .. N
  BY PreSpawnAssumption DEF PreSpawnAssumption, Slots, N

\* The locals of a dispatcher that goes on to another step.
LEMMA DispatcherTypes ==
  ASSUME NEW r \in DispatcherState
  PROVE  /\ \A c \in Clients : [r EXCEPT !.pc = "turn", !.client = c] \in DispatcherState
         /\ \A pc \in {"reset", "read", "try"}, t \in 0 .. N :
              [r EXCEPT !.pc = pc, !.candidate = t] \in DispatcherState
         /\ \A s \in Slots : [r EXCEPT !.pc = "next", !.candidate = s] \in DispatcherState
         /\ r.pc = "next" => [r EXCEPT !.pc = "wrap"] \in DispatcherState
         /\ [r EXCEPT !.pc = "scan", !.i = 0] \in DispatcherState
         /\ \A s \in Slots : [r EXCEPT !.i = s + 1] \in DispatcherState
         /\ [r EXCEPT !.pc = "idle", !.client = NoClient] \in DispatcherState
<1>1. 0 \in 0 .. N /\ \A s \in Slots : s + 1 \in 0 .. N /\ s \in 0 .. N
  BY PreSpawnAssumption DEF PreSpawnAssumption, Slots, N
<1> QED
  BY <1>1 DEF DispatcherState, DispatcherLocals

\* Every step of a worker, of a dispatcher and of the stop keeps the types.
LEMMA TypeStep == TypeOK /\ [Next]_vars => TypeOK'
<1> SUFFICES ASSUME TypeOK, [Next]_vars PROVE TypeOK'
  OBVIOUS
<1>1. CASE UNCHANGED vars
  BY <1>1 DEF vars, TypeOK
<1>2. CASE StopServer
  BY <1>2 DEF StopServer, slotVars, TypeOK
<1>3. ASSUME NEW s \in Slots, Work(s) PROVE TypeOK'
  <2>1. CASE LoopTest(s)
    BY <2>1 DEF LoopTest, slotVars, TypeOK
  <2>2. CASE LockSlot(s)
    BY <2>2 DEF LockSlot, TakeJob, TypeOK
  <2>3. CASE WakeUp(s)
    BY <2>3 DEF WakeUp, TakeJob, TypeOK
  <2>4. CASE Serve(s)
    BY <2>4 DEF Serve, slotVars, TypeOK, SockState
  <2>5. CASE FreeSlot(s)
    BY <2>5 DEF FreeSlot, TypeOK
  <2> QED
    BY <1>3, <2>1, <2>2, <2>3, <2>4, <2>5 DEF Work, Signalled, TimedOut
<1>4. ASSUME NEW d \in Dispatchers, Dispatch(d) PROVE TypeOK'
  <2> DEFINE r == disp[d]
  <2>0. /\ r \in DispatcherState /\ r.candidate \in 0 .. N
        /\ prespawn_turn_to_serve \in 0 .. N /\ 0 \in 0 .. N
    BY PreSpawnAssumption DEF TypeOK, DispatcherState, DispatcherLocals, PreSpawnAssumption, N
  <2>1. ASSUME NEW c \in Clients, Accept(d, c) PROVE TypeOK'
    BY <2>0, <2>1, DispatcherTypes DEF Accept, slotVars, TypeOK, SockState
  <2>2. CASE TestTurn(d) \/ ResetTurn(d) \/ ReadTurn(d)
    <3>1. PICK pc \in {"reset", "read", "try"}, t \in 0 .. N :
            disp' = [disp EXCEPT ![d] = [@ EXCEPT !.pc = pc, !.candidate = t]]
      BY <2>0, <2>2 DEF TestTurn, ResetTurn, ReadTurn
    <3>2. prespawn_turn_to_serve' \in 0 .. N
      BY <2>0, <2>2 DEF TestTurn, ResetTurn, ReadTurn
    <3>3. UNCHANGED << slotVars, worker, context, stop_server, sock >>
      BY <2>2 DEF TestTurn, ResetTurn, ReadTurn
    <3> QED
      BY <2>0, <3>1, <3>2, <3>3, DispatcherTypes DEF slotVars, TypeOK
  <2>3. ASSUME NEW s \in Slots, FillSlot(d, s),
               UNCHANGED << worker, context, prespawn_turn_to_serve, stop_server >>
        PROVE  TypeOK'
    <3>1. r.client \in Clients \cup {NoClient}
      BY <2>0 DEF DispatcherState, DispatcherLocals
    <3>2. disp' \in [Dispatchers -> DispatcherState]
      BY <2>0, <2>3, DispatcherTypes DEF FillSlot, TypeOK
    <3>3. sock' \in [Clients -> SockState]
      BY <2>3 DEF FillSlot, TypeOK, SockState
    <3> QED
      BY <2>3, <3>1, <3>2, <3>3 DEF FillSlot, TypeOK
  <2>4. CASE TryCandidate(d)
    <3>1. CASE FillSlot(d, r.candidate)
      BY <2>0, <2>3, <2>4, <3>1 DEF TryCandidate
    <3>2. CASE ~FillSlot(d, r.candidate)
      BY <2>0, <2>4, <3>2, DispatcherTypes DEF TryCandidate, slotVars, TypeOK
    <3> QED
      BY <3>1, <3>2
  <2>5. CASE ScanSlot(d)
    <3>0. r.i < N => r.i \in Slots
      BY <2>0, PreSpawnAssumption
      DEF DispatcherState, DispatcherLocals, PreSpawnAssumption, Slots, N
    <3>1. CASE r.i < N /\ FillSlot(d, r.i)
      BY <2>3, <2>5, <3>0, <3>1 DEF ScanSlot
    <3>2. CASE /\ r.i < N
               /\ disp' = [disp EXCEPT ![d] = [@ EXCEPT !.i = r.i + 1]]
               /\ UNCHANGED << slotVars, sock, worker, context,
                               prespawn_turn_to_serve, stop_server >>
      BY <2>0, <3>0, <3>2, DispatcherTypes DEF slotVars, TypeOK
    <3>3. CASE /\ sock' = [sock EXCEPT ![r.client] = "fresh"]
               /\ disp' = [disp EXCEPT ![d] = [@ EXCEPT !.pc = "idle",
                                                        !.client = NoClient]]
               /\ UNCHANGED << slotVars, worker, context,
                               prespawn_turn_to_serve, stop_server >>
      BY <2>0, <3>3, DispatcherTypes DEF slotVars, TypeOK, SockState
    <3> QED
      BY <2>5, <3>1, <3>2, <3>3 DEF ScanSlot
  <2>6. CASE StoreTurn(d)
    <3>1. r.candidate + 1 \in 0 .. N
      BY <2>0, <2>6, TurnInRange DEF StoreTurn, DispatcherState
    <3> QED
      BY <2>0, <2>6, <3>1, DispatcherTypes DEF StoreTurn, slotVars, TypeOK
  <2>7. CASE WrapTurn(d)
    <3>1. r.candidate + 1 \in 0 .. N
      BY <2>0, <2>7, TurnInRange DEF WrapTurn, DispatcherState
    <3>2. prespawn_turn_to_serve' \in 0 .. N
      BY <2>0, <2>7, <3>1, TurnInRange DEF WrapTurn
    <3> QED
      BY <2>0, <2>7, <3>2, DispatcherTypes DEF WrapTurn, slotVars, TypeOK
  <2> QED
    BY <1>4, <2>1, <2>2, <2>4, <2>5, <2>6, <2>7 DEF Dispatch
<1> QED
  BY <1>1, <1>2, <1>3, <1>4 DEF Next

\* PreSpawnThreads leaves a pool of the right types.
LEMMA TypeInit == Init => TypeOK
<1> SUFFICES ASSUME Init PROVE TypeOK
  OBVIOUS
<1>1. 0 \in Slots /\ 0 \in 0 .. N
  BY PreSpawnAssumption DEF PreSpawnAssumption, Slots, N
<1>2. [pc |-> "idle", client |-> NoClient, candidate |-> 0, i |-> 0] \in DispatcherState
  BY <1>1 DEF DispatcherState, DispatcherLocals
<1>3. disp \in [Dispatchers -> DispatcherState]
  BY <1>2 DEF Init
<1>4. worker \in [Slots -> {"top", "lock", "wait", "serve", "free", "exit"}]
  BY DEF Init
<1> QED
  BY <1>1, <1>3, <1>4 DEF Init, TypeOK, SockState

\* The slots' fields, the workers and the dispatchers' locals stay in their types; the
\* turn that UsePreSpawnedThreadToServeNewClient stores is never more than one past
\* the pool, and a slot that it has filled is in it.
THEOREM PreSpawnedTypeCorrect == Spec => []TypeOK
  BY TypeInit, TypeStep, PTL DEF Spec

-----------------------------------------------------------------------------
\* The slots that hold a connection their worker has not finished with.
Full == {s \in Slots : busy[s] /\ worker[s] # "free"}

\* The dispatchers that have a connection and no slot for it yet.
Carrying == {d \in Dispatchers : disp[d].pc \in {"turn", "reset", "read", "try", "scan"}}

\* A worker's position goes with its slot: busy while it serves and until it
\* frees the slot, and signalled if it still waits.
WorkerInStep ==
  \A s \in Slots :
    /\ worker[s] \in {"serve", "free"} => busy[s]
    /\ worker[s] = "serve" => clientsock[s] = context[s]
    /\ worker[s] = "wait" /\ busy[s] => signalled[s]

\* Full slots hold the connections that are accounted to slots, each one once.
SlotsHold ==
  /\ \A s \in Full : clientsock[s] \in Clients /\ sock[clientsock[s]] = "slot"
  /\ \A s, q \in Full : clientsock[s] = clientsock[q] => s = q
  /\ \A c \in Clients : sock[c] = "slot" => \E s \in Full : clientsock[s] = c

\* Dispatchers carry different connections, none of which is in a slot.
DispatchersCarry ==
  /\ \A d \in Carrying : disp[d].client \in Clients /\ sock[disp[d].client] = "dispatcher"
  /\ \A d, e \in Carrying : disp[d].client = disp[e].client => d = e

HandOver == WorkerInStep /\ SlotsHold /\ DispatchersCarry

\* A dispatcher that fills a slot gives up its connection to it, and nobody
\* else's: the slot was free, and so was its worker.
LEMMA FillKeeps ==
  ASSUME TypeOK, HandOver, NEW d \in Carrying, NEW s \in Slots, FillSlot(d, s),
         UNCHANGED << worker, context >>
  PROVE  HandOver'
<1> DEFINE c == disp[d].client
<1>0. /\ ~busy[s] /\ worker[s] \notin {"serve", "free"}
      /\ c \in Clients /\ sock[c] = "dispatcher"
      /\ busy' = [busy EXCEPT ![s] = TRUE]
      /\ clientsock' = [clientsock EXCEPT ![s] = c]
      /\ signalled' = [signalled EXCEPT ![s] = worker[s] = "wait"]
      /\ sock' = [sock EXCEPT ![c] = "slot"]
      /\ d \in Dispatchers
      /\ disp' = [disp EXCEPT ![d] = [@ EXCEPT !.pc = "next", !.candidate = s]]
  BY DEF FillSlot, HandOver, WorkerInStep, DispatchersCarry, Carrying
<1>1. WorkerInStep'
  BY <1>0 DEF TypeOK, HandOver, WorkerInStep
<1>2. Full' = Full \cup {s} /\ s \notin Full
  BY <1>0 DEF Full, TypeOK
<1>3. \A q \in Full : clientsock'[q] = clientsock[q] /\ clientsock[q] # c
  BY <1>0, <1>2 DEF Full, TypeOK, HandOver, SlotsHold
<1>4. clientsock'[s] = c /\ sock'[c] = "slot"
  BY <1>0 DEF TypeOK
<1>5. \A b \in Clients : b # c => sock'[b] = sock[b]
  BY <1>0 DEF TypeOK
<1>6. SlotsHold'
  BY <1>0, <1>2, <1>3, <1>4, <1>5 DEF HandOver, SlotsHold
<1>7. /\ Carrying' = Carrying \ {d}
      /\ \A e \in Carrying' : disp'[e] = disp[e]
  BY <1>0 DEF Carrying, TypeOK, DispatcherState, DispatcherLocals
<1>8. DispatchersCarry'
  BY <1>5, <1>7 DEF HandOver, DispatchersCarry
<1> QED
  BY <1>1, <1>6, <1>8 DEF HandOver

\* A step that leaves slots, workers and connections alone only has to keep the
\* dispatchers in order.
LEMMA DispatcherOnly ==
  ASSUME TypeOK, HandOver,
         UNCHANGED << slotVars, worker, context, sock >>,
         Carrying' \subseteq Carrying,
         \A e \in Carrying' : disp'[e].client = disp[e].client
  PROVE  HandOver'
<1>1. WorkerInStep' /\ SlotsHold'
  BY DEF slotVars, HandOver, WorkerInStep, SlotsHold, Full
<1>2. DispatchersCarry'
  BY DEF HandOver, DispatchersCarry
<1> QED
  BY <1>1, <1>2 DEF HandOver

\* A worker that moves on without finishing a job or freeing its slot.
LEMMA WorkerOnly ==
  ASSUME TypeOK, HandOver, NEW s \in Slots, NEW label,
         worker[s] # "free", label # "free",
         worker' = [worker EXCEPT ![s] = label],
         WorkerInStep',
         UNCHANGED << busy, clientsock, disp, sock >>
  PROVE  HandOver'
<1>1. Full' = Full
  BY DEF Full, TypeOK
<1>2. SlotsHold'
  BY <1>1 DEF HandOver, SlotsHold
<1>3. DispatchersCarry'
  BY DEF HandOver, DispatchersCarry, Carrying
<1> QED
  BY <1>2, <1>3 DEF HandOver

\* No step of a worker, of a dispatcher or of the stop loses or shares a
\* connection.
LEMMA HandOverStep == TypeOK /\ HandOver /\ [Next]_vars => HandOver'
<1> SUFFICES ASSUME TypeOK, HandOver, [Next]_vars PROVE HandOver'
  OBVIOUS
<1>1. CASE UNCHANGED vars
  BY <1>1, DispatcherOnly DEF vars, slotVars, Carrying
<1>2. CASE StopServer
  BY <1>2, DispatcherOnly DEF StopServer, Carrying
<1>3. ASSUME NEW s \in Slots, Work(s) PROVE HandOver'
  <2>0. /\ worker \in [Slots -> {"top", "lock", "wait", "serve", "free", "exit"}]
        /\ busy \in [Slots -> BOOLEAN]
        /\ signalled \in [Slots -> BOOLEAN]
        /\ context \in [Slots -> Clients \cup {NoClient}]
        /\ WorkerInStep
    BY DEF TypeOK, HandOver
  <2>1. CASE LoopTest(s)
    <3>1. PICK label \in {"exit", "lock"} : worker' = [worker EXCEPT ![s] = label]
      BY <2>1 DEF LoopTest
    <3>2. WorkerInStep'
      BY <2>0, <2>1, <3>1 DEF LoopTest, slotVars, WorkerInStep
    <3> QED
      BY <2>1, <3>1, <3>2, WorkerOnly DEF LoopTest, slotVars
  <2>2. CASE LockSlot(s) \/ WakeUp(s)
    <3>0. /\ worker[s] \in {"lock", "wait"}
          /\ signalled' = [signalled EXCEPT ![s] = FALSE]
          /\ UNCHANGED << busy, clientsock, disp, sock >>
      BY <2>2 DEF LockSlot, WakeUp
    <3>1. CASE TakeJob(s)
      <4>1. WorkerInStep'
        BY <2>0, <3>0, <3>1 DEF TakeJob, WorkerInStep
      <4> QED
        BY <3>0, <3>1, <4>1, WorkerOnly DEF TakeJob
    <3>2. CASE ~TakeJob(s)
      <4>1. ~busy[s] /\ UNCHANGED context
        BY <2>2, <3>2 DEF LockSlot, WakeUp
      <4>2. PICK label \in {"wait", "top"} : worker' = [worker EXCEPT ![s] = label]
        BY <2>2, <3>2 DEF LockSlot, WakeUp
      <4>3. WorkerInStep'
        BY <2>0, <3>0, <4>1, <4>2 DEF WorkerInStep
      <4> QED
        BY <3>0, <4>2, <4>3, WorkerOnly
    <3> QED
      BY <3>1, <3>2
  <2>3. CASE Serve(s)
    <3> DEFINE c == context[s]
    <3>0. /\ busy[s] /\ clientsock[s] = c /\ s \in Full
          /\ worker' = [worker EXCEPT ![s] = "free"]
          /\ UNCHANGED << busy, clientsock, signalled, context, disp >>
      BY <2>0, <2>3 DEF Serve, slotVars, WorkerInStep, Full
    <3>1. PICK end \in {"closed", "leaked"} : sock' = [sock EXCEPT ![c] = end]
      BY <2>3 DEF Serve
    <3>2. c \in Clients /\ sock[c] = "slot"
      BY <3>0 DEF HandOver, SlotsHold
    <3>3. Full' = Full \ {s}
      BY <2>0, <3>0 DEF Full
    <3>4. /\ sock'[c] # "slot"
          /\ \A b \in Clients : b # c => sock'[b] = sock[b]
      BY <3>1, <3>2 DEF TypeOK
    <3>5. WorkerInStep'
      BY <2>0, <3>0 DEF WorkerInStep
    <3>6. SlotsHold'
      BY <3>0, <3>2, <3>3, <3>4 DEF HandOver, SlotsHold
    <3>7. DispatchersCarry'
      BY <3>0, <3>2, <3>4 DEF HandOver, DispatchersCarry, Carrying
    <3> QED
      BY <3>5, <3>6, <3>7 DEF HandOver
  <2>4. CASE FreeSlot(s)
    <3>0. /\ worker[s] = "free"
          /\ worker' = [worker EXCEPT ![s] = "top"]
          /\ busy' = [busy EXCEPT ![s] = FALSE]
          /\ UNCHANGED << clientsock, signalled, context, disp, sock >>
      BY <2>4 DEF FreeSlot
    <3>1. Full' = Full
      BY <2>0, <3>0 DEF Full
    <3>2. WorkerInStep'
      BY <2>0, <3>0 DEF WorkerInStep
    <3>3. SlotsHold' /\ DispatchersCarry'
      BY <3>0, <3>1 DEF HandOver, SlotsHold, DispatchersCarry, Carrying
    <3> QED
      BY <3>2, <3>3 DEF HandOver
  <2> QED
    BY <1>3, <2>1, <2>2, <2>3, <2>4 DEF Work, Signalled, TimedOut
<1>4. ASSUME NEW d \in Dispatchers, Dispatch(d) PROVE HandOver'
  <2>0. disp \in [Dispatchers -> DispatcherState] /\ sock \in [Clients -> SockState]
    BY DEF TypeOK
  <2>1. ASSUME NEW c \in Clients, Accept(d, c) PROVE HandOver'
    <3>0. /\ sock[c] = "waiting" /\ sock' = [sock EXCEPT ![c] = "dispatcher"]
          /\ disp[d].pc = "idle"
          /\ disp' = [disp EXCEPT ![d] = [@ EXCEPT !.pc = "turn", !.client = c]]
          /\ UNCHANGED << busy, clientsock, signalled, worker, context >>
      BY <2>1 DEF Accept, slotVars
    <3>1. /\ sock'[c] = "dispatcher"
          /\ \A b \in Clients : b # c => sock'[b] = sock[b]
      BY <2>0, <3>0
    <3>2. Full' = Full /\ WorkerInStep'
      BY <3>0 DEF Full, HandOver, WorkerInStep
    <3>3. SlotsHold'
      BY <3>0, <3>1, <3>2 DEF HandOver, SlotsHold
    <3>4. /\ Carrying' = Carrying \cup {d}
          /\ disp'[d].client = c
          /\ \A e \in Carrying : e # d /\ disp'[e] = disp[e]
      BY <2>0, <3>0 DEF Carrying, DispatcherState, DispatcherLocals
    <3>5. DispatchersCarry'
      BY <3>0, <3>1, <3>4 DEF HandOver, DispatchersCarry
    <3> QED
      BY <3>2, <3>3, <3>5 DEF HandOver
  <2>2. ASSUME UNCHANGED << slotVars, worker, context, sock >>,
               NEW r, disp' = [disp EXCEPT ![d] = r],
               r.pc \in {"turn", "reset", "read", "try", "scan"} =>
                  d \in Carrying /\ r.client = disp[d].client
        PROVE  HandOver'
    <3>1. /\ Carrying' \subseteq Carrying
          /\ \A e \in Carrying' : disp'[e].client = disp[e].client
      BY <2>0, <2>2 DEF Carrying
    <3> QED
      BY <2>2, <3>1, DispatcherOnly
  <2>3. CASE TestTurn(d) \/ ResetTurn(d) \/ ReadTurn(d)
    <3>1. PICK pc \in {"reset", "read", "try"}, t \in 0 .. N :
            disp' = [disp EXCEPT ![d] = [@ EXCEPT !.pc = pc, !.candidate = t]]
      <4>1. disp[d].candidate \in 0 .. N /\ prespawn_turn_to_serve \in 0 .. N
        BY <2>0 DEF TypeOK, DispatcherState, DispatcherLocals
      <4>2. 0 \in 0 .. N
        BY PreSpawnAssumption DEF PreSpawnAssumption, N
      <4> QED
        BY <2>3, <4>1, <4>2 DEF TestTurn, ResetTurn, ReadTurn
    <3> DEFINE r == [disp[d] EXCEPT !.pc = pc, !.candidate = t]
    <3>2. r.client = disp[d].client /\ d \in Carrying
      BY <2>0, <2>3 DEF TestTurn, ResetTurn, ReadTurn, Carrying, DispatcherState,
                        DispatcherLocals
    <3>3. UNCHANGED << slotVars, worker, context, sock >>
      BY <2>3 DEF TestTurn, ResetTurn, ReadTurn
    <3> QED
      BY <2>2, <3>1, <3>2, <3>3
  <2>4. CASE TryCandidate(d)
    <3>0. d \in Carrying /\ disp[d].candidate \in Slots
      BY <2>0, <2>4 DEF TryCandidate, Carrying
    <3>1. CASE FillSlot(d, disp[d].candidate)
      BY <2>4, <3>0, <3>1, FillKeeps DEF TryCandidate
    <3>2. CASE ~FillSlot(d, disp[d].candidate)
      <4> DEFINE r == [disp[d] EXCEPT !.pc = "scan", !.i = 0]
      <4>1. r.client = disp[d].client
        BY <2>0 DEF DispatcherState, DispatcherLocals
      <4> QED
        BY <2>2, <2>4, <3>0, <3>2, <4>1 DEF TryCandidate
    <3> QED
      BY <3>1, <3>2
  <2>5. CASE ScanSlot(d)
    <3>0. d \in Carrying /\ (disp[d].i < N => disp[d].i \in Slots)
      BY <2>0, <2>5, PreSpawnAssumption
      DEF ScanSlot, Carrying, DispatcherState, DispatcherLocals, PreSpawnAssumption, Slots, N
    <3>1. CASE disp[d].i < N /\ FillSlot(d, disp[d].i)
      BY <2>5, <3>0, <3>1, FillKeeps DEF ScanSlot
    <3>2. CASE /\ disp' = [disp EXCEPT ![d] = [@ EXCEPT !.i = disp[d].i + 1]]
               /\ UNCHANGED << slotVars, sock, worker, context >>
      <4> DEFINE r == [disp[d] EXCEPT !.i = disp[d].i + 1]
      <4>1. r.client = disp[d].client
        BY <2>0 DEF DispatcherState, DispatcherLocals
      <4> QED
        BY <2>2, <3>0, <3>2, <4>1
    <3>3. CASE /\ sock' = [sock EXCEPT ![disp[d].client] = "fresh"]
               /\ disp' = [disp EXCEPT ![d] = [@ EXCEPT !.pc = "idle",
                                                        !.client = NoClient]]
               /\ UNCHANGED << slotVars, worker, context >>
      <4> DEFINE c == disp[d].client
      <4>0. c \in Clients /\ sock[c] = "dispatcher"
        BY <3>0 DEF HandOver, DispatchersCarry
      <4>1. /\ sock'[c] = "fresh"
            /\ \A b \in Clients : b # c => sock'[b] = sock[b]
        BY <2>0, <3>3, <4>0
      <4>2. Full' = Full /\ WorkerInStep'
        BY <3>3 DEF slotVars, Full, HandOver, WorkerInStep
      <4>3. SlotsHold'
        BY <3>3, <4>0, <4>1, <4>2 DEF slotVars, HandOver, SlotsHold
      <4>4. /\ Carrying' = Carrying \ {d}
            /\ \A e \in Carrying' : disp'[e] = disp[e]
        BY <2>0, <3>3 DEF Carrying, DispatcherState, DispatcherLocals
      <4>5. DispatchersCarry'
        BY <3>0, <4>1, <4>4 DEF HandOver, DispatchersCarry
      <4> QED
        BY <4>2, <4>3, <4>5 DEF HandOver
    <3> QED
      BY <2>5, <3>1, <3>2, <3>3 DEF ScanSlot
  <2>6. CASE StoreTurn(d)
    <3> DEFINE r == [disp[d] EXCEPT !.pc = "wrap"]
    <3>1. r.pc = "wrap"
      BY <2>0 DEF DispatcherState, DispatcherLocals
    <3> QED
      BY <2>2, <2>6, <3>1 DEF StoreTurn
  <2>7. CASE WrapTurn(d)
    <3> DEFINE r == [disp[d] EXCEPT !.pc = "idle", !.client = NoClient]
    <3>1. r.pc = "idle"
      BY <2>0 DEF DispatcherState, DispatcherLocals
    <3> QED
      BY <2>2, <2>7, <3>1 DEF WrapTurn
  <2> QED
    BY <1>4, <2>1, <2>3, <2>4, <2>5, <2>6, <2>7 DEF Dispatch
<1> QED
  BY <1>1, <1>2, <1>3, <1>4 DEF Next

\* What the runs check follows: the slots that hold a connection are one.
LEMMA HandOverMeans == TypeOK /\ HandOver => HandedOverOnce /\ ServesItsSlot /\ NoLostWakeup
<1> SUFFICES ASSUME TypeOK, HandOver
             PROVE  HandedOverOnce /\ ServesItsSlot /\ NoLostWakeup
  OBVIOUS
<1>1. ServesItsSlot /\ NoLostWakeup
  BY DEF HandOver, WorkerInStep, ServesItsSlot, NoLostWakeup
<1>2. ASSUME NEW c \in Clients
      PROVE  /\ sock[c] = "slot" => Cardinality(Holding(c)) = 1
             /\ Holding(c) # {} => sock[c] = "slot"
  <2>1. Holding(c) = {s \in Full : clientsock[s] = c}
    BY DEF Holding, Full
  <2>2. Holding(c) # {} => sock[c] = "slot"
    BY <2>1 DEF HandOver, SlotsHold
  <2>3. ASSUME sock[c] = "slot" PROVE Cardinality(Holding(c)) = 1
    <3>1. PICK s \in Full : clientsock[s] = c
      BY <2>3 DEF HandOver, SlotsHold
    <3>2. Holding(c) = {s}
      BY <2>1, <3>1 DEF HandOver, SlotsHold
    <3> QED
      BY <3>2, FS_Singleton
  <2> QED
    BY <2>2, <2>3
<1> QED
  BY <1>1, <1>2 DEF HandedOverOnce

\* Init has empty slots and idle dispatchers.
LEMMA HandOverInit == Init => HandOver
  BY DEF Init, HandOver, WorkerInStep, SlotsHold, DispatchersCarry, Full, Carrying

\* A connection that UsePreSpawnedThreadToServeNewClient has accepted is in one
\* slot until it has been served, for any number of dispatchers and slots.
THEOREM PreSpawnedHandsOverOnce == Spec => []HandedOverOnce
  BY TypeInit, TypeStep, HandOverInit, HandOverStep, HandOverMeans, PTL DEF Spec

\* PreSpawnedThread serves the connection that its slot holds, and the slot stays
\* busy until it is done.
THEOREM PreSpawnedServesItsSlot == Spec => []ServesItsSlot
  BY TypeInit, TypeStep, HandOverInit, HandOverStep, HandOverMeans, PTL DEF Spec

\* No pthread_cond_signal is lost: a worker that sleeps beside a job has been
\* signalled, so the hand-over does not depend on the 200 ms timeout.
THEOREM PreSpawnedLosesNoWakeup == Spec => []NoLostWakeup
  BY TypeInit, TypeStep, HandOverInit, HandOverStep, HandOverMeans, PTL DEF Spec

\* What a dispatcher that is alone knows of the turn: it is one past the last slot only
\* between its own store and its own modulo.
TurnInStep ==
  \A d \in Dispatchers :
    /\ disp[d].pc # "wrap" => prespawn_turn_to_serve \in Slots
    /\ disp[d].pc = "wrap" => prespawn_turn_to_serve = disp[d].candidate + 1
    /\ disp[d].pc \in {"read", "try"} => disp[d].candidate \in Slots

LEMMA TurnInit == Init => TurnInStep
  BY PreSpawnAssumption DEF Init, TurnInStep, PreSpawnAssumption, Slots, N

LEMMA TurnStep ==
  ASSUME \A d, e \in Dispatchers : d = e
  PROVE  TypeOK /\ TurnInStep /\ [Next]_vars => TurnInStep'
<1> SUFFICES ASSUME TypeOK, TurnInStep, [Next]_vars PROVE TurnInStep'
  OBVIOUS
<1>1. CASE UNCHANGED << disp, prespawn_turn_to_serve >>
  BY <1>1 DEF TurnInStep
<1>2. ASSUME NEW d \in Dispatchers, Dispatch(d) PROVE TurnInStep'
  <2> DEFINE r == disp[d]
             Known(q, turn) == /\ q.pc # "wrap" => turn \in Slots
                               /\ q.pc = "wrap" => turn = q.candidate + 1
                               /\ q.pc \in {"read", "try"} => q.candidate \in Slots
  <2>0. /\ r \in DispatcherLocals /\ disp \in [Dispatchers -> DispatcherState]
        /\ r.pc \in {"next", "wrap"} => r.candidate \in Slots
        /\ Known(r, prespawn_turn_to_serve)
        /\ 0 \in Slots
        /\ \A t \in Slots : ~(t >= N)
    BY PreSpawnAssumption
    DEF TypeOK, DispatcherState, TurnInStep, PreSpawnAssumption, Slots, N
  <2>1. Known(disp'[d], prespawn_turn_to_serve')
    <3>1. CASE \E c \in Clients : Accept(d, c)
      BY <2>0, <3>1 DEF Accept, DispatcherLocals
    <3>2. CASE TestTurn(d)
      BY <2>0, <3>2 DEF TestTurn, DispatcherLocals
    <3>3. CASE ResetTurn(d)
      BY <2>0, <3>3 DEF ResetTurn, DispatcherLocals
    <3>4. CASE ReadTurn(d)
      BY <2>0, <3>4 DEF ReadTurn, DispatcherLocals
    <3>5. CASE TryCandidate(d) \/ ScanSlot(d)
      <4>1. prespawn_turn_to_serve' = prespawn_turn_to_serve /\ r.pc \in {"try", "scan"}
        BY <3>5 DEF TryCandidate, ScanSlot
      <4>2. CASE \E s : FillSlot(d, s)
        <5>1. PICK s : disp' = [disp EXCEPT ![d] = [@ EXCEPT !.pc = "next", !.candidate = s]]
          BY <4>2 DEF FillSlot
        <5>2. disp'[d].pc = "next"
          BY <2>0, <5>1 DEF DispatcherLocals
        <5> QED
          BY <2>0, <4>1, <5>2
      <4>3. CASE disp' = [disp EXCEPT ![d] = [@ EXCEPT !.pc = "scan", !.i = 0]]
        BY <2>0, <4>1, <4>3 DEF DispatcherLocals
      <4>4. CASE /\ r.pc = "scan"
                 /\ disp' = [disp EXCEPT ![d] = [@ EXCEPT !.i = r.i + 1]]
        BY <2>0, <4>1, <4>4 DEF DispatcherLocals
      <4>5. CASE disp' = [disp EXCEPT ![d] = [@ EXCEPT !.pc = "idle", !.client = NoClient]]
        BY <2>0, <4>1, <4>5 DEF DispatcherLocals
      <4>6. \/ \E s : FillSlot(d, s)
            \/ disp' = [disp EXCEPT ![d] = [@ EXCEPT !.pc = "scan", !.i = 0]]
            \/ /\ r.pc = "scan"
               /\ disp' = [disp EXCEPT ![d] = [@ EXCEPT !.i = r.i + 1]]
            \/ disp' = [disp EXCEPT ![d] = [@ EXCEPT !.pc = "idle", !.client = NoClient]]
        BY <3>5 DEF TryCandidate, ScanSlot
      <4> QED
        BY <4>2, <4>3, <4>4, <4>5, <4>6
    <3>6. CASE StoreTurn(d)
      BY <2>0, <3>6 DEF StoreTurn, DispatcherLocals
    <3>7. CASE WrapTurn(d)
      <4>1. r.candidate + 1 \in 0 .. N /\ prespawn_turn_to_serve = r.candidate + 1
        BY <2>0, <3>7, TurnInRange DEF WrapTurn
      <4>2. prespawn_turn_to_serve' \in Slots
        BY <3>7, <4>1, TurnInRange DEF WrapTurn
      <4>3. disp'[d].pc = "idle"
        BY <2>0, <3>7 DEF WrapTurn, DispatcherLocals
      <4> QED
        BY <4>2, <4>3
    <3> QED
      BY <1>2, <3>1, <3>2, <3>3, <3>4, <3>5, <3>6, <3>7 DEF Dispatch
  <2>2. \A e \in Dispatchers : e = d
    OBVIOUS
  <2> QED
    BY <2>1, <2>2 DEF TurnInStep
<1>3. ASSUME NEW s \in Slots, Work(s) PROVE UNCHANGED << disp, prespawn_turn_to_serve >>
  BY <1>3 DEF Work, LoopTest, LockSlot, Signalled, TimedOut, WakeUp, Serve, FreeSlot
<1> QED
  BY <1>1, <1>2, <1>3 DEF Next, StopServer, vars

\* IndexInPool, for one thread that hands connections over, as the comment in
\* UsePreSpawnedThreadToServeNewClient asks: the turn is never read past the pool.
THEOREM OneDispatcherStaysInPool ==
  ASSUME \A d, e \in Dispatchers : d = e
  PROVE  Spec => []IndexInPool
<1>1. TurnInStep => IndexInPool
  BY DEF TurnInStep, IndexInPool
<1>2. TypeOK /\ TurnInStep /\ [Next]_vars => TypeOK' /\ TurnInStep'
  BY TypeStep, TurnStep
<1> QED
  BY TypeInit, TurnInit, <1>1, <1>2, PTL DEF Spec

-----------------------------------------------------------------------------
(* Starting and stopping: the types *)

LEMMA Bounds ==
  /\ MAX_TRIES_TO_BIND_TO_PORT \in Nat
  /\ MaxFresh \in Nat
  /\ PrivilegedPort \in BOOLEAN
  BY LifecycleAssumption DEF LifecycleAssumption, Life!Parameters

LEMMA InitTyped == Life!Init => Life!TypeOK
  <1> SUFFICES ASSUME Life!Init PROVE Life!TypeOK
    OBVIOUS
  <1>1. /\ bindTries \in 0 .. MAX_TRIES_TO_BIND_TO_PORT
        /\ fresh \in 0 .. MaxFresh
        /\ keep_var_on_stack \in {0, 1, 2}
    BY Bounds DEF Life!Init
  <1>2. pool \in [Prespawned -> {"none", "idle", "busy", "ended"}]
    BY DEF Life!Init
  <1> QED
    BY Bounds, <1>1, <1>2, Zenon DEF Life!Init, Life!TypeOK

Phases ==
  /\ app \in {"start", "handshake", "running", "notStarted", "stopping", "done"}
  /\ server \in {"none", "setup", "signalled", "binding", "listening", "serving", "leaving", "ended"}
  /\ keep_var_on_stack \in {0, 1, 2}
  /\ stopping \in {0, 2}
  /\ bindTries \in 0 .. MAX_TRIES_TO_BIND_TO_PORT
  /\ pool \in [Prespawned -> {"none", "idle", "busy", "ended"}]
  /\ epollThread \in {"none", "running", "ended"}
  /\ fresh \in 0 .. MaxFresh

Switches ==
  /\ server_running \in BOOLEAN /\ root \in BOOLEAN /\ bound \in BOOLEAN
  /\ freed \in BOOLEAN /\ kill \in BOOLEAN /\ exited \in BOOLEAN

LEMMA TypeOKParts == Life!TypeOK <=> Phases /\ Switches
  BY DEF Life!TypeOK, Phases, Switches

LEMMA NextPhases == Phases /\ [Life!Next]_(Life!vars) => Phases'
  <1> SUFFICES ASSUME Phases, [Life!Next]_(Life!vars) PROVE Phases'
    OBVIOUS
  <1> USE Bounds DEF Phases, Life!flags, Life!port, Life!threads, Life!signal
  <1>1. CASE Life!Application
    BY <1>1 DEF Life!Application, Life!Start, Life!StartReturns, Life!StartFails,
               Life!Stop, Life!Teardown
  <1>2. CASE Life!SocketFails \/ Life!SignalParent \/ Life!ReadFlagBack \/ Life!Bind
    BY <1>2 DEF Life!SocketFails, Life!SignalParent, Life!ReadFlagBack, Life!Bind
  <1>7. CASE Life!BindFails
    BY <1>7 DEF Life!BindFails
  <1>8. CASE Life!BindGivesUp
    BY <1>8 DEF Life!BindGivesUp
  <1>3. CASE Life!ListenFails \/ Life!Listen \/ Life!LeaveLoop \/ Life!ServerEnds
    BY <1>3 DEF Life!ListenFails, Life!Listen, Life!LeaveLoop, Life!ServerEnds
  <1>4. CASE Life!Dispatch \/ Life!ClientServed
    BY <1>4 DEF Life!Dispatch, Life!ClientServed
  <1>5. CASE (\E p \in Prespawned : Life!PrespawnedEnds(p)) \/ Life!EpollEnds
    BY <1>5 DEF Life!PrespawnedEnds, Life!EpollEnds
  <1>6. CASE Life!Terminate \/ Life!Exit \/ UNCHANGED Life!vars
    BY <1>6 DEF Life!Terminate, Life!Exit, Life!vars
  <1> QED
    BY <1>1, <1>2, <1>3, <1>4, <1>5, <1>6, <1>7, <1>8 DEF Life!Next, Life!ServerThread, Life!Workers

LEMMA NextSwitches == Switches /\ [Life!Next]_(Life!vars) => Switches'
  <1> SUFFICES ASSUME Switches, [Life!Next]_(Life!vars) PROVE Switches'
    OBVIOUS
  <1> USE Bounds DEF Switches, Life!flags, Life!port, Life!threads, Life!signal
  <1>1. CASE Life!Application
    BY <1>1 DEF Life!Application, Life!Start, Life!StartReturns, Life!StartFails,
               Life!Stop, Life!Teardown
  <1>2. CASE Life!SocketFails \/ Life!SignalParent \/ Life!ReadFlagBack \/ Life!BindFails \/ Life!Bind
    BY <1>2 DEF Life!SocketFails, Life!SignalParent, Life!ReadFlagBack, Life!BindFails, Life!Bind
  <1>3. CASE Life!BindGivesUp
    BY <1>3 DEF Life!BindGivesUp
  <1>4. CASE Life!ListenFails \/ Life!Listen \/ Life!LeaveLoop \/ Life!ServerEnds
    BY <1>4 DEF Life!ListenFails, Life!Listen, Life!LeaveLoop, Life!ServerEnds
  <1>5. CASE Life!Workers
    BY <1>5 DEF Life!Workers, Life!Dispatch, Life!ClientServed, Life!PrespawnedEnds, Life!EpollEnds
  <1>6. CASE Life!Terminate \/ Life!Exit \/ UNCHANGED Life!vars
    BY <1>6 DEF Life!Terminate, Life!Exit, Life!vars
  <1> QED
    BY <1>1, <1>2, <1>3, <1>4, <1>5, <1>6 DEF Life!Next, Life!ServerThread

LEMMA NextTyped == Life!TypeOK /\ [Life!Next]_(Life!vars) => Life!TypeOK'
  <1>1. Phases' /\ Switches' => Life!TypeOK'
    BY DEF Life!TypeOK, Phases, Switches
  <1> QED
    BY <1>1, TypeOKParts, NextPhases, NextSwitches

\* TypeOK: bindTries never passes MAX_TRIES_TO_BIND_TO_PORT, and a thread is in one of
\* the phases its function has.
THEOREM LifecycleTypeCorrect == Life!Spec => []Life!TypeOK
  BY InitTyped, NextTyped, PTL DEF Life!Spec

-----------------------------------------------------------------------------
(* The start handshake *)

\* The parent waits on the flag as long as the thread it made reads the context.
ParentWaits == server = "setup" => app = "handshake" /\ keep_var_on_stack = 1

\* Whoever leaves has said so first, and there is no server before there is one.
LeavingIsTold ==
  /\ server \in {"leaving", "ended"} => ~server_running
  /\ app \in {"start", "notStarted"} => server = "none"

Handshake == ParentWaits /\ LeavingIsTold

LEMMA InitHandshake == Life!Init => Handshake
  BY DEF Life!Init, Handshake, ParentWaits, LeavingIsTold

LEMMA NextHandshake == Handshake /\ [Life!Next]_(Life!vars) => Handshake'
  <1> SUFFICES ASSUME Handshake, [Life!Next]_(Life!vars) PROVE Handshake'
    OBVIOUS
  <1> USE DEF Handshake, ParentWaits, LeavingIsTold, Life!flags
  <1>1. CASE Life!Start
    BY <1>1 DEF Life!Start
  <1>2. CASE Life!StartReturns \/ Life!StartFails \/ Life!Stop \/ Life!Teardown
    BY <1>2 DEF Life!StartReturns, Life!StartFails, Life!Stop, Life!Teardown
  <1>3. CASE Life!SocketFails \/ Life!SignalParent \/ Life!ReadFlagBack
    BY <1>3 DEF Life!SocketFails, Life!SignalParent, Life!ReadFlagBack
  <1>4. CASE Life!BindFails \/ Life!BindGivesUp \/ Life!Bind \/ Life!ListenFails \/ Life!Listen
    BY <1>4 DEF Life!BindFails, Life!BindGivesUp, Life!Bind, Life!ListenFails, Life!Listen
  <1>5. CASE Life!LeaveLoop \/ Life!ServerEnds
    BY <1>5 DEF Life!LeaveLoop, Life!ServerEnds
  <1>6. CASE Life!Workers
    BY <1>6 DEF Life!Workers, Life!Dispatch, Life!ClientServed, Life!PrespawnedEnds, Life!EpollEnds
  <1>7. CASE Life!Terminate \/ Life!Exit
    BY <1>7 DEF Life!Terminate, Life!Exit
  <1>8. CASE UNCHANGED Life!vars
    BY <1>8 DEF Life!vars
  <1> QED
    BY <1>1, <1>2, <1>3, <1>4, <1>5, <1>6, <1>7, <1>8
       DEF Life!Next, Life!Application, Life!ServerThread

\* ContextOutlivesCopy: StartThreadedHTTPServer does not return, and take its context
\* off the stack, before MainThreadedHTTPServerThread has copied what it needs of it.
\* (The flag itself is read once more after that, which is a finding.)
THEOREM ContextIsCopied == Life!Spec => []ContextOutlivesCopy
  <1>1. Handshake => ContextOutlivesCopy
    BY DEF Handshake, ParentWaits, ContextOutlivesCopy, Life!ContextOutlivesCopy
  <1> QED
    BY InitHandshake, NextHandshake, <1>1, PTL DEF Life!Spec

\* DeadServerIsNotRunning: AmmServer_Running is false once the server thread has
\* given up, on each of its ways out.
THEOREM DeadServerIsSeen == Life!Spec => []DeadServerIsNotRunning
  <1>1. Handshake => DeadServerIsNotRunning
    BY DEF Handshake, LeavingIsTold, DeadServerIsNotRunning, Life!DeadServerIsNotRunning
  <1> QED
    BY InitHandshake, NextHandshake, <1>1, PTL DEF Life!Spec

-----------------------------------------------------------------------------
(* Stopping *)

\* The application stops the server only when AmmServer_Running says that it does not
\* run, and no signal arrives.
Patient == ~StopAnytime /\ ~Signals

\* Then a server that serves goes on, and one that has ended never made a thread.
NeverStopped ==
  /\ ~kill
  /\ stopping = 0
  /\ server \in {"setup", "signalled", "binding", "listening", "serving"} => server_running
  /\ server # "leaving"
  /\ server # "serving" => epollThread = "none" /\ \A p \in Prespawned : pool[p] = "none"
  /\ app \in {"handshake", "running"} => server # "none"
  /\ app \in {"stopping", "done"} => server \in {"none", "ended"}
  /\ freed => app = "done"

LEMMA InitNeverStopped == Life!Init => NeverStopped
  BY DEF Life!Init, NeverStopped

LEMMA NextNeverStopped ==
  ASSUME Patient
  PROVE  Life!TypeOK /\ Handshake /\ NeverStopped /\ [Life!Next]_(Life!vars) => NeverStopped'
  <1> SUFFICES ASSUME Life!TypeOK, Handshake, NeverStopped, [Life!Next]_(Life!vars) PROVE NeverStopped'
    OBVIOUS
  <1> USE Patient DEF Patient, Handshake, ParentWaits, LeavingIsTold, NeverStopped, Life!flags,
          Life!port, Life!threads, Life!signal
  <1>1. CASE Life!Start
    BY <1>1 DEF Life!Start
  <1>2. CASE Life!StartReturns \/ Life!StartFails \/ Life!Teardown
    BY <1>2 DEF Life!StartReturns, Life!StartFails, Life!Teardown
  <1>3. CASE Life!Stop
    BY <1>3 DEF Life!Stop, Life!TypeOK
  <1>4. CASE Life!SocketFails \/ Life!SignalParent \/ Life!ReadFlagBack
    BY <1>4 DEF Life!SocketFails, Life!SignalParent, Life!ReadFlagBack
  <1>5. CASE Life!BindFails \/ Life!Bind \/ Life!ListenFails
    BY <1>5 DEF Life!BindFails, Life!Bind, Life!ListenFails
  <1>13. CASE Life!BindGivesUp
    BY <1>13 DEF Life!BindGivesUp
  <1>6. CASE Life!Listen
    BY <1>6 DEF Life!Listen
  <1>7. CASE Life!LeaveLoop \/ Life!ServerEnds
    BY <1>7 DEF Life!LeaveLoop, Life!ServerEnds
  <1>8. CASE Life!Dispatch
    BY <1>8 DEF Life!Dispatch
  <1>9. CASE Life!ClientServed
    BY <1>9 DEF Life!ClientServed, Life!TypeOK
  <1>10. CASE (\E p \in Prespawned : Life!PrespawnedEnds(p)) \/ Life!EpollEnds
    BY <1>10 DEF Life!PrespawnedEnds, Life!EpollEnds
  <1>11. CASE Life!Terminate \/ Life!Exit
    BY <1>11 DEF Life!Terminate, Life!Exit
  <1>12. CASE UNCHANGED Life!vars
    BY <1>12 DEF Life!vars
  <1> QED
    BY <1>1, <1>2, <1>3, <1>4, <1>5, <1>6, <1>7, <1>8, <1>9, <1>10, <1>11, <1>12,
       <1>13
       DEF Life!Next, Life!Application, Life!ServerThread, Life!Workers

\* InstanceOutlivesThreads, for an application that calls AmmServer_Stop only after
\* its loop over AmmServer_Running has ended by itself: it is given up only by a server
\* that never came to listen, and that one has made no threads.
THEOREM PatientApplicationIsSafe ==
  ASSUME Patient
  PROVE  Life!Spec => []InstanceOutlivesThreads
  <1>1. NeverStopped => InstanceOutlivesThreads
    BY DEF NeverStopped, InstanceOutlivesThreads, Life!InstanceOutlivesThreads
  <1>2. Life!TypeOK /\ Handshake /\ NeverStopped /\ [Life!Next]_(Life!vars)
          => Life!TypeOK' /\ Handshake' /\ NeverStopped'
    BY NextTyped, NextHandshake, NextNeverStopped
  <1> QED
    BY InitTyped, InitHandshake, InitNeverStopped, <1>1, <1>2, PTL DEF Life!Spec
=============================================================================
