------------------------ MODULE FreshThreads_proofs ------------------------
(***************************************************************************)
(* Type correctness of the pool of fresh threads for any number of         *)
(* dispatchers, and ownership of the pool's entries when one thread        *)
(* dispatches: the reason the code needs no lock there, and the assumption *)
(* it breaks when the accept loop falls back to dispatching itself.        *)
(***************************************************************************)
EXTENDS FreshThreads, TLAPS

\* An unsigned int stays one when it is incremented past its largest value.
LEMMA WrapInRange ==
  ASSUME NEW a \in Int
  PROVE  a % UINT \in 0 .. UINT - 1
<1>1. UINT \in Nat /\ UINT > 0
  BY PoolAssumption DEF PoolAssumption
<1> QED
  BY <1>1

\* What TypeOK needs to be inductive: a dispatcher that is about to call
\* pthread_create(&threads_pool[slot], ...) has an index inside the array.
CreateInRange ==
  \A d \in Dispatchers : disp[d].pc = "create" => disp[d].slot \in Slots

\* Every step of the accept loop and of the workers keeps the array, the
\* counters and the locals in their types.
LEMMA TypeStep == TypeOK /\ CreateInRange /\ [Next]_vars => TypeOK'
<1> SUFFICES ASSUME TypeOK, CreateInRange, [Next]_vars PROVE TypeOK'
  OBVIOUS
<1> USE PoolAssumption DEF PoolAssumption
<1>1. ASSUME NEW d \in Dispatchers, Dispatch(d) PROVE TypeOK'
  <2> DEFINE r == disp[d]
  <2>0. /\ r \in DispatcherState
        /\ 0 \in 0 .. MAX_CLIENT_THREADS
        /\ 0 \in 0 .. MAX_TRIES_TO_FIND_A_THREAD_ID
    BY DEF TypeOK
  <2>1. ASSUME NEW c \in Clients, AcceptClient(d, c) PROVE TypeOK'
    <3>1. [r EXCEPT !.pc = "check", !.client = c] \in DispatcherState
      BY <2>0 DEF DispatcherState
    <3> QED
      BY <2>1, <3>1 DEF AcceptClient, TypeOK, SockState, counters
  <2>2. CASE RefuseOverLimit(d)
    <3>1. [r EXCEPT !.pc = "accept", !.client = NoThread] \in DispatcherState
      BY <2>0 DEF DispatcherState
    <3> QED
      BY <2>2, <3>1 DEF RefuseOverLimit, TypeOK, SockState, counters
  <2>3. CASE StartSearch(d)
    <3>0. CLIENT_THREADS_STARTED \in Int
      BY DEF TypeOK
    <3>1. CLIENT_THREADS_STARTED % MAX_CLIENT_THREADS \in 0 .. MAX_CLIENT_THREADS
      BY <3>0
    <3>2. [r EXCEPT !.pc = "probe", !.tries = 0,
                    !.slot = CLIENT_THREADS_STARTED % MAX_CLIENT_THREADS] \in DispatcherState
      BY <2>0, <3>1 DEF DispatcherState
    <3> QED
      BY <2>3, <3>2 DEF StartSearch, TypeOK, counters
  <2>4. CASE Probe(d)
    <3> DEFINE s == disp[d].slot
    <3>1. [r EXCEPT !.pc = "create"] \in DispatcherState
      BY <2>0 DEF DispatcherState
    <3>2. ASSUME s < MAX_CLIENT_THREADS
          PROVE  [r EXCEPT !.slot = s + 1] \in DispatcherState
      <4>1. s + 1 \in 0 .. MAX_CLIENT_THREADS
        BY <2>0, <3>2 DEF DispatcherState
      <4> QED
        BY <2>0, <4>1 DEF DispatcherState
    <3>3. ASSUME r.tries < MAX_TRIES_TO_FIND_A_THREAD_ID
          PROVE  [r EXCEPT !.slot = 0, !.tries = r.tries + 1] \in DispatcherState
      <4>1. r.tries + 1 \in 0 .. MAX_TRIES_TO_FIND_A_THREAD_ID
        BY <2>0, <3>3 DEF DispatcherState
      <4> QED
        BY <2>0, <4>1 DEF DispatcherState
    <3>4. PICK q \in DispatcherState : disp' = [disp EXCEPT ![d] = q]
      <4>1. CASE disp' = [disp EXCEPT ![d] = [@ EXCEPT !.pc = "create"]]
        BY <3>1, <4>1 DEF TypeOK
      <4>2. CASE /\ s < MAX_CLIENT_THREADS
                 /\ disp' = [disp EXCEPT ![d] = [@ EXCEPT !.slot = s + 1]]
        BY <3>2, <4>2 DEF TypeOK
      <4>3. CASE /\ r.tries < MAX_TRIES_TO_FIND_A_THREAD_ID
                 /\ disp' = [disp EXCEPT ![d] =
                              [@ EXCEPT !.slot = 0,
                                       !.tries = r.tries + 1]]
        BY <3>3, <4>3 DEF TypeOK
      <4> QED
        BY <2>4, <4>1, <4>2, <4>3 DEF Probe
    <3> QED
      BY <2>4, <3>4 DEF Probe, TypeOK, counters
  <2>5. CASE GiveUpSearch(d)
    <3>1. [r EXCEPT !.pc = "close", !.slot = 0] \in DispatcherState
      BY <2>0 DEF DispatcherState
    <3> QED
      BY <2>5, <3>1 DEF GiveUpSearch, TypeOK, counters
  <2>6. CASE CreateThread(d)
    <3>1. [r EXCEPT !.pc = "load"] \in DispatcherState
      BY <2>0 DEF DispatcherState
    <3>2. r.slot \in Slots /\ r.client \in Clients \cup {NoThread}
      BY <2>0, <2>6 DEF CreateThread, CreateInRange, DispatcherState
    <3>3. r.client \in Clients =>
            [thread[r.client] EXCEPT !.pc = "unpack", !.slot = r.slot] \in ThreadState
      BY <3>2 DEF TypeOK, ThreadState
    <3>4. thread' \in [Clients -> ThreadState]
      BY <2>6, <3>3 DEF CreateThread, TypeOK
    <3> QED
      BY <2>6, <3>1, <3>2, <3>4 DEF CreateThread, TypeOK, counters
  <2>7. CASE CreateThreadFails(d)
    <3>1. [r EXCEPT !.pc = "close", !.slot = 0] \in DispatcherState
      BY <2>0 DEF DispatcherState
    <3> QED
      BY <2>7, <3>1 DEF CreateThreadFails, TypeOK, Slots, counters
  <2>8. CASE LoadStarted(d)
    <3>1. [r EXCEPT !.pc = "store", !.reg = CLIENT_THREADS_STARTED] \in DispatcherState
      BY <2>0 DEF TypeOK, DispatcherState
    <3> QED
      BY <2>8, <3>1 DEF LoadStarted, TypeOK, counters
  <2>9. CASE StoreStarted(d)
    <3>0. disp[d].reg + 1 \in Int
      BY <2>0 DEF DispatcherState
    <3>1. (disp[d].reg + 1) % UINT \in 0 .. UINT - 1
      BY <3>0, WrapInRange
    <3>2. [r EXCEPT !.pc = "accept", !.client = NoThread, !.slot = 0] \in DispatcherState
      BY <2>0, <3>1 DEF DispatcherState
    <3> QED
      BY <2>9, <3>1, <3>2 DEF StoreStarted, TypeOK, counters
  <2>10. CASE CloseUnserved(d)
    <3>1. [r EXCEPT !.pc = "accept", !.client = NoThread] \in DispatcherState
      BY <2>0 DEF DispatcherState
    <3> QED
      BY <2>10, <3>1 DEF CloseUnserved, TypeOK, SockState, counters
  <2> QED
    BY <1>1, <2>1, <2>2, <2>3, <2>4, <2>5, <2>6, <2>7, <2>8, <2>9, <2>10
    DEF Dispatch
<1>2. ASSUME NEW c \in Clients, Work(c) PROVE TypeOK'
  <2>0. thread[c] \in ThreadState
    BY DEF TypeOK
  <2>a. ASSUME NEW p \in {"serve", "gone", "clear", "load"}
        PROVE  [thread[c] EXCEPT !.pc = p] \in ThreadState
    BY <2>0 DEF ThreadState
  <2>1. CASE Unpack(c)
    BY <2>1, <2>a DEF Unpack, TypeOK, counters
  <2>2. CASE TLSHandshakeFails(c)
    BY <2>2, <2>a DEF TLSHandshakeFails, TypeOK, SockState, counters
  <2>3. CASE SocketTimeoutsFail(c)
    BY <2>3, <2>a DEF SocketTimeoutsFail, TypeOK, counters
  <2>4. CASE CloseServed(c)
    BY <2>4, <2>a DEF CloseServed, TypeOK, SockState, counters
  <2>5. CASE ClearSlot(c)
    BY <2>5, <2>a DEF ClearSlot, TypeOK, counters
  <2>6. CASE LoadStopped(c)
    <3>1. [thread[c] EXCEPT !.pc = "store", !.reg = CLIENT_THREADS_STOPPED]
            \in ThreadState
      BY <2>0 DEF ThreadState, TypeOK
    <3> QED
      BY <2>6, <3>1 DEF LoadStopped, TypeOK, counters
  <2>7. CASE StoreStopped(c)
    <3>0. thread[c].reg + 1 \in Int
      BY <2>0 DEF ThreadState
    <3>1. (thread[c].reg + 1) % UINT \in 0 .. UINT - 1
      BY <3>0, WrapInRange
    <3> QED
      BY <2>7, <2>a, <3>1 DEF StoreStopped, TypeOK
  <2> QED
    BY <1>2, <2>1, <2>2, <2>3, <2>4, <2>5, <2>6, <2>7 DEF Work
<1>3. CASE UNCHANGED vars
  BY <1>3 DEF vars, TypeOK
<1> QED
  BY <1>1, <1>2, <1>3 DEF Next

\* The search is the only way to "create", and it stops there only on an index
\* below MAX_CLIENT_THREADS.
LEMMA CreateInRangeStep ==
  TypeOK /\ CreateInRange /\ [Next]_vars => CreateInRange'
<1> SUFFICES ASSUME TypeOK, CreateInRange, [Next]_vars,
                    NEW e \in Dispatchers, disp'[e].pc = "create"
             PROVE  disp'[e].slot \in Slots
  BY DEF CreateInRange
<1> USE PoolAssumption DEF PoolAssumption
<1>0. disp[e] \in DispatcherState
  BY DEF TypeOK
<1>1. CASE disp'[e] = disp[e]
  BY <1>1 DEF CreateInRange
<1>2. ASSUME NEW d \in Dispatchers, Dispatch(d), disp'[e] # disp[e]
      PROVE  disp'[e].slot \in Slots
  <2>0. disp \in [Dispatchers -> DispatcherState]
    BY DEF TypeOK
  <2>1. CASE Probe(d)
    <3>1. e = d
      BY <1>2, <2>0, <2>1 DEF Probe
    <3>2. disp'[d].pc = "create" => disp'[d].slot = disp[d].slot /\ disp[d].slot < MAX_CLIENT_THREADS
      BY <2>0, <2>1 DEF Probe, DispatcherState
    <3> QED
      BY <1>0, <3>1, <3>2 DEF DispatcherState, Slots
  <2>2. CASE \E c \in Clients : AcceptClient(d, c)
    BY <1>2, <2>0, <2>2 DEF AcceptClient, DispatcherState
  <2>3. CASE RefuseOverLimit(d)
    BY <1>2, <2>0, <2>3 DEF RefuseOverLimit, DispatcherState
  <2>4. CASE StartSearch(d)
    BY <1>2, <2>0, <2>4 DEF StartSearch, DispatcherState
  <2>5. CASE GiveUpSearch(d)
    BY <1>2, <2>0, <2>5 DEF GiveUpSearch, DispatcherState
  <2>6. CASE CreateThread(d)
    BY <1>2, <2>0, <2>6 DEF CreateThread, DispatcherState
  <2>7. CASE CreateThreadFails(d)
    BY <1>2, <2>0, <2>7 DEF CreateThreadFails, DispatcherState
  <2>8. CASE LoadStarted(d)
    BY <1>2, <2>0, <2>8 DEF LoadStarted, DispatcherState
  <2>9. CASE StoreStarted(d)
    BY <1>2, <2>0, <2>9 DEF StoreStarted, DispatcherState
  <2>10. CASE CloseUnserved(d)
    BY <1>2, <2>0, <2>10 DEF CloseUnserved, DispatcherState
  <2> QED
    BY <1>2, <2>1, <2>2, <2>3, <2>4, <2>5, <2>6, <2>7, <2>8, <2>9, <2>10
    DEF Dispatch
<1>3. ASSUME NEW c \in Clients, Work(c) PROVE disp' = disp
  BY <1>3 DEF Work, Unpack, TLSHandshakeFails, SocketTimeoutsFail, CloseServed,
              ClearSlot, LoadStopped, StoreStopped
<1> QED
  BY <1>1, <1>2, <1>3 DEF Next, vars

\* threads_pool, its counters and every local of the accept loop and the
\* workers stay in range: no thread id is ever stored past the pool.
THEOREM PoolTypeCorrect == Spec => [](TypeOK /\ CreateInRange)
<1>1. Init => TypeOK /\ CreateInRange
  BY PoolAssumption DEF PoolAssumption, Init, TypeOK, CreateInRange,
     DispatcherState, ThreadState, SockState, Slots
<1> QED
  BY <1>1, TypeStep, CreateInRangeStep, PTL DEF Spec

-----------------------------------------------------------------------------
\* The thread that dispatches is alone: the epoll accept layer runs and takes
\* every connection, or it does not run and the accept loop does.
OneDispatcher == \A d, e \in Dispatchers : d = e

\* What SlotIsMine needs to be inductive: between the test of an entry and
\* pthread_create the entry stays zero.
EntryFree ==
  \A d \in Dispatchers :
    disp[d].pc = "create" => threads_pool[disp[d].slot] = NoThread

Ownership == TypeOK /\ CreateInRange /\ EntryFree /\ SlotIsMine

\* With one dispatcher, no step of it or of a worker takes an entry that a
\* worker still owns, nor an entry the dispatcher has chosen.
LEMMA OwnershipStep ==
  ASSUME OneDispatcher, Ownership, [Next]_vars
  PROVE  EntryFree' /\ SlotIsMine'
<1> USE PoolAssumption DEF PoolAssumption
<1>0. /\ disp \in [Dispatchers -> DispatcherState]
      /\ thread \in [Clients -> ThreadState]
      /\ threads_pool \in [Slots -> Clients \cup {NoThread, StaleId}]
      /\ \A c \in Clients : thread[c].slot \in Slots
  BY DEF Ownership, TypeOK, ThreadState
<1>1. ASSUME NEW d \in Dispatchers, Dispatch(d)
      PROVE  EntryFree' /\ SlotIsMine'
  <2>1. \A e \in Dispatchers : e = d
    BY DEF OneDispatcher
  <2>2. CASE CreateThread(d)
    <3> DEFINE s == disp[d].slot
               k == disp[d].client
    <3>1. /\ s \in Slots
          /\ threads_pool[s] = NoThread
          /\ \A c \in Serving : thread[c].slot # s
      BY <1>0, <2>2 DEF CreateThread, Ownership, CreateInRange, EntryFree,
                        SlotIsMine, Serving
    <3>2. EntryFree'
      BY <1>0, <2>1, <2>2 DEF CreateThread, EntryFree
    <3>3. ASSUME NEW c \in Serving' PROVE threads_pool'[thread'[c].slot] = c
      <4>1. CASE c = k
        BY <1>0, <2>2, <3>1, <3>3, <4>1 DEF CreateThread, Serving, ThreadState
      <4>2. CASE c # k
        <5>1. c \in Serving /\ thread'[c] = thread[c]
          BY <1>0, <2>2, <3>3, <4>2 DEF CreateThread, Serving
        <5> QED
          BY <1>0, <2>2, <3>1, <5>1 DEF CreateThread, Ownership, SlotIsMine,
                                        Serving
      <4> QED
        BY <4>1, <4>2
    <3> QED
      BY <3>2, <3>3 DEF SlotIsMine
  <2>3. CASE CreateThreadFails(d)
    <3>1. /\ disp[d].slot \in Slots
          /\ \A c \in Serving : thread[c].slot # disp[d].slot
      BY <1>0, <2>3 DEF CreateThreadFails, Ownership, CreateInRange, EntryFree,
                        SlotIsMine, Serving
    <3>2. EntryFree'
      BY <1>0, <2>1, <2>3 DEF CreateThreadFails, EntryFree, DispatcherState
    <3>3. thread' = thread /\ Serving' = Serving
      BY <2>3 DEF CreateThreadFails, Serving
    <3>4. \A q \in Slots : q # disp[d].slot => threads_pool'[q] = threads_pool[q]
      BY <1>0, <2>3 DEF CreateThreadFails
    <3> QED
      BY <1>0, <3>1, <3>2, <3>3, <3>4 DEF Ownership, SlotIsMine, Serving
  <2>4. CASE Probe(d)
    <3>1. /\ threads_pool' = threads_pool
          /\ disp'[d].slot = disp[d].slot \/ disp'[d].pc = "probe"
      BY <1>0, <2>4, ZenonT(30) DEF Probe, DispatcherState
    <3>2. disp'[d].pc = "create" => threads_pool[disp[d].slot] = NoThread
      BY <1>0, <2>4 DEF Probe, DispatcherState
    <3>3. EntryFree'
      BY <2>1, <3>1, <3>2 DEF EntryFree
    <3> QED
      BY <2>4, <3>3 DEF Probe, Ownership, SlotIsMine, Serving
  <2>5. CASE /\ disp'[d].pc # "create"
             /\ UNCHANGED << threads_pool, thread >>
    BY <2>1, <2>5 DEF Ownership, EntryFree, SlotIsMine, Serving
  <2>6. CASE \E c \in Clients : AcceptClient(d, c)
    BY <1>0, <2>5, <2>6 DEF AcceptClient, DispatcherState
  <2>7. CASE RefuseOverLimit(d)
    BY <1>0, <2>5, <2>7 DEF RefuseOverLimit, DispatcherState
  <2>8. CASE StartSearch(d)
    BY <1>0, <2>5, <2>8 DEF StartSearch, DispatcherState
  <2>9. CASE GiveUpSearch(d)
    BY <1>0, <2>5, <2>9 DEF GiveUpSearch, DispatcherState
  <2>10. CASE LoadStarted(d)
    BY <1>0, <2>5, <2>10 DEF LoadStarted, DispatcherState
  <2>11. CASE StoreStarted(d)
    BY <1>0, <2>5, <2>11 DEF StoreStarted, DispatcherState
  <2>12. CASE CloseUnserved(d)
    BY <1>0, <2>5, <2>12 DEF CloseUnserved, DispatcherState
  <2> QED
    BY <1>1, <2>2, <2>3, <2>4, <2>6, <2>7, <2>8, <2>9, <2>10, <2>11, <2>12
    DEF Dispatch
<1>2. ASSUME NEW c \in Clients, Work(c)
      PROVE  EntryFree' /\ SlotIsMine'
  <2>1. CASE ClearSlot(c)
    <3>1. /\ thread[c].slot \in Slots
          /\ c \in Serving
          /\ \A b \in Serving : b # c => thread[b].slot # thread[c].slot
      BY <1>0, <2>1 DEF ClearSlot, Ownership, SlotIsMine, Serving
    <3>2. EntryFree'
      BY <1>0, <2>1 DEF ClearSlot, Ownership, EntryFree, CreateInRange
    <3>3. ASSUME NEW b \in Serving'
          PROVE  b \in Serving /\ b # c /\ thread'[b] = thread[b]
      BY <1>0, <2>1, <3>3 DEF ClearSlot, Serving, ThreadState
    <3>4. \A b \in Serving' : threads_pool'[thread'[b].slot] = b
      BY <1>0, <2>1, <3>1, <3>3 DEF ClearSlot, Ownership, SlotIsMine, Serving
    <3> QED
      BY <3>2, <3>4 DEF SlotIsMine
  <2>2. CASE /\ UNCHANGED << threads_pool, disp >>
             /\ \A b \in Clients : thread'[b].slot = thread[b].slot
             /\ Serving' \subseteq Serving
    BY <2>2 DEF Ownership, EntryFree, SlotIsMine, Serving
  <2>3. CASE Unpack(c)
    BY <1>0, <2>2, <2>3 DEF Unpack, Serving, ThreadState
  <2>4. CASE TLSHandshakeFails(c)
    BY <1>0, <2>2, <2>4 DEF TLSHandshakeFails, Serving, ThreadState
  <2>5. CASE SocketTimeoutsFail(c)
    BY <1>0, <2>2, <2>5 DEF SocketTimeoutsFail, Serving, ThreadState
  <2>6. CASE CloseServed(c)
    BY <1>0, <2>2, <2>6 DEF CloseServed, Serving, ThreadState
  <2>7. CASE LoadStopped(c)
    BY <1>0, <2>2, <2>7 DEF LoadStopped, Serving, ThreadState
  <2>8. CASE StoreStopped(c)
    BY <1>0, <2>2, <2>8 DEF StoreStopped, Serving, ThreadState
  <2> QED
    BY <1>2, <2>1, <2>3, <2>4, <2>5, <2>6, <2>7, <2>8 DEF Work
<1>3. CASE UNCHANGED vars
  BY <1>3 DEF vars, Ownership, EntryFree, SlotIsMine, Serving
<1> QED
  BY <1>1, <1>2, <1>3 DEF Next

\* While one thread dispatches, a worker of SpawnThreadToServeNewClient always
\* finds its own id in its entry of threads_pool, for any number of clients,
\* entries and passes, and whatever faults occur: the code needs no lock.
THEOREM SlotOwnership == OneDispatcher => (Spec => []SlotIsMine)
<1> SUFFICES ASSUME OneDispatcher PROVE Spec => []SlotIsMine
  OBVIOUS
<1>1. Init => Ownership
  <2>1. Init => TypeOK /\ CreateInRange
    BY PoolAssumption DEF PoolAssumption, Init, TypeOK, CreateInRange,
       DispatcherState, ThreadState, SockState, Slots
  <2> QED
    BY <2>1 DEF Init, Ownership, EntryFree, SlotIsMine, Serving
<1>2. Ownership /\ [Next]_vars => Ownership'
  BY TypeStep, CreateInRangeStep, OwnershipStep DEF Ownership
<1>3. Ownership => SlotIsMine
  BY DEF Ownership
<1> QED
  BY <1>1, <1>2, <1>3, PTL DEF Spec
=============================================================================
