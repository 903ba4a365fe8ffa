-------------------------- MODULE Connection_proofs --------------------------
(***************************************************************************)
(* A connection implements HTTPExchange, whatever the requests, their      *)
(* number and the fast path's limit: the hand-overs between the accept     *)
(* layer, the fast path, a deferred write and a worker keep the answers in *)
(* order.                                                                  *)
(***************************************************************************)
EXTENDS Connection, TLAPS

Last == Exchange!LastAnswered
Open == owner \notin {"closed", "leaked"}

-----------------------------------------------------------------------------
(* The inductive invariant *)

\* The fast path stops counting before its limit is passed.
FastPathCounts == owner = "fastpath" => iterations < FASTPATH_MAX_PIPELINED_REQUESTS

\* A registration that can fire belongs to the code that holds the descriptor, and
\* what it points to is allocated.
EventsOwned ==
  /\ epoll = "in"  => owner = "epoll" /\ live
  /\ epoll = "out" => owner = "write" /\ live

\* Nothing is answered that has not been read, and the request in hand is later
\* than all that have been answered (0 is an error, which ends the connection).
InOrder ==
  Open => /\ Last <= read
          /\ owner = "write" => current \in (Last + 1) .. read
          /\ owner = "serve" => current = 0 \/ current \in (Last + 1) .. read

\* A client that waits has at most one request under way, so that nothing behind it
\* can be dropped.
OneAtATime ==
  Open /\ ~pipelining =>
    /\ ~torn
    /\ Last = Len(answers)
    /\ partial => sent = Last
    /\ IF owner \in {"write", "serve"}
       THEN current = Last + 1 /\ read = Last + 1 /\ sent = Last + 1
       ELSE read = Last /\ sent \in {Last, Last + 1}

Typed    == TypeOK /\ FastPathCounts
HandOver == EventsOwned /\ InOrder /\ OneAtATime

-----------------------------------------------------------------------------
(* The last answer *)

LEMMA LastTyped == TypeOK => Last \in 0 .. NReq
  BY ConnectionAssumption DEF TypeOK, Last, Exchange!LastAnswered

LEMMA LastStays == UNCHANGED answers => Last' = Last
  BY DEF Last, Exchange!LastAnswered

LEMMA LastAppended ==
  ASSUME TypeOK, NEW r \in 0 .. NReq, answers' = Append(answers, r)
  PROVE  /\ Last' = r
         /\ Len(answers') = Len(answers) + 1
         /\ answers' \in Seq(0 .. NReq)
  <1>1. /\ answers \in Seq(0 .. NReq)
        /\ Len(answers) \in Nat
    BY DEF TypeOK
  <1>2. /\ answers' # << >>
        /\ Len(answers') = Len(answers) + 1
        /\ answers'[Len(answers) + 1] = r
        /\ answers' \in Seq(0 .. NReq)
    BY <1>1
  <1> QED
    BY <1>2 DEF Last, Exchange!LastAnswered

-----------------------------------------------------------------------------
(* Types *)

LEMMA InitTyped == Init => Typed
  <1> SUFFICES ASSUME Init PROVE Typed
    OBVIOUS
  <1>1. /\ sent \in 0 .. NReq /\ read \in 0 .. sent /\ current \in 0 .. NReq
        /\ iterations \in 0 .. FASTPATH_MAX_PIPELINED_REQUESTS
        /\ answers \in Seq(0 .. NReq)
    BY ConnectionAssumption DEF ConnectionAssumption, Init
  <1> QED
    BY <1>1, Zenon DEF Init, Typed, TypeOK, FastPathCounts, Owners

LEMMA NextTyped == Typed /\ [Next]_vars => Typed'
  <1> SUFFICES ASSUME Typed, [Next]_vars PROVE Typed'
    OBVIOUS
  <1> USE ConnectionAssumption DEF ConnectionAssumption, Typed, TypeOK, FastPathCounts, Owners, wire,
          reading, event, Close
  <1>1. ASSUME ClientSendsPart PROVE Typed'
    BY <1>1 DEF ClientSendsPart
  <1>2. ASSUME ClientSendsRest PROVE Typed'
    <2>1. sent' \in 0 .. NReq /\ read' \in 0 .. sent'
      BY <1>2 DEF ClientSendsRest
    <2> QED
      BY <1>2, <2>1, ZenonT(30) DEF ClientSendsRest
  <1>3. ASSUME ClientCloses PROVE Typed'
    BY <1>3, ZenonT(30) DEF ClientCloses
  <1>4. ASSUME Accept PROVE Typed'
    <2>1. UNCHANGED << wire, reading, iterations, current, pwKeepalive, answers >>
      BY <1>4 DEF Accept
    <2>2. /\ owner' \in {"epoll", "dispatch"}
          /\ epoll' \in {"in", epoll}
          /\ live' \in BOOLEAN
      BY <1>4 DEF Accept
    <2> QED
      BY <2>1, <2>2
  <1>5. ASSUME FirstByte PROVE Typed'
    <2>1. /\ owner' = "fastpath" /\ iterations' = 0 /\ epoll' = "none" /\ live' = FALSE
          /\ UNCHANGED << wire, reading, current, pwKeepalive, answers >>
      BY <1>5 DEF FirstByte
    <2>2. FastPathCounts' /\ iterations' \in 0 .. FASTPATH_MAX_PIPELINED_REQUESTS
      BY <2>1
    <2> QED
      BY <2>1, <2>2
  <1>6. ASSUME Dispatch PROVE Typed'
    BY <1>6 DEF Dispatch
  <1>7. ASSUME FastPathIneligible PROVE Typed'
    BY <1>7 DEF FastPathIneligible
  <1>8. ASSUME FastPathServes PROVE Typed'
    <2>1. sent > read /\ owner = "fastpath"
      BY <1>8 DEF FastPathServes, Eligible
    <2>2. read + 1 \in 0 .. NReq /\ answers' = Append(answers, read + 1)
      BY <1>8, <2>1 DEF FastPathServes
    <2>3. answers' \in Seq(0 .. NReq)
      BY <2>2, LastAppended
    <2>4. iterations' = iterations + 1 /\ iterations' \in 0 .. FASTPATH_MAX_PIPELINED_REQUESTS
      BY <1>8, <2>1 DEF FastPathServes
    <2>5. /\ owner' \in {"closed", "dispatch", "fastpath"}
          /\ owner' = "fastpath" => iterations' # FASTPATH_MAX_PIPELINED_REQUESTS
          /\ epoll' \in {"none", epoll}
          /\ read' = read + 1
          /\ UNCHANGED << wire, torn, headerRAW, live, current, pwKeepalive >>
      BY <1>8 DEF FastPathServes
    <2> QED
      BY <2>1, <2>2, <2>3, <2>4, <2>5
  <1>9. ASSUME FastPathDefers PROVE Typed'
    <2>1. sent > read /\ pwKeepalive' \in BOOLEAN
      BY <1>9 DEF FastPathDefers, Eligible, KeepaliveInSight
    <2> QED
      BY <1>9, <2>1 DEF FastPathDefers
  <1>10. ASSUME FastPathFails PROVE Typed'
    BY <1>10 DEF FastPathFails, Eligible
  <1>11. ASSUME ResumeWrite PROVE Typed'
    <2>1. answers' \in Seq(0 .. NReq)
      BY <1>11, LastAppended DEF ResumeWrite
    <2> QED
      BY <1>11, <2>1 DEF ResumeWrite
  <1>12. ASSUME WorkerSkips PROVE Typed'
    BY <1>12 DEF WorkerSkips
  <1>13. ASSUME WorkerStarts PROVE Typed'
    BY <1>13 DEF WorkerStarts
  <1>14. ASSUME RecvPart PROVE Typed'
    BY <1>14 DEF RecvPart
  <1>15. ASSUME RecvRequest PROVE Typed'
    <2>1. read' \in 0 .. sent
      BY <1>15 DEF RecvRequest
    <2>2. current' \in 0 .. NReq
      BY <1>15 DEF RecvRequest
    <2>3. torn' \in BOOLEAN
      BY <1>15 DEF RecvRequest
    <2>4. /\ headerRAW' = "empty" /\ owner' = "serve"
          /\ UNCHANGED << wire, event, iterations, pwKeepalive, answers >>
      BY <1>15 DEF RecvRequest
    <2> QED
      BY <2>1, <2>2, <2>3, <2>4
  <1>16. ASSUME RecvTimesOut PROVE Typed'
    <2>1. answers' \in Seq(0 .. NReq)
      BY <1>16, LastAppended DEF RecvTimesOut
    <2> QED
      BY <1>16, <2>1 DEF RecvTimesOut
  <1>17. ASSUME RecvShutDown PROVE Typed'
    <2>1. answers' \in Seq(0 .. NReq)
      BY <1>17, LastAppended DEF RecvShutDown
    <2> QED
      BY <1>17, <2>1 DEF RecvShutDown
  <1>18. ASSUME WorkerAnswers PROVE Typed'
    <2>1. answers' \in Seq(0 .. NReq)
      BY <1>18, LastAppended DEF WorkerAnswers
    <2> QED
      BY <1>18, <2>1 DEF WorkerAnswers
  <1>19. ASSUME WorkerFails PROVE Typed'
    BY <1>19 DEF WorkerFails
  <1>20. ASSUME UNCHANGED vars PROVE Typed'
    BY <1>20 DEF vars
  <1> QED
    BY <1>1, <1>2, <1>3, <1>4, <1>5, <1>6, <1>7, <1>8, <1>9, <1>10, <1>11, <1>12,
       <1>13, <1>14, <1>15, <1>16, <1>17, <1>18, <1>19, <1>20 DEF Next, Server, ServerAlone
-----------------------------------------------------------------------------
(* Events *)

LEMMA NextEvents == Typed /\ EventsOwned /\ [Next]_vars => EventsOwned'
  <1> SUFFICES ASSUME Typed, EventsOwned, [Next]_vars PROVE EventsOwned'
    OBVIOUS
  <1> USE DEF EventsOwned, event, Close
  <1>1. CASE ClientSendsPart \/ ClientSendsRest \/ ClientCloses
    BY <1>1 DEF ClientSendsPart, ClientSendsRest, ClientCloses
  <1>2. CASE Accept \/ FirstByte \/ Dispatch
    BY <1>2 DEF Accept, FirstByte, Dispatch
  <1>3. CASE FastPathIneligible \/ FastPathServes \/ FastPathDefers \/ FastPathFails
    BY <1>3 DEF FastPathIneligible, FastPathServes, FastPathDefers, FastPathFails
  <1>4. CASE ResumeWrite
    BY <1>4 DEF ResumeWrite
  <1>5. CASE WorkerSkips \/ WorkerStarts \/ RecvPart \/ RecvRequest
    BY <1>5 DEF WorkerSkips, WorkerStarts, RecvPart, RecvRequest
  <1>6. CASE RecvTimesOut \/ RecvShutDown \/ WorkerAnswers \/ WorkerFails
    BY <1>6 DEF RecvTimesOut, RecvShutDown, WorkerAnswers, WorkerFails
  <1>7. CASE UNCHANGED vars
    BY <1>7 DEF vars
  <1> QED
    BY <1>1, <1>2, <1>3, <1>4, <1>5, <1>6, <1>7 DEF Next, Server, ServerAlone

-----------------------------------------------------------------------------
(* The order of the answers *)

LEMMA Counters ==
  Typed => /\ NReq \in Nat
           /\ sent \in 0 .. NReq
           /\ read \in 0 .. sent
           /\ current \in 0 .. NReq
           /\ Len(answers) \in Nat
           /\ Last \in 0 .. NReq
  BY ConnectionAssumption, LastTyped DEF ConnectionAssumption, Typed, TypeOK

LEMMA NextInOrder ==
  Typed /\ EventsOwned /\ InOrder /\ [Next]_vars => InOrder'
  <1> SUFFICES ASSUME Typed, EventsOwned, InOrder, [Next]_vars PROVE InOrder'
    OBVIOUS
  <1> USE Counters DEF InOrder, Open, wire, reading, event, Close
  <1>1. ASSUME ClientSendsPart \/ ClientSendsRest \/ ClientCloses PROVE InOrder'
    BY <1>1, LastStays DEF ClientSendsPart, ClientSendsRest, ClientCloses
  <1>2. ASSUME Accept \/ FirstByte \/ Dispatch PROVE InOrder'
    <2>1. UNCHANGED << read, current, answers >>
      BY <1>2 DEF Accept, FirstByte, Dispatch
    <2>2. owner' \in {"epoll", "dispatch", "fastpath", "start", "closed"}
      BY <1>2 DEF Accept, FirstByte, Dispatch
    <2>3. Open
      BY <1>2 DEF Accept, FirstByte, Dispatch, EventsOwned
    <2> QED
      BY <2>1, <2>2, <2>3, LastStays
  <1>3. ASSUME FastPathIneligible PROVE InOrder'
    BY <1>3, LastStays DEF FastPathIneligible
  <1>4. ASSUME FastPathServes PROVE InOrder'
    <2>1. sent > read /\ owner = "fastpath" /\ answers' = Append(answers, read + 1)
      BY <1>4 DEF FastPathServes, Eligible
    <2>2. Last' = read + 1
      BY <2>1, LastAppended DEF Typed
    <2>3. read' = read + 1 /\ owner' \in {"closed", "dispatch", "fastpath"}
      BY <1>4 DEF FastPathServes
    <2> QED
      BY <2>2, <2>3
  <1>5. ASSUME FastPathDefers PROVE InOrder'
    <2>1. Last' = Last /\ Last <= read
      BY <1>5, LastStays DEF FastPathDefers
    <2>2. read' = read + 1 /\ current' = read + 1 /\ owner' = "write"
      BY <1>5 DEF FastPathDefers
    <2> QED
      BY <2>1, <2>2
  <1>6. ASSUME ResumeWrite PROVE InOrder'
    <2>1. owner = "write"
      BY <1>6 DEF ResumeWrite, EventsOwned
    <2>2. \/ owner' = "closed"
          \/ owner' = "dispatch" /\ answers' = Append(answers, current)
      BY <1>6 DEF ResumeWrite
    <2>4. answers' = Append(answers, current) => Last' = current
      BY LastAppended DEF Typed
    <2>3. UNCHANGED << wire, reading, current >>
      BY <1>6 DEF ResumeWrite
    <2> QED
      BY <2>1, <2>2, <2>3, <2>4
  <1>7. ASSUME WorkerSkips \/ WorkerStarts \/ RecvPart PROVE InOrder'
    BY <1>7, LastStays DEF WorkerSkips, WorkerStarts, RecvPart
  <1>8. ASSUME RecvRequest PROVE InOrder'
    <2>1. Last' = Last /\ Last <= read
      BY <1>8, LastStays DEF RecvRequest
    <2>2. read' \in (read + 1) .. sent
      BY <1>8 DEF RecvRequest
    <2>3. current' = 0 \/ current' = read + 1
      BY <1>8 DEF RecvRequest
    <2>4. owner' = "serve"
      BY <1>8 DEF RecvRequest
    <2> QED
      BY <2>1, <2>2, <2>3, <2>4
  <1>9. ASSUME WorkerAnswers PROVE InOrder'
    <2>1. Last' = current /\ UNCHANGED << read, current >>
      BY <1>9, LastAppended DEF WorkerAnswers, Typed
    <2>2. owner' \in {"closed", "recv"}
      BY <1>9 DEF WorkerAnswers
    <2>3. owner = "serve"
      BY <1>9 DEF WorkerAnswers
    <2> QED
      BY <2>1, <2>2, <2>3
  <1>10. ASSUME FastPathFails \/ RecvTimesOut \/ RecvShutDown \/ WorkerFails PROVE InOrder'
    BY <1>10 DEF FastPathFails, RecvTimesOut, RecvShutDown, WorkerFails
  <1>11. ASSUME UNCHANGED vars PROVE InOrder'
    BY <1>11, LastStays DEF vars
  <1> QED
    BY <1>1, <1>2, <1>3, <1>4, <1>5, <1>6, <1>7, <1>8, <1>9, <1>10, <1>11 DEF Next, Server, ServerAlone

\* What a waiting client and the code agree on while nothing is in hand, and while
\* a request is.
Idle == ~torn /\ Last = Len(answers) /\ read = Last /\ sent \in {Last, Last + 1}
             /\ (partial => sent = Last)
Busy == ~torn /\ Last = Len(answers) /\ current = Last + 1 /\ read = Last + 1
             /\ sent = Last + 1 /\ ~partial

LEMMA OneAtATimeByPhase ==
  ASSUME Typed
  PROVE  OneAtATime <=>
           (Open /\ ~pipelining => IF owner \in {"write", "serve"} THEN Busy ELSE Idle)
  BY Counters DEF OneAtATime, Idle, Busy

LEMMA NextOneAtATime ==
  Typed /\ EventsOwned /\ OneAtATime /\ [Next]_vars => OneAtATime'
  <1> SUFFICES ASSUME Typed, Typed', EventsOwned, OneAtATime, [Next]_vars,
                      Open', ~pipelining'
               PROVE  IF owner' \in {"write", "serve"} THEN Busy' ELSE Idle'
    BY NextTyped DEF OneAtATime, Idle, Busy
  <1> DEFINE Goal == IF owner' \in {"write", "serve"} THEN Busy' ELSE Idle'
  <1> USE Counters DEF wire, reading, event, Close
  <1>a. ~pipelining
    BY DEF Next, Server, ServerAlone, vars, ClientSendsPart, ClientSendsRest, ClientCloses, Accept,
           FirstByte, Dispatch, FastPathIneligible, FastPathServes, FastPathDefers,
           FastPathFails, ResumeWrite, WorkerSkips, WorkerStarts, RecvPart, RecvRequest,
           RecvTimesOut, RecvShutDown, WorkerAnswers, WorkerFails
  <1>b. Open => IF owner \in {"write", "serve"} THEN Busy ELSE Idle
    BY <1>a, OneAtATimeByPhase
  <1>1. ASSUME ClientSendsPart PROVE Goal
    <2>1. /\ Len(answers) = sent /\ ~partial
          /\ UNCHANGED << sent, read, torn, owner, current, answers >>
      BY <1>1, <1>a DEF ClientSendsPart
    <2>2. owner \notin {"write", "serve"} /\ Idle
      BY <1>b, <2>1 DEF Open, Busy
    <2> QED
      BY <2>1, <2>2, LastStays DEF Idle
  <1>2. ASSUME ClientSendsRest PROVE Goal
    <2>1. /\ partial /\ partial' = FALSE /\ sent' = sent + 1
          /\ UNCHANGED << read, torn, owner, current, answers >>
      BY <1>2 DEF ClientSendsRest
    <2>2. owner \notin {"write", "serve"} /\ Idle
      BY <1>b, <2>1 DEF Open, Busy
    <2> QED
      BY <2>1, <2>2, LastStays DEF Idle
  <1>3. ASSUME ClientCloses \/ UNCHANGED vars PROVE Goal
    <2>1. UNCHANGED << sent, partial, read, torn, owner, current, answers >>
      BY <1>3 DEF ClientCloses, vars
    <2> QED
      BY <2>1, <1>b, LastStays DEF Open, Idle, Busy
  <1>4. ASSUME Accept \/ FirstByte \/ Dispatch \/ FastPathIneligible \/ WorkerSkips
               \/ WorkerStarts \/ RecvPart
        PROVE  Goal
    <2>1. /\ UNCHANGED << sent, partial, read, torn, current, answers >>
          /\ owner' \notin {"write", "serve"}
      BY <1>4 DEF Accept, FirstByte, Dispatch, FastPathIneligible, WorkerSkips,
                  WorkerStarts, RecvPart
    <2>2. Open /\ owner \notin {"write", "serve"}
      BY <1>4 DEF Accept, FirstByte, Dispatch, FastPathIneligible, WorkerSkips,
                  WorkerStarts, RecvPart, EventsOwned, Open
    <2> QED
      BY <2>1, <2>2, <1>b, LastStays DEF Idle
  <1>5. ASSUME FastPathServes PROVE Goal
    <2>1. /\ sent > read /\ answers' = Append(answers, read + 1) /\ read' = read + 1
          /\ owner = "fastpath" /\ owner' \notin {"write", "serve"}
          /\ UNCHANGED << sent, partial, torn >>
      BY <1>5 DEF FastPathServes, Eligible
    <2>2. Idle
      BY <2>1, <1>b DEF Open
    <2>3. Last' = read + 1 /\ Len(answers') = Len(answers) + 1
      BY <2>1, LastAppended DEF Typed
    <2> QED
      BY <2>1, <2>2, <2>3 DEF Idle
  <1>6. ASSUME FastPathDefers PROVE Goal
    <2>1. /\ sent > read /\ read' = read + 1 /\ current' = read + 1
          /\ owner = "fastpath" /\ owner' = "write"
          /\ UNCHANGED << sent, partial, torn, answers >>
      BY <1>6 DEF FastPathDefers, Eligible
    <2>2. Idle
      BY <2>1, <1>b DEF Open
    <2> QED
      BY <2>1, <2>2, LastStays DEF Idle, Busy
  <1>7. ASSUME ResumeWrite \/ WorkerAnswers PROVE Goal
    <2>1. owner \in {"write", "serve"} /\ Busy
      BY <1>7, <1>b DEF ResumeWrite, WorkerAnswers, EventsOwned, Open
    <2>2. /\ owner' \notin {"write", "serve"}
          /\ answers' = Append(answers, current)
          /\ UNCHANGED << sent, partial, read, torn >>
      BY <1>7 DEF ResumeWrite, WorkerAnswers, Open
    <2>3. Last' = current /\ Len(answers') = Len(answers) + 1
      BY <2>2, LastAppended DEF Typed
    <2> QED
      BY <2>1, <2>2, <2>3 DEF Idle, Busy
  <1>8. ASSUME RecvRequest PROVE Goal
    <2>1. owner = "recv" /\ sent > read /\ Idle
      BY <1>8, <1>b DEF RecvRequest, Open
    <2>2. /\ read' = read + 1 /\ read' = sent
      BY <1>8, <2>1 DEF RecvRequest, Idle
    <2>3. ~torn' /\ ~partial
      <3>1. ~partial
        BY <2>1 DEF Idle
      <3>2. ~(read' < sent)
        BY <2>2
      <3> QED
        BY <1>8, <3>1, <3>2, Zenon DEF RecvRequest
    <2>4. current' = read + 1
      BY <1>8, <2>1 DEF RecvRequest, Idle
    <2>5. owner' = "serve" /\ UNCHANGED << sent, partial, answers >>
      BY <1>8 DEF RecvRequest
    <2> QED
      BY <2>1, <2>2, <2>3, <2>4, <2>5, LastStays DEF Idle, Busy
  <1>9. ASSUME FastPathFails \/ RecvTimesOut \/ RecvShutDown \/ WorkerFails PROVE Goal
    BY <1>9 DEF FastPathFails, RecvTimesOut, RecvShutDown, WorkerFails, Open
  <1> QED
    BY <1>1, <1>2, <1>3, <1>4, <1>5, <1>6, <1>7, <1>8, <1>9 DEF Next, Server, ServerAlone

LEMMA InitHandOver == Init => HandOver
  BY DEF Init, HandOver, EventsOwned, InOrder, OneAtATime, Open, Last, Exchange!LastAnswered

\* TypeOK: every variable of a connection stays in its range (iterations of
\* EpollFastPath_TryServe never pass FASTPATH_MAX_PIPELINED_REQUESTS).
THEOREM ConnectionTypeCorrect == Spec => []TypeOK
  <1>1. Typed => TypeOK
    BY DEF Typed
  <1> QED
    BY InitTyped, NextTyped, <1>1, PTL DEF Spec

THEOREM ConnectionHandsOver == Spec => [](Typed /\ HandOver)
  <1>1. Typed /\ HandOver /\ [Next]_vars => Typed' /\ HandOver'
    BY NextTyped, NextEvents, NextInOrder, NextOneAtATime DEF HandOver
  <1> QED
    BY InitTyped, InitHandOver, <1>1, PTL DEF Spec

\* NoEventOnFreedMemory: epoll never reports an event for a PendingAccept or a
\* FastPathPendingWrite that has been freed.
THEOREM NoEventOnFreedMemoryHolds == Spec => []NoEventOnFreedMemory
  <1>1. HandOver => NoEventOnFreedMemory
    BY DEF HandOver, EventsOwned, NoEventOnFreedMemory
  <1> QED
    BY ConnectionHandsOver, <1>1, PTL

-----------------------------------------------------------------------------
(* A connection implements HTTPExchange *)

LEMMA InitExchange == Init => Exchange!Init
  BY DEF Init, Exchange!Init

LEMMA NextExchange ==
  Typed /\ HandOver /\ [Next]_vars => [Exchange!Next]_Exchange!vars
  <1> SUFFICES ASSUME Typed, HandOver, [Next]_vars
               PROVE  Exchange!Next \/ UNCHANGED << pipelining, sent, answers, Open >>
    BY DEF Exchange!vars, Open
  <1> USE Counters DEF wire, reading, event, Close
  <1> DEFINE Goal == Exchange!Next \/ UNCHANGED << pipelining, sent, answers, Open >>
  <1>1. ASSUME NEW r \in (Last + 1) .. sent, ~pipelining => r = Last + 1, Open,
               answers' = Append(answers, r), UNCHANGED << pipelining, sent >>
        PROVE  Goal
    <2>1. Exchange!Answer
      BY <1>1 DEF Exchange!Answer, Last, Open
    <2> QED
      BY <2>1 DEF Exchange!Next
  <1>2. ASSUME Open, ~Open', UNCHANGED << pipelining, sent >>,
               answers' = answers \/ answers' = Append(answers, 0)
        PROVE  Goal
    <2>1. Exchange!End
      BY <1>2 DEF Exchange!End, Open
    <2> QED
      BY <2>1 DEF Exchange!Next
  <1>3. ASSUME ClientSendsRest PROVE Goal
    <2>1. Exchange!Ask
      BY <1>3 DEF ClientSendsRest, Exchange!Ask, Typed, TypeOK
    <2> QED
      BY <2>1 DEF Exchange!Next
  <1>4. ASSUME ClientSendsPart \/ ClientCloses \/ UNCHANGED vars PROVE Goal
    BY <1>4 DEF ClientSendsPart, ClientCloses, vars, Open
  <1>5. ASSUME Accept \/ FirstByte \/ FastPathIneligible \/ FastPathDefers
               \/ WorkerStarts \/ RecvPart \/ RecvRequest
        PROVE  Goal
    BY <1>5 DEF Accept, FirstByte, FastPathIneligible, FastPathDefers, WorkerStarts,
                RecvPart, RecvRequest, HandOver, EventsOwned, Open
  <1>6. ASSUME Dispatch PROVE Goal
    <2>1. Open /\ UNCHANGED << pipelining, sent, answers >>
      BY <1>6 DEF Dispatch, Open
    <2> QED
      BY <2>1, <1>2
  <1>7. ASSUME FastPathServes PROVE Goal
    <2>1. /\ sent > read /\ answers' = Append(answers, read + 1)
          /\ owner = "fastpath" /\ UNCHANGED << pipelining, sent >>
      BY <1>7 DEF FastPathServes, Eligible
    <2>2. Last <= read /\ (~pipelining => read = Last) /\ Open
      BY <2>1 DEF HandOver, InOrder, OneAtATime, Open
    <2>3. read + 1 \in (Last + 1) .. sent /\ (~pipelining => read + 1 = Last + 1)
      BY <2>1, <2>2
    <2> QED
      BY <2>1, <2>2, <2>3, <1>1
  <1>8. ASSUME ResumeWrite \/ WorkerAnswers, answers' = Append(answers, current),
               current # 0
        PROVE  Goal
    <2>1. owner \in {"write", "serve"} /\ UNCHANGED << pipelining, sent >>
      BY <1>8 DEF ResumeWrite, WorkerAnswers, HandOver, EventsOwned
    <2>2. Open /\ current \in (Last + 1) .. read /\ (~pipelining => current = Last + 1)
      BY <1>8, <2>1 DEF HandOver, InOrder, OneAtATime, Open
    <2>3. current \in (Last + 1) .. sent
      BY <2>2
    <2> QED
      BY <1>8, <2>1, <2>2, <2>3, <1>1
  <1>9. ASSUME WorkerAnswers, current = 0 PROVE Goal
    <2>1. Open /\ ~Open' /\ answers' = Append(answers, 0) /\ UNCHANGED << pipelining, sent >>
      BY <1>9 DEF WorkerAnswers, KeptByWorker, Open
    <2> QED
      BY <2>1, <1>2
  <1>10. ASSUME ResumeWrite, answers' # Append(answers, current) \/ current = 0 PROVE Goal
    <2>1. owner = "write"
      BY <1>10 DEF ResumeWrite, HandOver, EventsOwned
    <2>2. current # 0 /\ Open
      BY <2>1 DEF HandOver, InOrder, Open
    <2>3. ~Open' /\ UNCHANGED << pipelining, sent, answers >>
      BY <1>10, <2>2 DEF ResumeWrite, Open
    <2> QED
      BY <2>2, <2>3, <1>2
  <1>11. ASSUME FastPathFails \/ WorkerSkips \/ RecvTimesOut \/ RecvShutDown \/ WorkerFails
         PROVE  Goal
    <2>1. Open /\ ~Open' /\ UNCHANGED << pipelining, sent >>
      BY <1>11 DEF FastPathFails, WorkerSkips, RecvTimesOut, RecvShutDown, WorkerFails, Open
    <2>2. answers' = answers \/ answers' = Append(answers, 0)
      BY <1>11 DEF FastPathFails, WorkerSkips, RecvTimesOut, RecvShutDown, WorkerFails
    <2> QED
      BY <2>1, <2>2, <1>2
  <1>12. ASSUME WorkerAnswers PROVE answers' = Append(answers, current)
    BY <1>12 DEF WorkerAnswers
  <1> QED
    BY <1>3, <1>4, <1>5, <1>6, <1>7, <1>8, <1>9, <1>10, <1>11, <1>12 DEF Next, Server, ServerAlone

\* ExchangeSpec: whatever thread has the connection, its client sees the exchange of
\* HTTPExchange.
THEOREM ConnectionImplementsExchange == Spec => ExchangeSpec
  BY ConnectionHandsOver, InitExchange, NextExchange, PTL
     DEF Spec, ExchangeSpec, Exchange!Spec
=============================================================================
