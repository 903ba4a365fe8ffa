------------------------------ MODULE AsvioJobs ------------------------------
(***************************************************************************)
(* The job table of ASVIO (ASVIO/bridge/asvio.c) with the threads around   *)
(* it: the callbacks that run, poll and cancel jobs, the dispatcher and    *)
(* the worker threads of Python (ASVIO/python/asvio/runtime.py), and one   *)
(* client per job that polls it to its end (ASVIO/python/asvio/client.py). *)
(*                                                                         *)
(* The table has one lock, so that what happens under it is one step, and  *)
(* two condition variables.  A job is named by its record, of which the    *)
(* payload and the result are left out.  The server is started and         *)
(* stopped once.                                                           *)
(***************************************************************************)
EXTENDS Naturals, Sequences, FiniteSets, SequencesExt

CONSTANTS
  Jobs,             \* the jobs clients submit
  NoJob,            \* none of them
  ASVIO_MAX_JOBS,   \* records there may be
  MaxSize,          \* Blocks._max_size
  Limit,            \* worker threads
  MaxYields         \* bound: values a generator yields

VARIABLES
  rec,         \* the records, see NoRecord
  queueHead, queueTail, nextQueued,
  stopping,
  dispatcher,  \* "idle", "waiting" in asvio_next_job, or "got" a job
  taken,       \* the job the dispatcher has got
  pool,        \* jobs submitted to the executor
  task,        \* what the worker thread of a job does
  pending,     \* Runtime.pending
  client,      \* "new", "ask", "waiting" in pollCallback, or "end"
  seen         \* the seq the client has seen

jobVars == << rec, queueHead, queueTail, nextQueued, stopping, dispatcher, taken,
              pool, task, pending, client, seen >>

queue   == << queueHead, queueTail, nextQueued >>
python  == << pool, task, pending >>
clients == << client, seen >>

\* old: ASVIO_FINISHED_JOB_LIFETIME is over.  input: struct asvio_job has not been
\* freed.
NoRecord ==
  [state |-> "none", status |-> "none", seq |-> 0, input |-> FALSE,
   cancelRequested |-> FALSE, old |-> FALSE]

Init ==
  /\ rec = [j \in Jobs |-> NoRecord]
  /\ queueHead = NoJob
  /\ queueTail = NoJob
  /\ nextQueued = [j \in Jobs |-> NoJob]
  /\ stopping = FALSE
  /\ dispatcher = "idle"
  /\ taken = NoJob
  /\ pool = << >>
  /\ task = [j \in Jobs |-> "none"]
  /\ pending = 0
  /\ client = [j \in Jobs |-> "new"]
  /\ seen = [j \in Jobs |-> 0]

Known(j)   == rec[j].state # "none"
Records    == {j \in Jobs : Known(j)}
Forgotten  == {j \in Jobs : rec[j].state = "finished" /\ rec[j].old}

-----------------------------------------------------------------------------
(* The queue *)

\* removeFromQueue
RemoveFromQueue(j) ==
  LET before == {p \in Jobs : nextQueued[p] = j}
  IN  /\ queueHead' = IF queueHead = j THEN nextQueued[j] ELSE queueHead
      /\ nextQueued' = [p \in Jobs |->
           IF p = j THEN NoJob ELSE IF p \in before THEN nextQueued[j] ELSE nextQueued[p]]
      /\ queueTail' = IF queueTail # j THEN queueTail
                      ELSE IF before = {} THEN NoJob ELSE CHOOSE p \in before : TRUE

\* pthread_cond_broadcast(&changed): those who wait look again.
Changed == client' = [j \in Jobs |-> IF client[j] = "waiting" THEN "ask" ELSE client[j]]

-----------------------------------------------------------------------------
(* Callbacks *)

\* runCallback: a new record at the end of the queue, or 503.
RunCallback(j) ==
  LET left == Records \ Forgotten
      kept == [p \in Jobs |-> IF p \in Forgotten THEN NoRecord ELSE rec[p]]
  IN  /\ client[j] = "new"
      /\ IF stopping \/ Cardinality(left) >= ASVIO_MAX_JOBS
         THEN /\ rec' = kept
              /\ client' = [client EXCEPT ![j] = "end"]
              /\ UNCHANGED << queue, dispatcher >>
         ELSE /\ rec' = [kept EXCEPT ![j] = [NoRecord EXCEPT !.state = "queued",
                                               !.status = "queued", !.input = TRUE]]
              /\ IF queueTail = NoJob
                 THEN queueHead' = j /\ UNCHANGED nextQueued
                 ELSE nextQueued' = [nextQueued EXCEPT ![queueTail] = j] /\ UNCHANGED queueHead
              /\ queueTail' = j
              /\ dispatcher' = IF dispatcher = "waiting" THEN "idle" ELSE dispatcher
              /\ client' = [client EXCEPT ![j] = "ask"]
      /\ UNCHANGED << stopping, taken, python, seen >>

Final == {"done", "error", "cancelled"}

\* The answer to a poll.  The client stops at a final status and at an error, such
\* as 404 for a job that has been forgotten.
Answer(j) ==
  /\ seen' = [seen EXCEPT ![j] = IF Known(j) THEN rec[j].seq ELSE @]
  /\ client' = [client EXCEPT ![j] =
       IF ~Known(j) \/ rec[j].status \in Final \/ stopping THEN "end" ELSE "ask"]

Ready(j) == ~Known(j) \/ stopping \/ rec[j].state = "finished" \/ rec[j].seq > seen[j]

\* pollCallback, from the lock to the answer or to the next wait.
PollCallback(j) ==
  /\ client[j] = "ask"
  /\ IF Ready(j) THEN Answer(j)
     ELSE client' = [client EXCEPT ![j] = "waiting"] /\ UNCHANGED seen
  /\ UNCHANGED << rec, queue, stopping, dispatcher, taken, python >>

\* The deadline of a poll passes, and it answers with what there is.
PollTimeout(j) ==
  /\ client[j] = "waiting"
  /\ Answer(j)
  /\ UNCHANGED << rec, queue, stopping, dispatcher, taken, python >>

\* Mutant: a job is cancelled at once whoever has it.
CancelCallbackAtOnce(j) ==
  /\ rec[j].state \in {"queued", "taken"} /\ ~rec[j].cancelRequested
  /\ IF rec[j].state = "queued" THEN RemoveFromQueue(j) ELSE UNCHANGED queue
  /\ rec' = [rec EXCEPT ![j].state = "finished", ![j].status = "cancelled",
                        ![j].input = FALSE, ![j].seq = @ + 1]
  /\ Changed
  /\ UNCHANGED << stopping, dispatcher, taken, python, seen >>

\* cancelCallback: a queued job ends here, one that is taken is marked.
CancelCallback(j) ==
  /\ rec[j].state \in {"queued", "taken"} /\ ~rec[j].cancelRequested
  /\ IF rec[j].state = "queued"
     THEN /\ RemoveFromQueue(j)
          /\ rec' = [rec EXCEPT ![j].state = "finished", ![j].status = "cancelled",
                                ![j].input = FALSE, ![j].seq = @ + 1]
          /\ Changed
     ELSE /\ rec' = [rec EXCEPT ![j].cancelRequested = TRUE]
          /\ UNCHANGED << queue, client >>
  /\ UNCHANGED << stopping, dispatcher, taken, python, seen >>

\* Ten minutes pass after a job has finished.
GrowOld(j) ==
  /\ rec[j].state = "finished" /\ ~rec[j].old
  /\ rec' = [rec EXCEPT ![j].old = TRUE]
  /\ UNCHANGED << queue, stopping, dispatcher, taken, python, clients >>

-----------------------------------------------------------------------------
(* Python *)

\* Mutant: nobody is told of the end of a job.
PublishQuietly(j, status, final) ==
  IF rec[j].state # "taken" THEN UNCHANGED << rec, client >>
  ELSE /\ rec' = [rec EXCEPT ![j].status = status, ![j].seq = @ + 1,
                             ![j].state = IF final THEN "finished" ELSE @,
                             ![j].input = @ /\ ~final]
       /\ IF final THEN UNCHANGED client ELSE Changed

\* publish, for asvio_job_update and asvio_job_finish.
Publish(j, status, final) ==
  IF rec[j].state # "taken" THEN UNCHANGED << rec, client >>
  ELSE /\ rec' = [rec EXCEPT ![j].status = status, ![j].seq = @ + 1,
                             ![j].state = IF final THEN "finished" ELSE @,
                             ![j].input = @ /\ ~final]
       /\ Changed

\* asvio_next_job: takes the head of the queue, or waits.  A wait that times out
\* looks at the queue once more.
NextJob ==
  /\ dispatcher = "idle" /\ ~stopping
  /\ IF queueHead = NoJob
     THEN dispatcher' = "waiting" /\ UNCHANGED << rec, queue, taken >>
     ELSE /\ dispatcher' = "got"
          /\ taken' = queueHead
          /\ rec' = [rec EXCEPT ![queueHead].state = "taken"]
          /\ RemoveFromQueue(queueHead)
  /\ UNCHANGED << stopping, python, clients >>

NextJobTimeout ==
  /\ dispatcher = "waiting"
  /\ dispatcher' = "idle"
  /\ UNCHANGED << rec, queue, stopping, taken, python, clients >>

\* Runtime._dispatch, once it has copied the job: no such api, too many jobs, or
\* on to the executor.
Dispatch ==
  /\ dispatcher = "got"
  /\ dispatcher' = "idle"
  /\ taken' = NoJob
  /\ \/ Publish(taken, "error", TRUE) /\ UNCHANGED << pool, pending >>
     \/ /\ pending < MaxSize
        /\ pending' = pending + 1
        /\ pool' = IF stopping THEN pool ELSE Append(pool, taken)
        /\ UNCHANGED << rec, client >>
  /\ UNCHANGED << queue, stopping, task, seen >>

Running == {j \in Jobs : task[j] \notin {"none", "end"}}

\* Runtime._run starts on a worker thread.
TaskStart ==
  /\ pool # << >> /\ Cardinality(Running) < Limit
  /\ pool' = Tail(pool)
  /\ task' = [task EXCEPT ![Head(pool)] = "started"]
  /\ Publish(Head(pool), "running", FALSE)
  /\ UNCHANGED << queue, stopping, dispatcher, taken, pending, seen >>

TaskEnds(j) ==
  /\ task' = [task EXCEPT ![j] = "end"]
  /\ pending' = pending - 1

\* Before the function is called, and after each value it yields, a worker looks
\* whether its job is cancelled.
TaskLooks(j) ==
  /\ task[j] \in {"started", "yielded"}
  /\ IF rec[j].cancelRequested
     THEN Publish(j, "cancelled", TRUE) /\ TaskEnds(j)
     ELSE /\ task' = [task EXCEPT ![j] = "working"]
          /\ IF task[j] = "started" THEN UNCHANGED << rec, client >>
             ELSE Publish(j, "running", FALSE)
          /\ UNCHANGED pending
  /\ UNCHANGED << queue, stopping, dispatcher, taken, pool, seen >>

TaskYields(j) ==
  /\ task[j] = "working" /\ rec[j].seq <= MaxYields
  /\ task' = [task EXCEPT ![j] = "yielded"]
  /\ UNCHANGED << rec, queue, stopping, dispatcher, taken, pool, pending, clients >>

\* The function returns or raises an exception.
TaskReturns(j) ==
  /\ task[j] = "working"
  /\ \E status \in {"done", "error"} : Publish(j, status, TRUE)
  /\ TaskEnds(j)
  /\ UNCHANGED << queue, stopping, dispatcher, taken, pool, seen >>

\* sys.exit in the function: SystemExit is no Exception, and nothing is published.
TaskExits(j) ==
  /\ task[j] = "working"
  /\ TaskEnds(j)
  /\ UNCHANGED << rec, queue, stopping, dispatcher, taken, pool, clients >>

\* Runtime.stop and asvio_stop: what is still in the pool is dropped.
Stop ==
  /\ ~stopping
  /\ stopping' = TRUE
  /\ dispatcher' = IF dispatcher = "waiting" THEN "idle" ELSE dispatcher
  /\ pool' = << >>
  /\ Changed
  /\ UNCHANGED << rec, queue, taken, task, pending, seen >>
-----------------------------------------------------------------------------

Next ==
  \/ \E j \in Jobs :
       \/ RunCallback(j) \/ PollCallback(j) \/ PollTimeout(j) \/ CancelCallback(j)
       \/ GrowOld(j)
       \/ TaskLooks(j) \/ TaskYields(j) \/ TaskReturns(j) \/ TaskExits(j)
  \/ NextJob \/ NextJobTimeout \/ Dispatch \/ TaskStart \/ Stop

\* The dispatcher and the client's poll go on; a function that is called comes to
\* an end; waits need not time out.
Fairness ==
  /\ WF_jobVars(NextJob) /\ WF_jobVars(Dispatch)
  /\ WF_jobVars(TaskStart)
  /\ \A j \in Jobs : WF_jobVars(TaskLooks(j)) /\ WF_jobVars(TaskReturns(j))
  /\ \A j \in Jobs : WF_jobVars(PollCallback(j))

Spec == Init /\ [][Next]_jobVars /\ Fairness
-----------------------------------------------------------------------------
(* Properties *)

\* The input of a job is there as long as Python may read it, which it does
\* after asvio_next_job has given up the lock: as asvio.h says, it stays valid
\* until asvio_job_finish is called.
InputOutlivesCopy == dispatcher = "got" => rec[taken].input

\* No wake-up and no job is lost: a client that waits on changed has nothing to be
\* told, and the dispatcher waits on queued only while there is no job it has not
\* taken, whichever jobs were cancelled out of the queue (removeFromQueue).
NobodyOversleeps ==
  /\ \A j \in Jobs : client[j] = "waiting" => ~Ready(j)
  /\ dispatcher = "waiting" => ~stopping /\ \A j \in Jobs : rec[j].state # "queued"

\* A client that submits a job comes to the end of it, if no function leaves its
\* worker thread by sys.exit, and is then told how it ended.
Left(j) == task[j] = "end" /\ rec[j].state = "taken"

JobComesToAnEnd == \A j \in Jobs : client[j] = "ask" ~> client[j] = "end" \/ Left(j)

\* JobComesToAnEnd whatever the function does.
JobAlwaysEnds == \A j \in Jobs : client[j] = "ask" ~> client[j] = "end"
=============================================================================
