------------------------------- MODULE UringAPI -------------------------------
(***************************************************************************)
(* The API transport on io_uring (threads/uringAPIServer.c): how one ring  *)
(* serves the connections in its table.  Receives land in a pool of        *)
(* buffers, responses leave through a pool of send tickets, and a          *)
(* connection that finds either pool empty waits in a queue that is linked *)
(* through the table itself.  A handler may answer at once, answer all of  *)
(* a pass together (the batch handler), or answer later from the notify    *)
(* callback.  Which ring accepts is in UringAccept.                        *)
(*                                                                         *)
(* The ring thread's handlers take the thread's state to its next state:   *)
(* an operator named after a C function maps a record of the fields below  *)
(* to the record the function leaves behind.  What is submitted reaches    *)
(* the kernel, completions come back in the order the kernel posts them,   *)
(* and the kernel and the clients go on between two completions.           *)
(***************************************************************************)
EXTENDS APIProtocol, SequencesExt

CONSTANTS
  Slots,                    \* of the ring's table
  NoSlot,                   \* URING_NO_SLOT
  Tickets,                  \* URING_SEND_TICKETS of them
  Buffers,                  \* URING_RECV_BUFFER_COUNT
  URING_RECV_BUFFER_SIZE,   \* in units
  AMMSERVER_API_MAX_BATCH,
  TagWidth,                 \* 2^24: the generations a completion can tell apart
  Scripts,                  \* bound: the clients that come, and what each of
                            \* them may ask for, a set of sequences of kinds
  Outcomes                  \* what handlers do: "answer", "defer", "fail"

ASSUME RingAssumption ==
  /\ IsFiniteSet(Slots) /\ NoSlot \notin Slots
  /\ {API_MAX_REQUEST_SIZE, Buffers} \subseteq Nat
  /\ TagWidth \in Nat \ {0}
  /\ Scripts \in Seq(SUBSET Seq(RequestKinds))

VARIABLES
  batching,  \* a batch handler is set
  st,        \* the ring thread's state, and what it has submitted
  cq,        \* the completion queue
  stream,    \* per slot: what of its client's requests has not been received yet
  peer,      \* "none", "open", or "shut" by the client
  answers    \* per slot: the responses its client has got, by request

vars   == << batching, st, cq, stream, peer, answers >>
client == << stream, peer, answers >>

\* struct UringConnection
FreeConnection ==
  [ inUse |-> FALSE, generation |-> 0, in |-> << >>, recvArmed |-> FALSE,
    sendInFlight |-> FALSE, batched |-> FALSE,
    deferred |-> FALSE, deferredKeepAlive |-> TRUE,
    waitingForTicket |-> FALSE, nextWaiting |-> NoSlot,
    waitingForRearm |-> FALSE, nextRearm |-> NoSlot ]

\* struct UringSendTicket
FreeTicket == [busy |-> FALSE, slot |-> NoSlot, generation |-> 0,
               req |-> << >>, closeWhenWritten |-> FALSE]

\* A request of the client a slot had at some generation; the 0th is a status
\* line that answers none.
RequestOf(s, generation, n) == << s, generation, n >>
StatusOnly == 0

Init ==
  /\ batching \in BOOLEAN
  /\ st = [ conn        |-> [s \in Slots |-> FreeConnection],
            waitingHead |-> NoSlot, waitingTail |-> NoSlot,
            rearmHead   |-> NoSlot, rearmTail   |-> NoSlot,
            ticket      |-> [t \in Tickets |-> FreeTicket],
            batch       |-> << >>,
            tokens      |-> {},                        \* answers the application owes
            recvs       |-> [s \in Slots |-> << >>],   \* submitted receives, by tag
            sends       |-> {},                        \* tickets with a submitted send
            closes      |-> {},                        \* slots with a submitted close
            buffers     |-> Buffers ]                  \* provided and free
  /\ cq = << >>
  /\ stream = [s \in Slots |-> << >>]
  /\ peer = [s \in Slots |-> "none"]
  /\ answers = [s \in Slots |-> << >>]

\* What a completion carries of a connection's generation.
Tag(generation) == generation % TagWidth

-----------------------------------------------------------------------------
(* Receives and their buffers *)

QueueForRearm(u, s) ==
  IF u.conn[s].waitingForRearm THEN u
  ELSE LET v == [u EXCEPT !.conn[s].waitingForRearm = TRUE,
                          !.conn[s].nextRearm = NoSlot, !.rearmTail = s]
       IN  IF u.rearmTail = NoSlot
           THEN [v EXCEPT !.rearmHead = s]
           ELSE [v EXCEPT !.conn[u.rearmTail].nextRearm = s]

ArmRecv(u, s) ==
  IF u.conn[s].deferred
  THEN [u EXCEPT !.conn[s].recvArmed = FALSE]
  ELSE [u EXCEPT !.conn[s].recvArmed = TRUE,
                 !.recvs[s] = Append(@, Tag(u.conn[s].generation))]

\* The head of the queue leaves it.
PopRearm(u) ==
  LET s    == u.rearmHead
      next == u.conn[s].nextRearm
  IN  [u EXCEPT !.rearmHead = next,
                !.rearmTail = IF next = NoSlot THEN NoSlot ELSE @,
                !.conn[s].nextRearm = NoSlot,
                !.conn[s].waitingForRearm = FALSE]

WantsReceive(c) == c.inUse /\ ~c.recvArmed /\ ~c.sendInFlight /\ ~c.deferred

PassRearm(u) ==
  IF u.rearmHead = NoSlot \/ WantsReceive(u.conn[u.rearmHead]) THEN u ELSE PopRearm(u)

\* Take the head of the queue, and go on while it is a connection that has
\* closed or needs no receive; there are no more in it than slots.
RearmOneWaiting(u) ==
  LET passed[n \in 0 .. Cardinality(Slots)] ==
        IF n = 0 THEN u ELSE PassRearm(passed[n - 1])
      v == passed[Cardinality(Slots)]
  IN  IF v.rearmHead = NoSlot THEN v ELSE ArmRecv(PopRearm(v), v.rearmHead)

RecycleRecvBuffer(u) == RearmOneWaiting([u EXCEPT !.buffers = @ + 1])

-----------------------------------------------------------------------------
(* Send tickets *)

FreeTickets(u) == {t \in Tickets : ~u.ticket[t].busy}

QueueForTicket(u, s) ==
  IF u.conn[s].waitingForTicket THEN u
  ELSE LET v == [u EXCEPT !.conn[s].waitingForTicket = TRUE,
                          !.conn[s].nextWaiting = NoSlot, !.waitingTail = s]
       IN  IF u.waitingTail = NoSlot
           THEN [v EXCEPT !.waitingHead = s]
           ELSE [v EXCEPT !.conn[u.waitingTail].nextWaiting = s]

ReleaseSendTicket(u, t) == [u EXCEPT !.ticket[t] = FreeTicket]

\* SubmitSend of response req on a ticket that has been acquired for it.
Respond(u, s, t, req, last) ==
  [u EXCEPT !.ticket[t] = [busy |-> TRUE, slot |-> s, req |-> req,
                           generation |-> u.conn[s].generation,
                           closeWhenWritten |-> last],
            !.sends = @ \cup {t},
            !.conn[s].sendInFlight = TRUE]

\* The receive is canceled before the slot is closed; the queues keep the
\* connection's place.
CloseConnection(u, s) ==
  IF ~u.conn[s].inUse THEN u
  ELSE [u EXCEPT !.conn[s].inUse = FALSE, !.conn[s].recvArmed = FALSE,
                 !.conn[s].in = << >>,
                 !.closes = @ \cup {s}]

SendStatusAndClose(u, s) ==
  IF FreeTickets(u) = {} THEN CloseConnection(u, s)
  ELSE Respond(u, s, CHOOSE t \in FreeTickets(u) : TRUE,
               RequestOf(s, u.conn[s].generation, StatusOnly), TRUE)

DropRest(u, s) == [u EXCEPT !.conn[s].in = << >>]

-----------------------------------------------------------------------------
(* Requests *)

\* What follows a handler's call for the request at the start of buf, which was
\* prepared on ticket t: it defers the answer, its response does not fit, or the
\* response is sent.  What is behind the request is kept.
Finish(u, s, t, buf, outcome) ==
  LET v == [u EXCEPT !.conn[s].in = KeepTail(buf, TotalLength(buf))]
  IN  CASE outcome = "defer" ->
             [ReleaseSendTicket(v, t)
                EXCEPT !.conn[s].deferred = TRUE,
                       !.conn[s].deferredKeepAlive = KeepAlive(buf),
                       !.tokens = @ \cup {[slot |-> s, req |-> Head(buf).req,
                                     generation |-> Tag(u.conn[s].generation)]}]
        [] outcome = "fail" ->
             SendStatusAndClose(DropRest(ReleaseSendTicket(u, t), s), s)
        [] OTHER -> Respond(v, s, t, Head(buf).req, ~KeepAlive(buf))

Acquire(u, t) == [u EXCEPT !.ticket[t].busy = TRUE]

\* The first half of FlushBatch: a ticket for one request that was set aside, if
\* its connection is still there and there is one.
TakeBatched(acc, e) ==
  LET u == acc.u
      s == e.slot
      c == u.conn[s]
      v == [u EXCEPT !.conn[s].batched = FALSE]
      t == CHOOSE x \in FreeTickets(u) : TRUE
  IN  IF ~c.inUse \/ c.generation # e.generation THEN acc
      ELSE IF NextFrame(c.in) # "ready" THEN [acc EXCEPT !.u = CloseConnection(v, s)]
      ELSE IF FreeTickets(u) = {}       THEN [acc EXCEPT !.u = QueueForTicket(v, s)]
      ELSE IF ~Prepared(c.in)
           THEN [acc EXCEPT !.u = SendStatusAndClose(DropRest(v, s), s)]
      ELSE [u       |-> Acquire(v, t),
            serving |-> Append(acc.serving, [slot |-> s, ticket |-> t, buf |-> c.in])]

\* FlushBatch: one call of the batch handler answers what was taken.
FlushBatch(u, handler) ==
  LET taken[n \in 0 .. Len(u.batch)] ==
        IF n = 0 THEN [u |-> [u EXCEPT !.batch = << >>], serving |-> << >>]
        ELSE TakeBatched(taken[n - 1], u.batch[n])
      acc == taken[Len(u.batch)]
      finished[n \in 0 .. Len(acc.serving)] ==
        IF n = 0 THEN acc.u
        ELSE LET e == acc.serving[n]
             IN  Finish(finished[n - 1], e.slot, e.ticket, e.buf, handler[e.slot])
  IN  finished[Len(acc.serving)]

\* ServeNextRequest: at most one request out of buf.
ServeNextRequest(u, s, buf, handler) ==
  LET c == u.conn[s]
      t == CHOOSE x \in FreeTickets(u) : TRUE
      v == IF Len(u.batch) >= AMMSERVER_API_MAX_BATCH
           THEN FlushBatch(u, handler) ELSE u
  IN  IF c.batched \/ c.deferred            THEN u
      ELSE IF NextFrame(buf) = "incomplete" THEN [u EXCEPT !.conn[s].in = buf]
      ELSE IF NextFrame(buf) = "refused"    THEN SendStatusAndClose(DropRest(u, s), s)
      ELSE IF batching
           THEN [v EXCEPT !.conn[s].in = buf, !.conn[s].batched = TRUE,
                          !.batch = Append(@, [slot |-> s, generation |-> c.generation])]
      ELSE IF FreeTickets(u) = {} THEN QueueForTicket([u EXCEPT !.conn[s].in = buf], s)
      ELSE IF ~Prepared(buf)      THEN SendStatusAndClose(DropRest(u, s), s)
      ELSE Finish(Acquire(u, t), s, t, buf, handler[s])

-----------------------------------------------------------------------------
(* Completions, as DrainRing takes them off the queue *)

\* Mutant: the slot is cleared, queue links and all.
HandleAcceptClearsLinks(u, e) ==
  ArmRecv([u EXCEPT !.conn[e.slot] =
             [FreeConnection EXCEPT !.inUse = TRUE,
                                    !.generation = u.conn[e.slot].generation + 1]],
          e.slot)

\* A connection that closed while it was queued left its place in the queues to
\* the slot, so what belongs to the queues survives the reuse.
HandleAcceptCompletion(u, e) ==
  LET c == u.conn[e.slot]
  IN  ArmRecv([u EXCEPT !.conn[e.slot] =
                 [FreeConnection EXCEPT !.inUse = TRUE,
                                        !.generation = c.generation + 1,
                                        !.waitingForTicket = c.waitingForTicket,
                                        !.nextWaiting = c.nextWaiting,
                                        !.waitingForRearm = c.waitingForRearm,
                                        !.nextRearm = c.nextRearm]],
              e.slot)

\* The end of HandleRecvCompletion.
RearmAfter(u, s) ==
  IF u.conn[s].inUse /\ ~u.conn[s].recvArmed /\ ~u.conn[s].deferred
  THEN ArmRecv(u, s) ELSE u

\* Bytes for a connection that is there, of which w is the state without them.
Received(w, e, handler) ==
  LET s     == e.slot
      c     == w.conn[s]
      more  == c.in \o e.data
      v     == RecycleRecvBuffer([w EXCEPT !.conn[s].in = more])
      fits  == PartialFits(Len(more))
  IN  CASE c.sendInFlight ->
             IF fits THEN RearmAfter(v, s)
             ELSE CloseConnection(RecycleRecvBuffer(w), s)
        [] ~c.sendInFlight /\ (c.in # << >> \/ c.deferred) ->
             IF fits THEN RearmAfter(ServeNextRequest(v, s, more, handler), s)
             ELSE LET x == SendStatusAndClose(RecycleRecvBuffer(w), s)
                  IN  IF c.in # << >> THEN x ELSE RearmAfter(x, s)
        [] OTHER ->
             RearmAfter(RecycleRecvBuffer(ServeNextRequest(w, s, e.data, handler)), s)

\* Mutant: bytes for a connection that is gone are dropped with their buffer.
RecvForGoneKeepsBuffer(u, e, handler) ==
  LET s == e.slot
      c == u.conn[s]
      v == IF e.more THEN u ELSE [u EXCEPT !.conn[s].recvArmed = FALSE]
  IN  IF ~c.inUse \/ c.generation # e.tag THEN u
      ELSE CASE e.res = "end"      -> CloseConnection(v, s)
             [] e.res = "ENOBUFS"  -> QueueForRearm([v EXCEPT !.conn[s].recvArmed = FALSE], s)
             [] e.res = "canceled" -> v
             [] OTHER              -> Received(v, e, handler)

HandleRecvCompletion(u, e, handler) ==
  LET s == e.slot
      c == u.conn[s]
      v == IF e.more THEN u ELSE [u EXCEPT !.conn[s].recvArmed = FALSE]
  IN  IF ~c.inUse \/ c.generation # e.tag
      THEN IF e.data # << >> THEN RecycleRecvBuffer(u) ELSE u
      ELSE CASE e.res = "end"      -> CloseConnection(v, s)
             [] e.res = "ENOBUFS"  -> QueueForRearm([v EXCEPT !.conn[s].recvArmed = FALSE], s)
             [] e.res = "canceled" -> v
             [] OTHER              -> Received(v, e, handler)

PopWaiting(u) ==
  LET s    == u.waitingHead
      next == u.conn[s].nextWaiting
  IN  [u EXCEPT !.waitingHead = next,
                !.waitingTail = IF next = NoSlot THEN NoSlot ELSE @,
                !.conn[s].nextWaiting = NoSlot,
                !.conn[s].waitingForTicket = FALSE]

PassWaiting(u) ==
  IF u.waitingHead = NoSlot \/ u.conn[u.waitingHead].inUse THEN u ELSE PopWaiting(u)

\* TakeNextWaitingForTicket: the first in the queue whose slot is in use.
TakeNextWaiting(u) ==
  LET passed[n \in 0 .. Cardinality(Slots)] ==
        IF n = 0 THEN u ELSE PassWaiting(passed[n - 1])
      v == passed[Cardinality(Slots)]
  IN  [u    |-> IF v.waitingHead = NoSlot THEN v ELSE PopWaiting(v),
       slot |-> v.waitingHead]

\* Mutant: what arrived behind the response waits for the next completion.
AfterResponseWaits(u, s, last, handler) ==
  LET v == [u EXCEPT !.conn[s].sendInFlight = FALSE]
      c == v.conn[s]
  IN  CASE last -> CloseConnection(v, s)
        [] ~last /\ c.inUse /\ ~c.recvArmed /\ ~c.deferred -> ArmRecv(v, s)
        [] OTHER -> v

\* The connection a response was for goes on with what is in hand.
AfterResponse(u, s, last, handler) ==
  LET v == [u EXCEPT !.conn[s].sendInFlight = FALSE]
      w == IF v.conn[s].in # << >>
           THEN ServeNextRequest(v, s, v.conn[s].in, handler) ELSE v
      c == w.conn[s]
  IN  CASE last -> CloseConnection(v, s)
        [] ~last /\ c.inUse /\ ~c.recvArmed /\ ~c.sendInFlight /\ ~c.deferred ->
             ArmRecv(w, s)
        [] OTHER -> w

\* A ticket that comes back whole serves the next connection that waits for one;
\* a failed send only gives it back.
HandleSendCompletion(u, e, handler) ==
  LET t      == e.ticket
      k      == u.ticket[t]
      s      == k.slot
      theirs == u.conn[s].inUse /\ u.conn[s].generation = k.generation
      v      == ReleaseSendTicket(u, t)
      w      == IF theirs THEN AfterResponse(v, s, k.closeWhenWritten, handler) ELSE v
      next   == TakeNextWaiting(w)
      c      == next.u.conn[next.slot]
  IN  CASE e.res = "error" ->
             IF theirs
             THEN CloseConnection([v EXCEPT !.conn[s].sendInFlight = FALSE], s)
             ELSE v
        [] e.res = "part" ->
             IF theirs THEN [u EXCEPT !.sends = @ \cup {t}] ELSE v
        [] OTHER ->
             IF next.slot = NoSlot \/ c.sendInFlight \/ c.in = << >> THEN next.u
             ELSE ServeNextRequest(next.u, next.slot, c.in, handler)

\* DrainRing's switch.
Handle(u, e, handler) ==
  CASE e.op = "accept" -> HandleAcceptCompletion(u, e)
    [] e.op = "recv"   -> HandleRecvCompletion(u, e, handler)
    [] e.op = "send"   -> HandleSendCompletion(u, e, handler)

\* Mutant: an answer that is owed to whoever has the slot.
OwedAnyGeneration(u, token) ==
  u.conn[token.slot].inUse /\ u.conn[token.slot].deferred

\* AmmServer_APISendDeferred, which the application calls from the notify
\* callback: an answer for a connection that is gone is dropped.
Owed(u, token) ==
  LET c == u.conn[token.slot]
  IN  c.inUse /\ c.deferred /\ Tag(c.generation) = token.generation

SendDeferred(u, token, outcome) ==
  LET s == token.slot
      v == [u EXCEPT !.tokens = @ \ {token}]
      w == [v EXCEPT !.conn[s].deferred = FALSE]
  IN  CASE ~Owed(u, token)  -> v
        [] Owed(u, token) /\ outcome = "fail" -> SendStatusAndClose(w, s)
        [] OTHER -> Respond(w, s, CHOOSE t \in FreeTickets(u) : TRUE, token.req,
                            ~u.conn[s].deferredKeepAlive)

-----------------------------------------------------------------------------
(* The ring thread *)

DrainRing ==
  /\ cq # << >>
  /\ \E handler \in [Slots -> Outcomes] : st' = Handle(st, Head(cq), handler)
  /\ cq' = Tail(cq)
  /\ UNCHANGED << batching, client >>

\* The completion queue has been read to its end: what the pass made ready is
\* answered together.
EndOfPass ==
  /\ st.batch # << >>
  /\ \E handler \in [Slots -> Outcomes] : st' = FlushBatch(st, handler)
  /\ UNCHANGED << batching, cq, client >>

\* With no ticket free the application keeps the answer and tries again.
Notified ==
  /\ \E token \in st.tokens, outcome \in Outcomes \ {"defer"} :
       /\ Owed(st, token) => FreeTickets(st) # {}
       /\ st' = SendDeferred(st, token, outcome)
  /\ UNCHANGED << batching, cq, client >>

-----------------------------------------------------------------------------
(* The kernel *)

\* The generation of the connection the kernel has in the slot.
Accepting(s)   == \E i \in DOMAIN cq : cq[i].op = "accept" /\ cq[i].slot = s
Incarnation(s) == st.conn[s].generation + (IF Accepting(s) THEN 1 ELSE 0)

Accepted       == MapThenSumSet(Incarnation, Slots)

KernelAccepts(s) ==
  /\ peer[s] = "none"
  /\ peer' = [peer EXCEPT ![s] = "open"]
  /\ \E next \in DOMAIN Scripts : \E script \in Scripts[next] :
       /\ next = Accepted + 1
       /\ stream' = [stream EXCEPT ![s] = FlattenSeq(
                   [n \in DOMAIN script |->
                      Request(RequestOf(s, Incarnation(s) + 1, n), script[n])])]
  /\ answers' = [answers EXCEPT ![s] = << >>]
  /\ cq' = Append(cq, [op |-> "accept", slot |-> s])
  /\ UNCHANGED << batching, st >>

RecvCompletion(s, tag, res, data, more) ==
  [op |-> "recv", slot |-> s, tag |-> tag, res |-> res, data |-> data, more |-> more]

\* The i-th receive submitted is on the socket the slot has now.
Live(s, i)     == peer[s] # "none" /\ st.recvs[s][i] = Tag(Incarnation(s))
RecvEnds(s, i) == st' = [st EXCEPT !.recvs[s] = RemoveAt(@, i)]

KernelReceives(s) ==
  /\ st.buffers > 0
  /\ \E i \in DOMAIN st.recvs[s], n \in 1 .. Len(stream[s]), more \in BOOLEAN :
       /\ Live(s, i)
       /\ n <= URING_RECV_BUFFER_SIZE
       /\ cq' = Append(cq, RecvCompletion(s, st.recvs[s][i], "data",
                                         SubSeq(stream[s], 1, n), more))
       /\ st' = [st EXCEPT !.buffers = @ - 1,
                           !.recvs[s] = IF more THEN @ ELSE RemoveAt(@, i)]
       /\ stream' = [stream EXCEPT ![s] = SubSeq(@, n + 1, Len(@))]
  /\ UNCHANGED << batching, peer, answers >>

KernelOutOfBuffers(s) ==
  /\ st.buffers = 0
  /\ \E i \in DOMAIN st.recvs[s] :
       /\ Live(s, i)
       /\ RecvEnds(s, i)
       /\ cq' = Append(cq, RecvCompletion(s, st.recvs[s][i], "ENOBUFS", << >>, FALSE))
  /\ UNCHANGED << batching, client >>

KernelEndOfStream(s) ==
  /\ peer[s] = "shut"
  /\ \E i \in DOMAIN st.recvs[s] :
       /\ Live(s, i)
       /\ RecvEnds(s, i)
       /\ cq' = Append(cq, RecvCompletion(s, st.recvs[s][i], "end", << >>, FALSE))
  /\ UNCHANGED << batching, client >>

\* The close the thread has submitted; its cancel makes the receive report back
\* at some time, perhaps after the slot has been given to the next client.
KernelCloses(s) ==
  /\ s \in st.closes
  /\ st' = [st EXCEPT !.closes = @ \ {s}]
  /\ peer' = [peer EXCEPT ![s] = "none"]
  /\ stream' = [stream EXCEPT ![s] = << >>]
  /\ answers' = [answers EXCEPT ![s] = << >>]
  /\ UNCHANGED << batching, cq >>

KernelCancels(s) ==
  /\ \E i \in DOMAIN st.recvs[s] :
       LET tag == st.recvs[s][i]
       IN  /\ s \in st.closes \/ peer[s] = "none" \/ tag # Tag(Incarnation(s))
           /\ RecvEnds(s, i)
           /\ cq' = Append(cq, RecvCompletion(s, tag, "canceled", << >>, FALSE))
  /\ UNCHANGED << batching, client >>

\* The socket takes all of a response or a part of it, or the client is gone.
KernelSends(t) ==
  /\ t \in st.sends
  /\ LET k       == st.ticket[t]
         theirs  == peer[k.slot] # "none" /\ k.generation = Incarnation(k.slot)
     IN  \E res \in {"all", "part", "error"} :
           /\ res = "error" => ~theirs \/ peer[k.slot] = "shut"
           /\ cq' = Append(cq, [op |-> "send", slot |-> k.slot, ticket |-> t, res |-> res])
           /\ answers' = IF theirs /\ res = "all"
                         THEN [answers EXCEPT ![k.slot] = Append(@, k.req)]
                         ELSE answers
  /\ st' = [st EXCEPT !.sends = @ \ {t}]
  /\ UNCHANGED << batching, stream, peer >>

-----------------------------------------------------------------------------
(* The clients *)

\* What it sent before may still arrive, or be lost.
ClientCloses(s) ==
  /\ peer[s] = "open"
  /\ peer' = [peer EXCEPT ![s] = "shut"]
  /\ UNCHANGED << batching, st, cq, stream, answers >>

-----------------------------------------------------------------------------

Next ==
  \/ DrainRing \/ EndOfPass \/ Notified
  \/ \E s \in Slots :
       \/ KernelAccepts(s) \/ KernelReceives(s) \/ KernelOutOfBuffers(s)
       \/ KernelEndOfStream(s) \/ KernelCloses(s) \/ KernelCancels(s)
       \/ ClientCloses(s)
  \/ \E t \in Tickets : KernelSends(t)

Spec == Init /\ [][Next]_vars
-----------------------------------------------------------------------------
(* Properties *)

\* What a client has got are the answers to its own requests, in order and none
\* skipped, the last perhaps a status: no response of a previous client of the
\* slot, and no two responses racing each other out of one connection.
AnswersInOrder ==
  \A s \in Slots : \A i \in DOMAIN answers[s] :
    \/ answers[s][i] = RequestOf(s, Incarnation(s), i)
    \/ answers[s][i] = RequestOf(s, Incarnation(s), StatusOnly) /\ i = Len(answers[s])

\* The waiting slots in some order: each links the next, and the last links none.
QueueIntact(head, tail, waiting, next) ==
  LET n == Cardinality(waiting)
  IN  \E queue \in Bijection(1 .. n, waiting) :
        /\ head = IF n = 0 THEN NoSlot ELSE queue[1]
        /\ tail = IF n = 0 THEN NoSlot ELSE queue[n]
        /\ \A i \in 1 .. n : next[queue[i]] = IF i = n THEN NoSlot ELSE queue[i + 1]

TicketQueueIntact(u) ==
  QueueIntact(u.waitingHead, u.waitingTail, {s \in Slots : u.conn[s].waitingForTicket},
              [s \in Slots |-> u.conn[s].nextWaiting])
RearmQueueIntact(u) ==
  QueueIntact(u.rearmHead, u.rearmTail, {s \in Slots : u.conn[s].waitingForRearm},
              [s \in Slots |-> u.conn[s].nextRearm])

\* The two queues are linked through the table, and a slot that was closed while
\* it was queued keeps its place through the next client: no queue is cut in
\* two, and every connection marked as waiting can be reached.
QueuesIntact == TicketQueueIntact(st) /\ RearmQueueIntact(st)

\* What a connection with a complete request in hand waits for.
CaredFor(c) ==
  c.inUse /\ NextFrame(c.in) = "ready" =>
    c.sendInFlight \/ c.batched \/ c.deferred \/ c.waitingForTicket

\* A complete request that a connection holds is being taken care of: it waits
\* for the batch, for a ticket, or for the response before it.
NoRequestForgotten ==
  \A s \in Slots : CaredFor(st.conn[s])

\* A connection that is not waiting for something else has one receive
\* submitted, whose completion will come or is in the queue, and never two.
Final(e, s) == e.op = "recv" /\ e.slot = s /\ e.tag = Tag(st.conn[s].generation) /\ ~e.more
Receives(s) ==
  Len(SelectSeq(st.recvs[s], LAMBDA g : g = Tag(st.conn[s].generation)))
    + Len(SelectSeq(cq, LAMBDA e : Final(e, s)))
OneReceive ==
  \A s \in Slots :
    LET c == st.conn[s]
    IN  c.inUse =>
          /\ Receives(s) = IF c.recvArmed THEN 1 ELSE 0
          /\ c.recvArmed \/ c.sendInFlight \/ c.deferred \/ c.waitingForRearm

\* Nothing leaks from the two pools, whatever order connections close in: a
\* ticket that is taken has a send submitted or completed, and a buffer that is
\* not with the kernel is in a completion.
NothingLeaks ==
  /\ \A t \in Tickets :
       st.ticket[t].busy <=>
         t \in st.sends \/ \E i \in DOMAIN cq : cq[i].op = "send" /\ cq[i].ticket = t
  /\ st.buffers + Cardinality({i \in DOMAIN cq : cq[i].op = "recv" /\ cq[i].data # << >>})
       = Buffers

\* "is served from HandleSendCompletion as tickets come back"
\* (uringAPIServer.c:635): a connection that waits for a ticket with a request
\* in hand waits for one that is taken.
TicketComesBack ==
  \A s \in Slots :
    st.conn[s].inUse /\ st.conn[s].waitingForTicket /\ st.conn[s].in # << >>
      => FreeTickets(st) # Tickets

\* "armed again from RecycleRecvBuffer as buffers come back"
\* (uringAPIServer.c:476-477): a connection that waits for a buffer waits for one
\* that is in use.
BufferComesBack ==
  \A s \in Slots :
    st.conn[s].inUse /\ st.conn[s].waitingForRearm /\ ~st.conn[s].recvArmed
      => st.buffers < Buffers
=============================================================================
