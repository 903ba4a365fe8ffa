--------------------------- MODULE UringInvariant ---------------------------
(***************************************************************************)
(* What holds of a ring between any two steps.  RingInv says where every   *)
(* send ticket, receive buffer and queued slot is, and that each request   *)
(* that a connection holds is cared for; OrderInv where every request of   *)
(* every client is.  Both are stated of a state u, up to what a handler of *)
(* the ring thread has in hand, so that they can be followed through it    *)
(* (Uring_proofs).                                                         *)
(***************************************************************************)
EXTENDS UringAPI

Links == Slots \cup {NoSlot}
Asks  == Slots \X Nat \X Nat
Units == [req : Asks, kind : RequestKinds, at : Nat]
Bytes == Seq(Units)

Connections ==
  [inUse : BOOLEAN, generation : Nat, in : Bytes, recvArmed : BOOLEAN,
   sendInFlight : BOOLEAN, batched : BOOLEAN,
   deferred : BOOLEAN, deferredKeepAlive : BOOLEAN,
   waitingForTicket : BOOLEAN, nextWaiting : Links,
   waitingForRearm : BOOLEAN, nextRearm : Links]

TicketStates ==
  [busy : BOOLEAN, slot : Links, generation : Nat, req : Asks \cup {<< >>},
   closeWhenWritten : BOOLEAN]

BatchEntries == [slot : Slots, generation : Nat]
Tokens       == [slot : Slots, req : Asks, generation : Nat]

States ==
  [conn : [Slots -> Connections],
   waitingHead : Links, waitingTail : Links, rearmHead : Links, rearmTail : Links,
   ticket : [Tickets -> TicketStates], batch : Seq(BatchEntries), tokens : SUBSET Tokens,
   recvs : [Slots -> Seq(Nat)], sends : SUBSET Tickets, closes : SUBSET Slots,
   buffers : Nat]

\* The queues are whole, all requests but those of the slots in F are cared for, and b
\* buffers are with the kernel.
Tidy(u, F, b) ==
  /\ u \in States
  /\ TicketQueueIntact(u) /\ RearmQueueIntact(u)
  /\ {s \in Slots : ~CaredFor(u.conn[s])} \subseteq F
  /\ u.buffers = b

\* A ticket that is taken is one of A, for a response that is being made, or it has a
\* send submitted, or one that is completed and is one of P.
Accounted(u, A, P) ==
  /\ A \cup P \cup u.sends = {t \in Tickets : u.ticket[t].busy}
  /\ A \cap P = {} /\ A \cap u.sends = {} /\ P \cap u.sends = {}
  /\ \A t \in P \cup u.sends : u.ticket[t].slot \in Slots

Fine(u, A, P, F, b) == Tidy(u, F, b) /\ Accounted(u, A, P)

Accepts == [op : {"accept"}, slot : Slots]
Recvs   == {e \in [op : {"recv"}, slot : Slots, tag : Nat,
                   res : {"data", "ENOBUFS", "end", "canceled"}, data : Bytes,
                   more : BOOLEAN] : e.data # << >> <=> e.res = "data"}
Sent    == [op : {"send"}, slot : Slots, ticket : Tickets, res : {"all", "part", "error"}]

Completions == Accepts \cup Recvs \cup Sent

\* The tickets whose send is completed, and the completions that hold a buffer.
Returning(q) == {q[i].ticket : i \in {j \in DOMAIN q : q[j].op = "send"}}
OncePerTicket(q) ==
  \A i, j \in DOMAIN q :
    q[i].op = "send" /\ q[j].op = "send" /\ q[i].ticket = q[j].ticket => i = j
Filled    == {e \in Completions : e.op = "recv" /\ e.data # << >>}
Places(q) == {i \in DOMAIN q : q[i] \in Filled}

\* Between two steps nothing is in the making: every ticket that is taken has a send
\* submitted or one completion in the queue, every buffer that is not with the kernel is
\* in a completion, and no request waits for nothing.
RingInv ==
  /\ cq \in Seq(Completions)
  /\ stream \in [Slots -> Bytes]
  /\ Fine(st, {}, Returning(cq), {}, st.buffers)
  /\ OncePerTicket(cq)
  /\ st.buffers + Cardinality(Places(cq)) = Buffers

-----------------------------------------------------------------------------
(* Requests in line *)

\* b comes right behind a in what a client sends.
Follows(a, b) ==
  \/ b.at = a.at + 1 /\ a.at # Size(a.kind) /\ b.kind = a.kind /\ b.req = a.req
  \/ b.at = 1 /\ a.at = Size(a.kind) /\ b.req = << a.req[1], a.req[2], a.req[3] + 1 >>

\* What the client of slot s at generation g sends from its k-th request on.
InLine(bytes, s, g, k) ==
  /\ bytes # << >> => bytes[1].at = 1 /\ bytes[1].req = << s, g, k >>
  /\ \A i \in 1 .. Len(bytes) - 1 : Follows(bytes[i], bytes[i + 1])

Carries(e, s, g) ==
  IF e.op = "recv" /\ e.slot = s /\ e.tag = g THEN e.data ELSE << >>

Pending(q, s, g) == FlattenSeq([i \in DOMAIN q |-> Carries(q[i], s, g)])

-----------------------------------------------------------------------------
(* Connections in line *)

\* What is true of a slot's client outside the ring: the number of the answer it gets
\* next, whether it has got its last, whether the ring knows of it, and what it has sent
\* that the ring has not read.
Worlds == [turn : Nat, over : BOOLEAN, live : BOOLEAN, rest : Bytes]

\* The tickets of a slot's connection.
Mine(u, s) ==
  {t \in Tickets : u.ticket[t].slot = s /\ u.ticket[t].generation = u.conn[s].generation}

\* The answer that is being made is the connection's last.
Ending(u, s) ==
  \/ \E t \in Mine(u, s) : u.ticket[t].closeWhenWritten
  \/ u.conn[s].deferred /\ ~u.conn[s].deferredKeepAlive

\* The request that what is in hand starts with, where the sends of D are completed.
Start(u, s, w, D) ==
  IF u.conn[s].deferred \/ Mine(u, s) \ D # {} THEN w.turn + 1 ELSE w.turn

\* Tickets and tokens are of the slot's connection or of one before it.
Past(u, s) ==
  /\ \A t \in Tickets : u.ticket[t].slot = s => u.ticket[t].generation <= u.conn[s].generation
  /\ \A k \in u.tokens : k.slot = s => k.generation <= u.conn[s].generation
  /\ \A t, x \in Mine(u, s) : t = x

\* A connection has its own answer or status on its ticket, unless it is written.
Owned(u, s, w, D) ==
  /\ Past(u, s)
  /\ w.live => \A t \in Mine(u, s) \ D :
                 \/ u.ticket[t].req = << s, u.conn[s].generation, w.turn >>
                 \/ /\ u.ticket[t].req = << s, u.conn[s].generation, StatusOnly >>
                    /\ u.ticket[t].closeWhenWritten
  /\ w.over => Mine(u, s) \subseteq D

\* A connection that is in use waits for one thing at a time.
InStep(c) ==
  /\ c.sendInFlight => ~c.deferred /\ ~c.batched
  /\ c.deferred => ~c.batched
  /\ c.batched => c.in # << >>
  /\ c.deferred \/ c.in # << >> => c.generation < TagWidth
  /\ c.generation >= 1

\* What is in hand and what is to come are the requests that follow.
Served(u, s, w, D) ==
  LET c == u.conn[s]
      g == c.generation
  IN  /\ InStep(c)
      /\ Mine(u, s) # {} <=> c.sendInFlight
      /\ w.over => c.sendInFlight /\ Ending(u, s)
      /\ \A k \in u.tokens : k.slot = s /\ k.generation = g =>
                               c.deferred /\ k.req = << s, g, w.turn >>
      /\ Len(c.in) + Len(w.rest) <= API_MAX_REQUEST_SIZE
      /\ g < TagWidth /\ ~Ending(u, s) => InLine(c.in \o w.rest, s, g, Start(u, s, w, D))

\* A slot is in step with its client: it is in use from the accept to the close.
Line(u, s, w, D) ==
  /\ u.conn[s].inUse <=> w.live /\ s \notin u.closes
  /\ s \in u.closes => w.live
  /\ u.conn[s].inUse \/ u.conn[s].in = << >>
  /\ Owned(u, s, w, D)
  /\ u.conn[s].inUse => Served(u, s, w, D)

\* The entries of the batch from the n-th on that are of the slot's connection find it
\* set aside, and no other is of it.
InBatch(u, q, n, s) ==
  \A i \in n .. Len(q) :
    q[i].slot = s =>
      /\ q[i].generation <= u.conn[s].generation
      /\ q[i].generation = u.conn[s].generation =>
           u.conn[s].batched /\ \A j \in n .. Len(q) : q[j] = q[i] => j = i

\* A free ticket is nobody's, and the sends of D are of somebody.
Unsaid(u, D) ==
  /\ \A t \in Tickets : ~u.ticket[t].busy => u.ticket[t].slot = NoSlot
  /\ \A t \in D : t \in Tickets /\ u.ticket[t].slot \in Slots

\* All slots are, where the batch q has been flushed up to its n-th entry.
Lined(u, W, D, q, n) ==
  /\ \A s \in Slots : Line(u, s, W[s], D) /\ InBatch(u, q, n, s)
  /\ Unsaid(u, D)

\* A receive was submitted for the slot's connection or for one before it.
Tagged(u) ==
  \A s \in Slots : \A i \in DOMAIN u.recvs[s] :
    /\ u.recvs[s][i] < TagWidth
    /\ u.conn[s].generation < TagWidth => u.recvs[s][i] <= u.conn[s].generation

-----------------------------------------------------------------------------
(* The ring and its clients *)

\* The sends that are completed.
Done(q) == {q[i].ticket : i \in {j \in DOMAIN q : q[j].op = "send" /\ q[j].res = "all"}}

\* A client was accepted, and the ring does not know of it yet.
Coming(q, s) == \E i \in DOMAIN q : q[i].op = "accept" /\ q[i].slot = s

Once(q, s) ==
  \A i, j \in DOMAIN q :
    q[i].op = "accept" /\ q[i].slot = s /\ q[j].op = "accept" /\ q[j].slot = s => i = j

\* A completion brings what was received for the slot's connection or for one before it.
Known(e, s, g) ==
  e.op = "recv" /\ e.slot = s => e.tag < TagWidth /\ (g < TagWidth => e.tag <= g)

AllKnown(q, s, g) == \A i \in DOMAIN q : Known(q[i], s, g)

\* A slot's client, whose connection has generation g: q completes, x is what of its
\* requests has not been received yet, p is whether it is there, a are the answers it has.
Outside(g, q, x, p, a, s) ==
  [ turn |-> Len(a) + 1,
    over |-> a # << >> /\ a[Len(a)][3] = StatusOnly,
    live |-> p # "none" /\ ~Coming(q, s),
    rest |-> Pending(q, s, g) \o x ]

WorldOf(u, q, x, p, a) ==
  [s \in Slots |-> Outside(u.conn[s].generation, q, x[s], p[s], a[s], s)]

\* What is known of a client before the ring hears of it.
Arriving(g, q, x, p, s) ==
  /\ Coming(q, s) =>
       /\ p # "none"
       /\ Len(x) <= API_MAX_REQUEST_SIZE
       /\ g + 1 < TagWidth => InLine(x, s, g + 1, 1)
  /\ Once(q, s)
  /\ AllKnown(q, s, g)

\* What a client has got.
Heard(g, a, w, s) ==
  /\ ~w.live => a = << >>
  /\ \A i \in DOMAIN a : \/ a[i] = << s, g, i >>
                         \/ a[i] = << s, g, StatusOnly >> /\ i = Len(a)

Meets(u, q, x, p, a, s) ==
  LET g == u.conn[s].generation
  IN  Arriving(g, q, x[s], p[s], s) /\ Heard(g, a[s], WorldOf(u, q, x, p, a)[s], s)

Peers == {"none", "open", "shut"}

\* Every request of every client is in its place.
Ordered(u, q, x, p, a) ==
  /\ a \in [Slots -> Seq(Asks)] /\ p \in [Slots -> Peers]
  /\ Lined(u, WorldOf(u, q, x, p, a), Done(q), u.batch, 1)
  /\ Tagged(u)
  /\ \A s \in Slots : Meets(u, q, x, p, a, s)

\* Between two steps every client has its answers so far and is going to get the others.
OrderInv == Ordered(st, cq, stream, peer, answers)

\* All that a client may ask for fits the buffer in which a connection keeps it.
ClientsFit ==
  \A next \in DOMAIN Scripts : \A script \in Scripts[next] : \A s \in Slots, g \in Nat :
    Len(FlattenSeq([n \in DOMAIN script |-> Request(RequestOf(s, g, n), script[n])]))
      <= API_MAX_REQUEST_SIZE
=============================================================================
