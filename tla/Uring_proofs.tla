---------------------------- MODULE Uring_proofs ----------------------------
(***************************************************************************)
(* The connections of one ring, for any table, any pools and any clients:  *)
(* whatever the order in which connections close, nothing leaks from the   *)
(* pools, the queues that are linked through the table stay whole, no      *)
(* request is forgotten, and a client gets the answers to its own requests *)
(* in the order in which it made them.                                     *)
(***************************************************************************)
EXTENDS UringInvariant, FiniteSetTheorems, WellFoundedInduction, NaturalsInduction,
        SequenceTheorems, TLAPS

-----------------------------------------------------------------------------
(* Natural numbers and recursive functions *)

LessThan == {p \in Nat \X Nat : p[1] < p[2]}

LEMMA Least ==
  ASSUME NEW S \in SUBSET Nat, S # {}
  PROVE  \E i \in S : \A j \in S : i <= j
<1>1. IsWellFoundedOn(LessThan, Nat)
  BY NatLessThanWellFounded, Zenon DEF OpToRel, LessThan
<1>2. PICK i \in S : \A j \in S : << j, i >> \notin LessThan
  BY <1>1, WFMin, Zenon
<1>3. ASSUME NEW j \in S PROVE i <= j
  <2>1. i \in Nat /\ j \in Nat /\ << j, i >> \in Nat \X Nat
    OBVIOUS
  <2>2. ~(<< j, i >>[1] < << j, i >>[2])
    BY <1>2, <2>1 DEF LessThan
  <2> QED
    BY <2>1, <2>2
<1> QED
  BY <1>3

LEMMA Upwards ==
  ASSUME NEW N \in Nat, NEW S, 0 \in S, \A n \in 1 .. N : n - 1 \in S => n \in S
  PROVE  \A n \in 0 .. N : n \in S
<1> DEFINE T == {n \in 0 .. N : n \notin S}
<1> SUFFICES ASSUME T # {} PROVE FALSE
  OBVIOUS
<1>1. T \in SUBSET Nat
  OBVIOUS
<1>2. PICK i \in T : \A j \in T : i <= j
  BY <1>1, Least, Zenon
<1>3. i \in 1 .. N /\ i - 1 \in 0 .. N /\ ~(i <= i - 1)
  BY <1>2
<1>4. i - 1 \in S
  BY <1>2, <1>3
<1> QED
  BY <1>2, <1>3, <1>4

\* A function that is defined by its value at n - 1 exists, and its value at n is in
\* D[n] when every step leads from D[n - 1] to D[n].
Leads(N, U, D, F, base) ==
  /\ \A n \in 0 .. N : D[n] \subseteq U
  /\ base \in D[0]
  /\ \A n \in 1 .. N : \A x \in D[n - 1] : F[<< n, x >>] \in D[n]

Recurs(f, N, D, F, base) ==
  /\ \A n \in 0 .. N : f[n] \in D[n]
  /\ f[0] = base
  /\ \A n \in 1 .. N : f[n] = F[<< n, f[n - 1] >>]

LEMMA Recursion ==
  ASSUME NEW N \in Nat, NEW U, NEW D, NEW F, NEW base, Leads(N, U, D, F, base)
  PROVE  \E f \in [0 .. N -> U] : Recurs(f, N, D, F, base)
<1> USE DEF Leads, Recurs
<1> DEFINE Good(m, f) == /\ \A n \in 0 .. m : f[n] \in D[n]
                         /\ f[0] = base
                         /\ \A n \in 1 .. m : f[n] = F[<< n, f[n - 1] >>]
           S == {m \in 0 .. N : \E f \in [0 .. m -> U] : Good(m, f)}
<1>1. 0 \in S
  <2> DEFINE g == [n \in 0 .. 0 |-> base]
  <2>1. g \in [0 .. 0 -> U] /\ 0 \in 0 .. N
    OBVIOUS
  <2>2. Good(0, g)
    OBVIOUS
  <2> HIDE DEF g, Good
  <2> QED
    BY <2>1, <2>2
<1>2. ASSUME NEW m \in 1 .. N, m - 1 \in S PROVE m \in S
  <2>1. PICK f \in [0 .. m - 1 -> U] : Good(m - 1, f)
    BY <1>2
  <2> DEFINE last == F[<< m, f[m - 1] >>]
             g    == [n \in 0 .. m |-> IF n = m THEN last ELSE f[n]]
  <2>2. m - 1 \in 0 .. m - 1 /\ m \in 0 .. N
    OBVIOUS
  <2>3. last \in D[m] /\ D[m] \subseteq U
    BY <2>1, <2>2
  <2> HIDE DEF last
  <2>4. g \in [0 .. m -> U]
    BY <2>3
  <2>5. g[m] = last /\ \A n \in 0 .. m - 1 : g[n] = f[n]
    OBVIOUS
  <2> HIDE DEF g
  <2>6. Good(m, g)
    <3>1. \A n \in 0 .. m : g[n] \in D[n]
      BY <2>1, <2>3, <2>5
    <3>2. g[0] = base
      BY <2>1, <2>5
    <3>3. \A n \in 1 .. m - 1 : g[n] = F[<< n, g[n - 1] >>]
      BY <2>1, <2>5
    <3>4. g[m] = F[<< m, g[m - 1] >>]
      BY <2>2, <2>5 DEF last
    <3> QED
      BY <3>1, <3>2, <3>3, <3>4
  <2> QED
    BY <2>2, <2>4, <2>6
<1>3. N \in S
  <2> HIDE DEF S
  <2>1. \A n \in 1 .. N : n - 1 \in S => n \in S
    BY <1>2
  <2> QED
    BY <1>1, <2>1, Upwards
<1>4. PICK f \in [0 .. N -> U] : Good(N, f)
  BY <1>3
<1> QED
  BY <1>4

-----------------------------------------------------------------------------
(* The queues *)

LEMMA SlotsAre == IsFiniteSet(Slots) /\ NoSlot \notin Slots
  BY RingAssumption DEF RingAssumption

\* How a queue of the slots W that are waiting is found.
IsQueue(q, n, head, tail, W, next) ==
  /\ n \in Nat
  /\ q \in [1 .. n -> W]
  /\ \A i, j \in 1 .. n : q[i] = q[j] => i = j
  /\ \A s \in W : \E i \in 1 .. n : q[i] = s
  /\ head = IF n = 0 THEN NoSlot ELSE q[1]
  /\ tail = IF n = 0 THEN NoSlot ELSE q[n]
  /\ \A i \in 1 .. n : next[q[i]] = IF i = n THEN NoSlot ELSE q[i + 1]

LEMMA QueueIsThere ==
  ASSUME NEW W \in SUBSET Slots, NEW head, NEW tail, NEW next, QueueIntact(head, tail, W, next)
  PROVE  \E n, q : IsQueue(q, n, head, tail, W, next)
<1>1. IsFiniteSet(W)
  BY SlotsAre, FS_Subset
<1>2. Cardinality(W) \in Nat
  BY <1>1, FS_CardinalityType
<1>3. PICK q \in Bijection(1 .. Cardinality(W), W) :
        /\ head = IF Cardinality(W) = 0 THEN NoSlot ELSE q[1]
        /\ tail = IF Cardinality(W) = 0 THEN NoSlot ELSE q[Cardinality(W)]
        /\ \A i \in 1 .. Cardinality(W) :
             next[q[i]] = IF i = Cardinality(W) THEN NoSlot ELSE q[i + 1]
  BY DEF QueueIntact
<1>4. q \in [1 .. Cardinality(W) -> W]
      /\ (\A i, j \in 1 .. Cardinality(W) : q[i] = q[j] => i = j)
      /\ \A s \in W : \E i \in 1 .. Cardinality(W) : q[i] = s
  BY DEF Bijection, Injection, Surjection, IsInjective
<1>5. IsQueue(q, Cardinality(W), head, tail, W, next)
  BY <1>2, <1>3, <1>4 DEF IsQueue
<1> QED
  BY <1>2, <1>4, <1>5

LEMMA QueueIsIntact ==
  ASSUME NEW W \in SUBSET Slots, NEW head, NEW tail, NEW next, NEW n, NEW q,
         IsQueue(q, n, head, tail, W, next)
  PROVE  QueueIntact(head, tail, W, next)
<1>1. IsFiniteSet(W)
  BY SlotsAre, FS_Subset
<1>2. q \in Bijection(1 .. n, W)
  BY DEF IsQueue, Bijection, Injection, Surjection, IsInjective
<1>3. Cardinality(W) = n
  <2>1. ExistsBijection(1 .. n, W)
    BY <1>2 DEF ExistsBijection
  <2> QED
    BY <2>1, <1>1, FS_CardinalityType, FS_CountingElements DEF IsQueue
<1> QED
  BY <1>2, <1>3 DEF IsQueue, QueueIntact

Orders == UNION {[1 .. n -> Slots] : n \in Nat}

LEMMA IsQueueTyped ==
  ASSUME NEW W \in SUBSET Slots, NEW head, NEW tail, NEW next, NEW n, NEW q,
         IsQueue(q, n, head, tail, W, next)
  PROVE  n \in Nat /\ q \in Orders
<1>1. n \in Nat /\ q \in [1 .. n -> W]
  BY DEF IsQueue
<1>2. q \in [1 .. n -> Slots]
  BY <1>1
<1> QED
  BY <1>1, <1>2 DEF Orders

LEMMA QueueEnds ==
  ASSUME NEW W \in SUBSET Slots, NEW head, NEW tail, NEW next, QueueIntact(head, tail, W, next)
  PROVE  /\ head \in W \cup {NoSlot} /\ tail \in W \cup {NoSlot}
         /\ \A s \in W : next[s] \in W \cup {NoSlot}
<1>1. PICK n, q : IsQueue(q, n, head, tail, W, next)
  BY QueueIsThere
<1>2. head \in W \cup {NoSlot} /\ tail \in W \cup {NoSlot}
  BY <1>1 DEF IsQueue
<1>3. ASSUME NEW s \in W PROVE next[s] \in W \cup {NoSlot}
  <2>1. PICK i \in 1 .. n : q[i] = s
    BY <1>1 DEF IsQueue
  <2> QED
    BY <1>1, <2>1 DEF IsQueue
<1> QED
  BY <1>2, <1>3

LEMMA Enqueue ==
  ASSUME NEW W \in SUBSET Slots, NEW head, NEW tail, NEW next, QueueIntact(head, tail, W, next),
         NEW s \in Slots, s \notin W, NEW after,
         after[s] = NoSlot, tail # NoSlot => after[tail] = s,
         \A r \in W : r # tail => after[r] = next[r]
  PROVE  QueueIntact(IF tail = NoSlot THEN s ELSE head, s, W \cup {s}, after)
<1>1. PICK n \in Nat, q \in Orders : IsQueue(q, n, head, tail, W, next)
  BY QueueIsThere, IsQueueTyped
<1>0. q \in [1 .. n -> W]
  BY <1>1 DEF IsQueue
<1> DEFINE p == [i \in 1 .. n + 1 |-> IF i = n + 1 THEN s ELSE q[i]]
           first == IF tail = NoSlot THEN s ELSE head
<1>2. /\ p[n + 1] = s
      /\ \A i \in 1 .. n : p[i] = q[i] /\ p[i] \in W
      /\ p \in [1 .. n + 1 -> W \cup {s}]
  BY <1>0
<1> HIDE DEF p
<1>3. tail = NoSlot <=> n = 0
  BY <1>1, SlotsAre DEF IsQueue
<1>4. \A i, j \in 1 .. n + 1 : p[i] = p[j] => i = j
  <2>1. \A i, j \in 1 .. n : q[i] = q[j] => i = j
    BY <1>1 DEF IsQueue
  <2> QED
    BY <1>2, <2>1
<1>5. ASSUME NEW r \in W \cup {s} PROVE \E i \in 1 .. n + 1 : p[i] = r
  <2>1. CASE r = s
    BY <1>2, <2>1
  <2>2. CASE r # s
    <3>1. PICK i \in 1 .. n : q[i] = r
      BY <1>1, <2>2 DEF IsQueue
    <3> QED
      BY <1>2, <3>1
  <2> QED
    BY <2>1, <2>2
<1>6. first = p[1]
  BY <1>1, <1>2, <1>3 DEF IsQueue
<1>7. ASSUME NEW i \in 1 .. n + 1
      PROVE  after[p[i]] = IF i = n + 1 THEN NoSlot ELSE p[i + 1]
  <2>1. CASE i = n + 1
    BY <2>1, <1>2
  <2>2. CASE i = n
    <3>1. p[i] = tail /\ tail # NoSlot
      BY <1>1, <1>2, <1>3, <2>2 DEF IsQueue
    <3> QED
      BY <2>2, <3>1, <1>2
  <2>3. CASE i < n
    <3>1. /\ i \in 1 .. n /\ n \in 1 .. n /\ i + 1 \in 1 .. n /\ i # n /\ i # n + 1
          /\ n # 0
      BY <2>3
    <3>2. p[i] = q[i] /\ q[i] \in W /\ q[i] # tail
      BY <3>1, <1>1, <1>2 DEF IsQueue
    <3>3. after[p[i]] = next[q[i]] /\ next[q[i]] = q[i + 1] /\ p[i + 1] = q[i + 1]
      BY <3>1, <3>2, <1>1, <1>2 DEF IsQueue
    <3> QED
      BY <3>1, <3>3
  <2> QED
    BY <2>1, <2>2, <2>3
<1>8. IsQueue(p, n + 1, first, s, W \cup {s}, after)
  <2>1. s = IF n + 1 = 0 THEN NoSlot ELSE p[n + 1]
    BY <1>2
  <2>2. first = IF n + 1 = 0 THEN NoSlot ELSE p[1]
    BY <1>6
  <2> HIDE DEF first
  <2> QED
    BY <1>2, <1>4, <1>5, <1>7, <2>1, <2>2 DEF IsQueue
<1>9. W \cup {s} \in SUBSET Slots
  OBVIOUS
<1> HIDE DEF first
<1>10. QueueIntact(first, s, W \cup {s}, after)
  BY <1>8, <1>9, QueueIsIntact, Zenon
<1> QED
  BY <1>10 DEF first

LEMMA Dequeue ==
  ASSUME NEW W \in SUBSET Slots, NEW head, NEW tail, NEW next, QueueIntact(head, tail, W, next),
         head # NoSlot, NEW after, \A r \in W \ {head} : after[r] = next[r]
  PROVE  /\ head \in W
         /\ QueueIntact(next[head], IF next[head] = NoSlot THEN NoSlot ELSE tail,
                        W \ {head}, after)
<1>1. PICK n \in Nat, q \in Orders : IsQueue(q, n, head, tail, W, next)
  BY QueueIsThere, IsQueueTyped
<1>0. q \in [1 .. n -> W]
  BY <1>1 DEF IsQueue
<1>2. n > 0 /\ n - 1 \in Nat /\ head = q[1] /\ tail = q[n] /\ head \in W
  BY <1>1 DEF IsQueue
<1> DEFINE p == [i \in 1 .. n - 1 |-> q[i + 1]]
           last == IF next[head] = NoSlot THEN NoSlot ELSE tail
           V == W \ {head}
<1>3. \A i, j \in 1 .. n : q[i] = q[j] => i = j
  BY <1>1 DEF IsQueue
<1>4. \A i \in 1 .. n - 1 : p[i] = q[i + 1] /\ i + 1 \in 1 .. n /\ q[i + 1] \in V
  BY <1>0, <1>2, <1>3
<1>5. p \in [1 .. n - 1 -> V]
  BY <1>4
<1> HIDE DEF p
<1>6. \A i, j \in 1 .. n - 1 : p[i] = p[j] => i = j
  BY <1>3, <1>4
<1>7. ASSUME NEW r \in V PROVE \E i \in 1 .. n - 1 : p[i] = r
  <2>1. PICK i \in 1 .. n : q[i] = r
    BY <1>1 DEF IsQueue
  <2>2. i # 1 /\ i - 1 \in 1 .. n - 1 /\ (i - 1) + 1 = i
    BY <1>2, <2>1
  <2>3. p[i - 1] = q[i]
    BY <1>4, <2>2
  <2> QED
    BY <2>1, <2>2, <2>3
<1>8. next[head] = IF n = 1 THEN NoSlot ELSE q[2]
  BY <1>1, <1>2 DEF IsQueue
<1>9. next[head] = IF n - 1 = 0 THEN NoSlot ELSE p[1]
  BY <1>2, <1>4, <1>8
<1>10. last = IF n - 1 = 0 THEN NoSlot ELSE p[n - 1]
  <2>1. CASE n = 1
    BY <2>1, <1>8
  <2>2. CASE n # 1
    <3>1. n - 1 \in 1 .. n - 1 /\ (n - 1) + 1 = n /\ n - 1 # 0 /\ 2 \in 1 .. n
      BY <1>2, <2>2
    <3>2. p[n - 1] = tail
      BY <3>1, <1>2, <1>4
    <3>3. next[head] \in Slots
      BY <3>1, <1>0, <1>8, <2>2
    <3> QED
      BY <3>1, <3>2, <3>3, SlotsAre
  <2> QED
    BY <2>1, <2>2
<1>11. ASSUME NEW i \in 1 .. n - 1
       PROVE  after[p[i]] = IF i = n - 1 THEN NoSlot ELSE p[i + 1]
  <2>1. i + 1 \in 1 .. n /\ p[i] = q[i + 1] /\ p[i] \in V
    BY <1>4
  <2>2. after[p[i]] = next[q[i + 1]]
    BY <2>1
  <2>3. next[q[i + 1]] = IF i + 1 = n THEN NoSlot ELSE q[(i + 1) + 1]
    BY <1>1, <2>1 DEF IsQueue
  <2>4. i # n - 1 => i + 1 \in 1 .. n - 1
    OBVIOUS
  <2> QED
    BY <2>2, <2>3, <2>4, <1>4
<1>12. IsQueue(p, n - 1, next[head], last, V, after)
  <2> HIDE DEF last, V
  <2> QED
    BY <1>2, <1>5, <1>6, <1>7, <1>9, <1>10, <1>11 DEF IsQueue
<1>13. V \in SUBSET Slots
  OBVIOUS
<1> HIDE DEF last, V
<1>14. QueueIntact(next[head], last, V, after)
  BY <1>12, <1>13, QueueIsIntact, Zenon
<1> QED
  BY <1>2, <1>14 DEF last, V

-----------------------------------------------------------------------------
(* States *)

SameQueues(u, v) ==
  /\ v.waitingHead = u.waitingHead /\ v.waitingTail = u.waitingTail
  /\ v.rearmHead = u.rearmHead /\ v.rearmTail = u.rearmTail

SamePlace(c, d) ==
  /\ d.waitingForTicket = c.waitingForTicket /\ d.nextWaiting = c.nextWaiting
  /\ d.waitingForRearm = c.waitingForRearm /\ d.nextRearm = c.nextRearm

SameTickets(u, v) == v.ticket = u.ticket /\ v.sends = u.sends

LEMMA StatesAre ==
  ASSUME NEW u \in States
  PROVE  /\ u.conn \in [Slots -> Connections]
         /\ u.waitingHead \in Links /\ u.waitingTail \in Links
         /\ u.rearmHead \in Links /\ u.rearmTail \in Links
         /\ u.ticket \in [Tickets -> TicketStates] /\ u.batch \in Seq(BatchEntries)
         /\ u.tokens \in SUBSET Tokens
         /\ u.recvs \in [Slots -> Seq(Nat)] /\ u.sends \in SUBSET Tickets
         /\ u.closes \in SUBSET Slots /\ u.buffers \in Nat
  BY DEF States

LEMMA AccountKept ==
  ASSUME NEW u, NEW v, NEW A, NEW P, Accounted(u, A, P), SameTickets(u, v)
  PROVE  Accounted(v, A, P)
  BY DEF Accounted, SameTickets

LEMMA LinksKept ==
  ASSUME NEW u, NEW v, SameQueues(u, v), \A s \in Slots : SamePlace(u.conn[s], v.conn[s])
  PROVE  /\ TicketQueueIntact(u) => TicketQueueIntact(v)
         /\ RearmQueueIntact(u) => RearmQueueIntact(v)
<1>1. /\ {s \in Slots : v.conn[s].waitingForTicket} = {s \in Slots : u.conn[s].waitingForTicket}
      /\ {s \in Slots : v.conn[s].waitingForRearm} = {s \in Slots : u.conn[s].waitingForRearm}
  BY DEF SamePlace
<1>2. /\ [s \in Slots |-> v.conn[s].nextWaiting] = [s \in Slots |-> u.conn[s].nextWaiting]
      /\ [s \in Slots |-> v.conn[s].nextRearm] = [s \in Slots |-> u.conn[s].nextRearm]
  BY DEF SamePlace
<1> QED
  BY <1>1, <1>2, Zenon DEF SameQueues, TicketQueueIntact, RearmQueueIntact

\* One connection changes, but not its places in the queues.
LEMMA ConnStep ==
  ASSUME NEW u, NEW F, NEW b, Tidy(u, F, b), NEW v \in States, NEW s \in Slots, NEW c,
         v.conn = [u.conn EXCEPT ![s] = c], SamePlace(u.conn[s], c),
         SameQueues(u, v), v.buffers = u.buffers
  PROVE  /\ Tidy(v, F \cup {s}, b)
         /\ CaredFor(c) => Tidy(v, F \ {s}, b)
         /\ (CaredFor(u.conn[s]) => CaredFor(c)) => Tidy(v, F, b)
<1>1. u \in States /\ u.conn \in [Slots -> Connections]
  BY StatesAre DEF Tidy
<1>2. v.conn[s] = c /\ \A r \in Slots : r # s => v.conn[r] = u.conn[r]
  BY <1>1
<1>3. \A r \in Slots : SamePlace(u.conn[r], v.conn[r])
  BY <1>2 DEF SamePlace
<1>4. TicketQueueIntact(v) /\ RearmQueueIntact(v)
  BY <1>3, LinksKept DEF Tidy
<1>5. {r \in Slots : ~CaredFor(u.conn[r])} \subseteq F /\ v.buffers = b
  BY DEF Tidy
<1>6. {r \in Slots : ~CaredFor(v.conn[r])} \subseteq F \cup {s}
  BY <1>2, <1>5
<1>7. CaredFor(c) => {r \in Slots : ~CaredFor(v.conn[r])} \subseteq F \ {s}
  BY <1>2, <1>5
<1>8. (CaredFor(u.conn[s]) => CaredFor(c)) => {r \in Slots : ~CaredFor(v.conn[r])} \subseteq F
  BY <1>2, <1>5
<1> QED
  BY <1>4, <1>5, <1>6, <1>7, <1>8 DEF Tidy

\* Nothing changes in the connections.
LEMMA RestStep ==
  ASSUME NEW u, NEW F, NEW b, Tidy(u, F, b), NEW v \in States,
         v.conn = u.conn, SameQueues(u, v)
  PROVE  Tidy(v, F, v.buffers)
<1>1. \A r \in Slots : SamePlace(u.conn[r], v.conn[r])
  BY DEF SamePlace
<1>2. TicketQueueIntact(v) /\ RearmQueueIntact(v)
  BY <1>1, LinksKept DEF Tidy
<1> QED
  BY <1>2 DEF Tidy

LEMMA FineMore ==
  ASSUME NEW u, NEW A, NEW P, NEW F, NEW b, Fine(u, A, P, F, b), NEW G, F \subseteq G
  PROVE  Fine(u, A, P, G, b)
  BY DEF Fine, Tidy

LEMMA TagIs ==
  ASSUME NEW g \in Nat
  PROVE  Tag(g) \in Nat
  BY RingAssumption DEF RingAssumption, Tag

LEMMA ConnIs ==
  ASSUME NEW u \in States, NEW s \in Slots
  PROVE  u.conn[s] \in Connections /\ u.conn[s].generation \in Nat /\ u.conn[s].in \in Bytes
  BY StatesAre DEF Connections

-----------------------------------------------------------------------------
(* Single steps *)

\* One connection changes, but not its places in the queues, and nothing else does.
Put(u, s, d) == [u EXCEPT !.conn[s] = d]

LEMMA PutDoes ==
  ASSUME NEW u, NEW A, NEW P, NEW F, NEW b, Fine(u, A, P, F, b), NEW s \in Slots,
         NEW d \in Connections, SamePlace(u.conn[s], d),
         NEW v, v = Put(u, s, d)
  PROVE  /\ v \in States /\ v.conn[s] = d
         /\ Fine(v, A, P, F \cup {s}, b)
         /\ CaredFor(d) => Fine(v, A, P, F \ {s}, b)
         /\ (CaredFor(u.conn[s]) => CaredFor(d)) => Fine(v, A, P, F, b)
<1>1. u \in States /\ Tidy(u, F, b) /\ Accounted(u, A, P)
  BY DEF Fine, Tidy
<1>2. /\ v \in States /\ v.conn = [u.conn EXCEPT ![s] = d]
      /\ SameQueues(u, v) /\ v.buffers = u.buffers /\ SameTickets(u, v)
  BY <1>1, StatesAre DEF States, SameQueues, SameTickets, Put
<1>3. v.conn[s] = d
  BY <1>1, <1>2, StatesAre
<1>4. Accounted(v, A, P)
  BY <1>1, <1>2, AccountKept
<1>5. /\ Tidy(v, F \cup {s}, b)
      /\ CaredFor(d) => Tidy(v, F \ {s}, b)
      /\ (CaredFor(u.conn[s]) => CaredFor(d)) => Tidy(v, F, b)
  BY <1>1, <1>2, ConnStep
<1> QED
  BY <1>2, <1>3, <1>4, <1>5 DEF Fine

\* Nothing that the invariants speak of changes.
LEMMA NothingDoes ==
  ASSUME NEW u, NEW A, NEW P, NEW F, NEW b, Fine(u, A, P, F, b), NEW v \in States,
         v.conn = u.conn, SameQueues(u, v), SameTickets(u, v), v.buffers = u.buffers
  PROVE  Fine(v, A, P, F, b)
<1>1. Tidy(u, F, b) /\ Accounted(u, A, P) /\ u.buffers = b
  BY DEF Fine, Tidy
<1> QED
  BY <1>1, RestStep, AccountKept DEF Fine

LEMMA FineIs ==
  ASSUME NEW u, NEW A, NEW P, NEW F, NEW b, Fine(u, A, P, F, b)
  PROVE  u \in States
  BY DEF Fine, Tidy

LEMMA ArmRecvDoes ==
  ASSUME NEW u, NEW A, NEW P, NEW F, NEW b, Fine(u, A, P, F, b), NEW s \in Slots
  PROVE  Fine(ArmRecv(u, s), A, P, F, b)
<1>1. u \in States /\ u.conn[s] \in Connections /\ u.conn[s].generation \in Nat
  BY FineIs, ConnIs
<1>2. PICK d : d = [u.conn[s] EXCEPT !.recvArmed = ~u.conn[s].deferred]
  OBVIOUS
<1>3. d \in Connections /\ SamePlace(u.conn[s], d) /\ (CaredFor(u.conn[s]) => CaredFor(d))
  BY <1>1, <1>2 DEF Connections, SamePlace, CaredFor
<1>4. PICK w : w = Put(u, s, d)
  OBVIOUS
<1>5. Fine(w, A, P, F, b) /\ w \in States
  BY <1>3, <1>4, PutDoes
<1>6. CASE u.conn[s].deferred
  <2>1. d = [u.conn[s] EXCEPT !.recvArmed = FALSE]
    BY <1>2, <1>6
  <2>2. ArmRecv(u, s) = w
    BY <1>1, <1>4, <1>6, <2>1, StatesAre DEF ArmRecv, Put
  <2> QED
    BY <1>5, <2>2
<1>7. CASE ~u.conn[s].deferred
  <2>1. d = [u.conn[s] EXCEPT !.recvArmed = TRUE]
    BY <1>2, <1>7
  <2>2. PICK more : more = Append(u.recvs[s], Tag(u.conn[s].generation))
    OBVIOUS
  <2>3. more \in Seq(Nat)
    <3>1. u.recvs[s] \in Seq(Nat) /\ Tag(u.conn[s].generation) \in Nat
      BY <1>1, TagIs, StatesAre
    <3> QED
      BY <2>2, <3>1
  <2>4. PICK v : v = [w EXCEPT !.recvs[s] = more]
    OBVIOUS
  <2>5. ArmRecv(u, s) = [u EXCEPT !.conn[s].recvArmed = TRUE, !.recvs[s] = more]
    BY <1>7, <2>2 DEF ArmRecv
  <2>6. ArmRecv(u, s) = v
    BY <1>1, <1>4, <2>1, <2>4, <2>5, StatesAre DEF States, Put
  <2>7. v \in States /\ v.conn = w.conn /\ SameQueues(w, v) /\ SameTickets(w, v)
        /\ v.buffers = w.buffers
    BY <1>5, <2>3, <2>4, StatesAre DEF States, SameQueues, SameTickets
  <2> QED
    BY <1>5, <2>6, <2>7, NothingDoes
<1> QED
  BY <1>6, <1>7

LEMMA CloseConnectionDoes ==
  ASSUME NEW u, NEW A, NEW P, NEW F, NEW b, Fine(u, A, P, F, b), NEW s \in Slots
  PROVE  Fine(CloseConnection(u, s), A, P, F \ {s}, b)
<1>1. u \in States /\ u.conn[s] \in Connections
  BY FineIs, ConnIs
<1>2. CASE ~u.conn[s].inUse
  <2>1. CloseConnection(u, s) = u /\ CaredFor(u.conn[s])
    BY <1>2 DEF CloseConnection, CaredFor
  <2> QED
    BY <2>1 DEF Fine, Tidy
<1>3. CASE u.conn[s].inUse
  <2>1. PICK d : d = [u.conn[s] EXCEPT !.inUse = FALSE, !.recvArmed = FALSE, !.in = << >>]
    OBVIOUS
  <2>2. << >> \in Bytes
    BY DEF Bytes
  <2>3. d \in Connections /\ SamePlace(u.conn[s], d) /\ CaredFor(d)
    BY <1>1, <2>1, <2>2 DEF Connections, SamePlace, CaredFor
  <2>4. PICK w : w = Put(u, s, d)
    OBVIOUS
  <2>5. Fine(w, A, P, F \ {s}, b) /\ w \in States
    BY <2>3, <2>4, PutDoes
  <2>6. PICK v : v = [w EXCEPT !.closes = @ \cup {s}]
    OBVIOUS
  <2>7. CloseConnection(u, s) = v
    BY <1>1, <1>3, <2>1, <2>4, <2>6, StatesAre, ZenonT(30) DEF States, CloseConnection, Put
  <2>8. v \in States /\ v.conn = w.conn /\ SameQueues(w, v) /\ SameTickets(w, v)
        /\ v.buffers = w.buffers
    BY <2>5, <2>6, StatesAre DEF States, SameQueues, SameTickets
  <2> QED
    BY <2>5, <2>7, <2>8, NothingDoes
<1> QED
  BY <1>2, <1>3

\* What a connection holds changes.
LEMMA HoldsNow ==
  ASSUME NEW u, NEW A, NEW P, NEW F, NEW b, Fine(u, A, P, F, b), NEW s \in Slots,
         NEW in \in Bytes, NEW v, v = [u EXCEPT !.conn[s].in = in]
  PROVE  /\ Fine(v, A, P, F \cup {s}, b)
         /\ in = << >> \/ NextFrame(in) # "ready" => Fine(v, A, P, F \ {s}, b)
         /\ u.conn[s].sendInFlight \/ u.conn[s].deferred \/ u.conn[s].batched =>
              Fine(v, A, P, F, b)
<1>1. u \in States /\ u.conn[s] \in Connections
  BY FineIs, ConnIs
<1>2. PICK d : d = [u.conn[s] EXCEPT !.in = in]
  OBVIOUS
<1>3. d \in Connections /\ SamePlace(u.conn[s], d)
  BY <1>1, <1>2 DEF Connections, SamePlace
<1>4. v = Put(u, s, d)
  BY <1>1, <1>2, StatesAre DEF States, Put
<1>5. in = << >> => NextFrame(in) # "ready"
  BY DEF NextFrame
<1>6. NextFrame(in) # "ready" => CaredFor(d)
  BY <1>1, <1>2 DEF CaredFor, Connections
<1>7. u.conn[s].sendInFlight \/ u.conn[s].deferred \/ u.conn[s].batched => CaredFor(d)
  BY <1>1, <1>2 DEF CaredFor, Connections
<1>8. /\ Fine(v, A, P, F \cup {s}, b)
      /\ CaredFor(d) => Fine(v, A, P, F \ {s}, b)
      /\ CaredFor(d) => Fine(v, A, P, F, b)
  BY <1>3, <1>4, PutDoes
<1> QED
  BY <1>5, <1>6, <1>7, <1>8

LEMMA DropRestDoes ==
  ASSUME NEW u, NEW A, NEW P, NEW F, NEW b, Fine(u, A, P, F, b), NEW s \in Slots
  PROVE  Fine(DropRest(u, s), A, P, F \ {s}, b)
<1>1. << >> \in Bytes
  BY DEF Bytes
<1> QED
  BY <1>1, HoldsNow DEF DropRest

-----------------------------------------------------------------------------
(* Tickets *)

LEMMA FreeAre ==
  ASSUME NEW u \in States, NEW t \in FreeTickets(u)
  PROVE  t \in Tickets /\ ~u.ticket[t].busy
  BY DEF FreeTickets

LEMMA FreeTicketTyped == FreeTicket \in TicketStates /\ ~FreeTicket.busy
<1>1. NoSlot \in Links /\ << >> \in Asks \cup {<< >>}
  BY DEF Links
<1> HIDE DEF Asks
<1> QED
  BY <1>1 DEF FreeTicket, TicketStates

LEMMA AcquireDoes ==
  ASSUME NEW u, NEW A, NEW P, NEW F, NEW b, Fine(u, A, P, F, b), NEW t \in FreeTickets(u)
  PROVE  Fine(Acquire(u, t), A \cup {t}, P, F, b)
<1>1. u \in States /\ t \in Tickets /\ ~u.ticket[t].busy /\ u.ticket \in [Tickets -> TicketStates]
  BY FineIs, FreeAre, StatesAre
<1>2. PICK k : k = [u.ticket[t] EXCEPT !.busy = TRUE]
  OBVIOUS
<1>3. k \in TicketStates /\ k.busy /\ k.slot = u.ticket[t].slot
  BY <1>1, <1>2 DEF TicketStates
<1>4. PICK v : v = [u EXCEPT !.ticket[t] = k]
  OBVIOUS
<1>5. Acquire(u, t) = v
  BY <1>1, <1>2, <1>4 DEF States, Acquire
<1>6. v \in States /\ v.conn = u.conn /\ SameQueues(u, v) /\ v.buffers = u.buffers
      /\ v.ticket = [u.ticket EXCEPT ![t] = k] /\ v.sends = u.sends
  BY <1>1, <1>3, <1>4, StatesAre DEF States, SameQueues
<1>7. Tidy(v, F, b)
  BY <1>6, RestStep DEF Fine, Tidy
<1>8. Accounted(v, A \cup {t}, P)
  <2>1. \A x \in Tickets : v.ticket[x] = IF x = t THEN k ELSE u.ticket[x]
    BY <1>1, <1>6
  <2>2. Accounted(u, A, P)
    BY DEF Fine
  <2>3. t \notin A /\ t \notin P /\ t \notin u.sends
    BY <1>1, <2>2 DEF Accounted
  <2>4. {x \in Tickets : v.ticket[x].busy} = {x \in Tickets : u.ticket[x].busy} \cup {t}
    BY <1>1, <1>3, <2>1
  <2>5. \A x \in P \cup v.sends : v.ticket[x].slot \in Slots
    BY <1>6, <2>1, <2>2, <2>3 DEF Accounted
  <2> QED
    BY <1>6, <2>2, <2>3, <2>4, <2>5 DEF Accounted
<1> QED
  BY <1>5, <1>7, <1>8 DEF Fine

LEMMA ReleaseDoes ==
  ASSUME NEW u, NEW A, NEW P, NEW F, NEW b, Fine(u, A, P, F, b), NEW t \in A \cup P
  PROVE  Fine(ReleaseSendTicket(u, t), A \ {t}, P \ {t}, F, b)
<1>0. Accounted(u, A, P)
  BY DEF Fine
<1>1. u \in States /\ t \in Tickets /\ u.ticket \in [Tickets -> TicketStates]
  BY <1>0, FineIs, StatesAre DEF Accounted
<1>2. PICK k : k = FreeTicket
  OBVIOUS
<1>3. k \in TicketStates /\ ~k.busy
  BY <1>2, FreeTicketTyped
<1>4. PICK v : v = [u EXCEPT !.ticket[t] = k]
  OBVIOUS
<1>5. ReleaseSendTicket(u, t) = v
  BY <1>2, <1>4 DEF ReleaseSendTicket
<1>6. v \in States /\ v.conn = u.conn /\ SameQueues(u, v) /\ v.buffers = u.buffers
      /\ v.ticket = [u.ticket EXCEPT ![t] = k] /\ v.sends = u.sends
  BY <1>1, <1>3, <1>4, StatesAre DEF States, SameQueues
<1>7. Tidy(v, F, b)
  BY <1>6, RestStep DEF Fine, Tidy
<1>8. Accounted(v, A \ {t}, P \ {t})
  <2>1. \A x \in Tickets : v.ticket[x] = IF x = t THEN k ELSE u.ticket[x]
    BY <1>1, <1>6
  <2>2. {x \in Tickets : v.ticket[x].busy} = {x \in Tickets : u.ticket[x].busy} \ {t}
    BY <1>1, <1>3, <2>1
  <2>3. t \notin u.sends /\ u.sends \subseteq Tickets /\ P \subseteq Tickets
    BY <1>0, <1>1, StatesAre DEF Accounted
  <2>4. \A x \in (P \ {t}) \cup v.sends : v.ticket[x].slot \in Slots
    BY <1>0, <1>6, <2>1, <2>3 DEF Accounted
  <2> QED
    BY <1>0, <1>6, <2>2, <2>3, <2>4 DEF Accounted
<1> QED
  BY <1>5, <1>7, <1>8 DEF Fine

\* A response leaves on a ticket that was acquired for it, or on one that was free.
LEMMA RespondDoes ==
  ASSUME NEW u, NEW A, NEW P, NEW F, NEW b, Fine(u, A, P, F, b), NEW s \in Slots,
         NEW t, t \in A \/ t \in FreeTickets(u), NEW req \in Asks, NEW last \in BOOLEAN
  PROVE  Fine(Respond(u, s, t, req, last), A \ {t}, P, F \ {s}, b)
<1>0. Accounted(u, A, P)
  BY DEF Fine
<1>1. u \in States /\ u.conn[s] \in Connections /\ u.conn[s].generation \in Nat
      /\ u.ticket \in [Tickets -> TicketStates]
  BY FineIs, ConnIs, StatesAre
<1>2. t \in Tickets /\ t \notin P /\ t \notin u.sends
  BY <1>0, <1>1, FreeAre DEF Accounted
<1>3. PICK d : d = [u.conn[s] EXCEPT !.sendInFlight = TRUE]
  OBVIOUS
<1>4. d \in Connections /\ SamePlace(u.conn[s], d) /\ CaredFor(d)
  BY <1>1, <1>3 DEF Connections, SamePlace, CaredFor
<1>5. PICK w : w = Put(u, s, d)
  OBVIOUS
<1>6. Fine(w, A, P, F \ {s}, b) /\ w \in States
  BY <1>4, <1>5, PutDoes
<1>7. PICK k : k = [busy |-> TRUE, slot |-> s, req |-> req,
                    generation |-> u.conn[s].generation, closeWhenWritten |-> last]
  OBVIOUS
<1>8. k \in TicketStates /\ k.busy /\ k.slot \in Slots
  BY <1>1, <1>7 DEF TicketStates, Links
<1>9. PICK v : v = [w EXCEPT !.ticket[t] = k, !.sends = @ \cup {t}]
  OBVIOUS
<1>10. Respond(u, s, t, req, last) = v
  BY <1>1, <1>3, <1>5, <1>7, <1>9, StatesAre DEF States, Respond, Put
<1>11. v \in States /\ v.conn = w.conn /\ SameQueues(w, v) /\ v.buffers = w.buffers
       /\ v.ticket = [w.ticket EXCEPT ![t] = k] /\ v.sends = w.sends \cup {t}
  BY <1>2, <1>6, <1>8, <1>9, StatesAre DEF States, SameQueues
<1>12. Tidy(v, F \ {s}, b)
  BY <1>6, <1>11, RestStep DEF Fine, Tidy
<1>13. Accounted(v, A \ {t}, P)
  <2>1. \A x \in Tickets : v.ticket[x] = IF x = t THEN k ELSE w.ticket[x]
    BY <1>6, <1>11, StatesAre
  <2>2. {x \in Tickets : v.ticket[x].busy} = {x \in Tickets : w.ticket[x].busy} \cup {t}
    BY <1>2, <1>8, <2>1
  <2>3. Accounted(w, A, P) /\ w.sends \subseteq Tickets
    BY <1>6, StatesAre DEF Fine
  <2>4. w.sends = u.sends
    BY <1>1, <1>5 DEF Put, States
  <2>5. ASSUME NEW x \in P \cup v.sends PROVE v.ticket[x].slot \in Slots
    <3>1. x = t \/ x \in P \cup w.sends
      BY <1>11
    <3>2. x \in Tickets /\ (x # t => w.ticket[x].slot \in Slots)
      BY <1>2, <2>3, <3>1 DEF Accounted
    <3> QED
      BY <1>8, <2>1, <3>2
  <2> QED
    BY <1>2, <1>11, <2>2, <2>3, <2>4, <2>5 DEF Accounted
<1> QED
  BY <1>10, <1>12, <1>13 DEF Fine

\* The rest of a response is sent.
LEMMA SendRest ==
  ASSUME NEW u, NEW A, NEW P, NEW F, NEW b, Fine(u, A, P, F, b), NEW t \in P,
         NEW v, v = [u EXCEPT !.sends = @ \cup {t}]
  PROVE  Fine(v, A, P \ {t}, F, b)
<1>0. Accounted(u, A, P)
  BY DEF Fine
<1>1. u \in States /\ t \in Tickets /\ t \notin A
  BY <1>0, FineIs DEF Accounted
<1>2. v \in States /\ v.conn = u.conn /\ SameQueues(u, v) /\ v.buffers = u.buffers
      /\ v.ticket = u.ticket /\ v.sends = u.sends \cup {t}
  BY <1>1, StatesAre DEF States, SameQueues
<1>3. Tidy(v, F, b)
  BY <1>2, RestStep DEF Fine, Tidy
<1>4. Accounted(v, A, P \ {t})
  BY <1>0, <1>1, <1>2 DEF Accounted
<1> QED
  BY <1>3, <1>4 DEF Fine

LEMMA SendStatusDoes ==
  ASSUME NEW u, NEW A, NEW P, NEW F, NEW b, Fine(u, A, P, F, b), NEW s \in Slots
  PROVE  Fine(SendStatusAndClose(u, s), A, P, F \ {s}, b)
<1>1. CASE FreeTickets(u) = {}
  BY <1>1, CloseConnectionDoes DEF SendStatusAndClose
<1>2. CASE FreeTickets(u) # {}
  <2>1. PICK t \in FreeTickets(u) : t = CHOOSE x \in FreeTickets(u) : TRUE
    BY <1>2
  <2>2. PICK req \in Asks : req = RequestOf(s, u.conn[s].generation, StatusOnly)
    BY FineIs, ConnIs DEF RequestOf, StatusOnly, Asks
  <2>3. SendStatusAndClose(u, s) = Respond(u, s, t, req, TRUE)
    BY <1>2, <2>1, <2>2 DEF SendStatusAndClose
  <2>4. t \notin A
    BY FineIs, FreeAre DEF Fine, Accounted
  <2>5. Fine(Respond(u, s, t, req, TRUE), A \ {t}, P, F \ {s}, b)
    BY RespondDoes
  <2>6. A \ {t} = A
    BY <2>4
  <2> QED
    BY <2>3, <2>5, <2>6
<1> QED
  BY <1>1, <1>2

-----------------------------------------------------------------------------
(* The queue for a ticket *)

Waiting(u)  == {s \in Slots : u.conn[s].waitingForTicket}
WaitsFor(u) == [s \in Slots |-> u.conn[s].nextWaiting]

SameRearms(u, v) ==
  /\ v.rearmHead = u.rearmHead /\ v.rearmTail = u.rearmTail
  /\ \A s \in Slots : /\ v.conn[s].waitingForRearm = u.conn[s].waitingForRearm
                      /\ v.conn[s].nextRearm = u.conn[s].nextRearm

LEMMA RearmsKept ==
  ASSUME NEW u, NEW v, SameRearms(u, v), RearmQueueIntact(u)
  PROVE  RearmQueueIntact(v)
<1>1. {s \in Slots : v.conn[s].waitingForRearm} = {s \in Slots : u.conn[s].waitingForRearm}
  BY DEF SameRearms
<1>2. [s \in Slots |-> v.conn[s].nextRearm] = [s \in Slots |-> u.conn[s].nextRearm]
  BY DEF SameRearms
<1> QED
  BY <1>1, <1>2, Zenon DEF SameRearms, RearmQueueIntact

LEMMA QueueForTicketDoes ==
  ASSUME NEW u, NEW A, NEW P, NEW F, NEW b, Fine(u, A, P, F, b), NEW s \in Slots
  PROVE  Fine(QueueForTicket(u, s), A, P, F \ {s}, b)
<1>1. /\ u \in States /\ u.conn \in [Slots -> Connections] /\ Tidy(u, F, b)
      /\ TicketQueueIntact(u) /\ RearmQueueIntact(u) /\ Accounted(u, A, P)
      /\ u.conn[s] \in Connections
  BY FineIs, StatesAre DEF Fine, Tidy
<1>2. CASE u.conn[s].waitingForTicket
  <2>1. QueueForTicket(u, s) = u /\ CaredFor(u.conn[s])
    BY <1>2 DEF QueueForTicket, CaredFor
  <2> QED
    BY <2>1 DEF Fine, Tidy
<1>3. CASE ~u.conn[s].waitingForTicket
  <2> DEFINE W == Waiting(u)
             tail == u.waitingTail
  <2>1. QueueIntact(u.waitingHead, tail, W, WaitsFor(u)) /\ W \in SUBSET Slots /\ s \notin W
    BY <1>1, <1>3 DEF TicketQueueIntact, Waiting, WaitsFor
  <2>2. tail \in W \cup {NoSlot} /\ tail # s
    BY <2>1, QueueEnds, SlotsAre
  <2>3. PICK d : d = [u.conn[s] EXCEPT !.waitingForTicket = TRUE, !.nextWaiting = NoSlot]
    OBVIOUS
  <2>4. /\ d \in Connections /\ CaredFor(d) /\ d.waitingForTicket /\ d.nextWaiting = NoSlot
        /\ d.waitingForRearm = u.conn[s].waitingForRearm /\ d.nextRearm = u.conn[s].nextRearm
    BY <1>1, <2>3 DEF Connections, CaredFor, Links
  <2>5. PICK v : v = QueueForTicket(u, s)
    OBVIOUS
  <2>6. PICK e : e = [u.conn[tail] EXCEPT !.nextWaiting = s]
    OBVIOUS
  <2>7. tail # NoSlot =>
          /\ e \in Connections /\ (CaredFor(u.conn[tail]) => CaredFor(e)) /\ e.nextWaiting = s
          /\ e.waitingForTicket = u.conn[tail].waitingForTicket
          /\ e.waitingForRearm = u.conn[tail].waitingForRearm
          /\ e.nextRearm = u.conn[tail].nextRearm
    <3> SUFFICES ASSUME tail # NoSlot PROVE
          /\ e \in Connections /\ (CaredFor(u.conn[tail]) => CaredFor(e)) /\ e.nextWaiting = s
          /\ e.waitingForTicket = u.conn[tail].waitingForTicket
          /\ e.waitingForRearm = u.conn[tail].waitingForRearm
          /\ e.nextRearm = u.conn[tail].nextRearm
      OBVIOUS
    <3>1. u.conn[tail] \in Connections
      BY <1>1, <2>1, <2>2
    <3> HIDE DEF tail
    <3> QED
      BY <3>1, <2>6 DEF Connections, CaredFor, Links
  <2> DEFINE conn == IF tail = NoSlot THEN [u.conn EXCEPT ![s] = d]
                     ELSE [[u.conn EXCEPT ![s] = d] EXCEPT ![tail] = e]
  <2>8. v = [u EXCEPT !.conn = conn, !.waitingTail = s,
                      !.waitingHead = IF tail = NoSlot THEN s ELSE @]
    <3>1. CASE tail = NoSlot
      <4>1. v = [u EXCEPT !.conn[s].waitingForTicket = TRUE, !.conn[s].nextWaiting = NoSlot,
                          !.waitingTail = s, !.waitingHead = s]
        BY <1>3, <2>5, <3>1 DEF QueueForTicket
      <4> QED
        BY <4>1, <1>1, <2>3, <3>1, ZenonT(30) DEF States
    <3>2. CASE tail # NoSlot
      <4>1. v = [u EXCEPT !.conn[s].waitingForTicket = TRUE, !.conn[s].nextWaiting = NoSlot,
                          !.waitingTail = s, !.conn[tail].nextWaiting = s]
        BY <1>3, <2>5, <3>2 DEF QueueForTicket
      <4>2. PICK w : w = [u EXCEPT !.conn[s] = d, !.waitingTail = s]
        OBVIOUS
      <4>3. v = [w EXCEPT !.conn[tail].nextWaiting = s]
        BY <4>1, <4>2, <1>1, <2>3, ZenonT(30) DEF States
      <4>4. w.conn = [u.conn EXCEPT ![s] = d] /\ w.conn[tail] = u.conn[tail]
            /\ w.conn \in [Slots -> Connections] /\ w \in States
        BY <4>2, <1>1, <2>1, <2>2, <2>4, <3>2 DEF States, Links
      <4>5. v = [w EXCEPT !.conn = [w.conn EXCEPT ![tail] = e]]
        BY <4>3, <4>4, <2>6 DEF States
      <4> QED
        BY <4>2, <4>4, <4>5, <1>1, <3>2 DEF States
    <3> QED
      BY <3>1, <3>2
  <2>9. conn \in [Slots -> Connections]
    BY <1>1, <2>4, <2>7
  <2>10. \A r \in Slots :
           conn[r] = IF r = s THEN d ELSE IF r = tail THEN e ELSE u.conn[r]
    BY <1>1, <2>2, SlotsAre
  <2> HIDE DEF conn, tail
  <2>11. /\ v \in States /\ v.conn = conn /\ v.waitingTail = s
         /\ v.waitingHead = (IF tail = NoSlot THEN s ELSE u.waitingHead)
         /\ v.rearmHead = u.rearmHead /\ v.rearmTail = u.rearmTail
         /\ v.buffers = u.buffers /\ v.ticket = u.ticket /\ v.sends = u.sends
    BY <1>1, <2>8, <2>9, StatesAre DEF States, Links
  <2>12. SameRearms(u, v)
    BY <2>4, <2>7, <2>10, <2>11, SlotsAre DEF SameRearms
  <2>13. TicketQueueIntact(v)
    <3>1. Waiting(v) = W \cup {s}
      <4>1. tail # NoSlot => u.conn[tail].waitingForTicket
        BY <2>2 DEF Waiting
      <4> QED
        BY <4>1, <2>4, <2>7, <2>10, <2>11, SlotsAre DEF Waiting
    <3>2. /\ WaitsFor(v)[s] = NoSlot /\ (tail # NoSlot => WaitsFor(v)[tail] = s)
          /\ \A r \in W : r # tail => WaitsFor(v)[r] = WaitsFor(u)[r]
      <4>1. \A r \in Slots : WaitsFor(v)[r] = conn[r].nextWaiting /\ WaitsFor(u)[r] = u.conn[r].nextWaiting
        BY <2>11 DEF WaitsFor
      <4>2. tail # NoSlot => tail \in Slots
        BY <2>1, <2>2
      <4> QED
        BY <4>1, <4>2, <2>1, <2>2, <2>4, <2>7, <2>10
    <3> HIDE DEF W
    <3>3. QueueIntact(IF tail = NoSlot THEN s ELSE u.waitingHead, s, W \cup {s}, WaitsFor(v))
      BY <2>1, <3>2, Enqueue
    <3> QED
      BY <2>11, <3>1, <3>3, Zenon DEF TicketQueueIntact, Waiting, WaitsFor
  <2>14. \A r \in Slots : ~CaredFor(v.conn[r]) => r \in F \ {s}
    <3>1. \A r \in Slots : ~CaredFor(u.conn[r]) => r \in F
      BY <1>1 DEF Tidy
    <3> QED
      BY <3>1, <2>4, <2>7, <2>10, <2>11, SlotsAre
  <2>15. Tidy(v, F \ {s}, b)
    BY <1>1, <2>11, <2>12, <2>13, <2>14, RearmsKept DEF Tidy
  <2>16. Accounted(v, A, P)
    BY <1>1, <2>11, AccountKept DEF SameTickets
  <2> QED
    BY <2>5, <2>15, <2>16 DEF Fine
<1> QED
  BY <1>2, <1>3

LEMMA PopWaitingDoes ==
  ASSUME NEW u, NEW A, NEW P, NEW F, NEW b, Fine(u, A, P, F, b), u.waitingHead # NoSlot
  PROVE  /\ u.waitingHead \in Slots
         /\ Fine(PopWaiting(u), A, P, F \cup {u.waitingHead}, b)
         /\ ~u.conn[u.waitingHead].inUse => Fine(PopWaiting(u), A, P, F, b)
         /\ PopWaiting(u).conn[u.waitingHead].inUse = u.conn[u.waitingHead].inUse
<1>1. /\ u \in States /\ u.conn \in [Slots -> Connections] /\ Tidy(u, F, b)
      /\ TicketQueueIntact(u) /\ RearmQueueIntact(u) /\ Accounted(u, A, P)
  BY FineIs, StatesAre DEF Fine, Tidy
<1>2. PICK h : h = u.waitingHead
  OBVIOUS
<1> DEFINE W == Waiting(u)
           next == WaitsFor(u)
<1>3. QueueIntact(h, u.waitingTail, W, next) /\ W \in SUBSET Slots /\ h # NoSlot
  BY <1>1, <1>2 DEF TicketQueueIntact, Waiting, WaitsFor
<1>4. h \in Slots /\ next[h] = u.conn[h].nextWaiting /\ u.conn[h] \in Connections
  BY <1>1, <1>3, QueueEnds DEF WaitsFor
<1>5. PICK d : d = [u.conn[h] EXCEPT !.nextWaiting = NoSlot, !.waitingForTicket = FALSE]
  OBVIOUS
<1>6. /\ d \in Connections /\ (~u.conn[h].inUse => CaredFor(d)) /\ ~d.waitingForTicket
      /\ d.nextWaiting = NoSlot /\ d.inUse = u.conn[h].inUse
      /\ d.waitingForRearm = u.conn[h].waitingForRearm /\ d.nextRearm = u.conn[h].nextRearm
  BY <1>4, <1>5 DEF Connections, CaredFor, Links
<1>7. PICK v : v = PopWaiting(u)
  OBVIOUS
<1>8. PICK tail : tail = IF u.conn[h].nextWaiting = NoSlot THEN NoSlot ELSE u.waitingTail
  OBVIOUS
<1>9. v = [u EXCEPT !.conn[h] = d, !.waitingHead = u.conn[h].nextWaiting,
                    !.waitingTail = tail]
  <2>1. v = [u EXCEPT !.waitingHead = u.conn[h].nextWaiting, !.waitingTail = tail,
                      !.conn[h].nextWaiting = NoSlot, !.conn[h].waitingForTicket = FALSE]
    BY <1>1, <1>2, <1>7, <1>8 DEF PopWaiting, States
  <2> QED
    BY <2>1, <1>1, <1>4, <1>5, ZenonT(30) DEF States
<1>10. u.conn[h].nextWaiting \in Links /\ tail \in Links
  BY <1>1, <1>4, <1>8, StatesAre DEF Connections, Links
<1>11. /\ v \in States /\ v.conn = [u.conn EXCEPT ![h] = d]
       /\ v.waitingTail = tail /\ v.waitingHead = u.conn[h].nextWaiting
       /\ v.rearmHead = u.rearmHead /\ v.rearmTail = u.rearmTail
       /\ v.buffers = u.buffers /\ v.ticket = u.ticket /\ v.sends = u.sends
  BY <1>1, <1>4, <1>6, <1>9, <1>10, StatesAre DEF States
<1>12. \A r \in Slots : v.conn[r] = IF r = h THEN d ELSE u.conn[r]
  BY <1>1, <1>11
<1>13. SameRearms(u, v)
  BY <1>6, <1>11, <1>12 DEF SameRearms
<1>14. TicketQueueIntact(v)
  <2>1. Waiting(v) = W \ {h}
    BY <1>6, <1>12 DEF Waiting
  <2>2. \A r \in W \ {h} : WaitsFor(v)[r] = next[r]
    BY <1>12 DEF Waiting, WaitsFor
  <2> HIDE DEF W, next
  <2>3. QueueIntact(next[h], IF next[h] = NoSlot THEN NoSlot ELSE u.waitingTail, W \ {h},
                    WaitsFor(v))
    BY <1>3, <2>2, Dequeue
  <2> QED
    BY <1>4, <1>8, <1>11, <2>1, <2>3, Zenon DEF TicketQueueIntact, Waiting, WaitsFor
<1>15. \A r \in Slots : ~CaredFor(u.conn[r]) => r \in F
  BY <1>1 DEF Tidy
<1>16. /\ \A r \in Slots : ~CaredFor(v.conn[r]) => r \in F \cup {h}
       /\ ~u.conn[h].inUse => \A r \in Slots : ~CaredFor(v.conn[r]) => r \in F
  BY <1>6, <1>12, <1>15
<1>17. Tidy(v, F \cup {h}, b) /\ (~u.conn[h].inUse => Tidy(v, F, b))
  BY <1>1, <1>11, <1>13, <1>14, <1>16, RearmsKept DEF Tidy
<1>18. Accounted(v, A, P)
  BY <1>1, <1>11, AccountKept DEF SameTickets
<1> QED
  BY <1>2, <1>4, <1>6, <1>7, <1>12, <1>17, <1>18 DEF Fine

LEMMA PassWaitingDoes ==
  ASSUME NEW u, NEW A, NEW P, NEW F, NEW b, Fine(u, A, P, F, b)
  PROVE  Fine(PassWaiting(u), A, P, F, b)
  BY PopWaitingDoes DEF PassWaiting

\* What holds as connections that are gone are passed holds of the one that is taken.
LEMMA TakeNextSteps ==
  ASSUME NEW U, NEW u \in U, \A x \in U : PassWaiting(x) \in U
  PROVE  \E w \in U : TakeNextWaiting(u) =
           [u    |-> IF w.waitingHead = NoSlot THEN w ELSE PopWaiting(w),
            slot |-> w.waitingHead]
<1> DEFINE N == Cardinality(Slots)
           D == [n \in 0 .. N |-> U]
           G == [p \in (1 .. N) \X U |-> PassWaiting(p[2])]
           Is(f) == f = [n \in 0 .. N |-> IF n = 0 THEN u ELSE PassWaiting(f[n - 1])]
           passed == CHOOSE f : Is(f)
           w == passed[N]
<1>1. N \in Nat
  BY SlotsAre, FS_CardinalityType
<1> HIDE DEF N
<1>2. \E f : Is(f)
  <2>1. \A n \in 1 .. N : \A x \in D[n - 1] : G[<< n, x >>] \in D[n]
    BY <1>1
  <2>2. u \in D[0] /\ \A n \in 0 .. N : D[n] \subseteq U
    BY <1>1
  <2>3. \A n \in 1 .. N : \A x \in U : G[<< n, x >>] = PassWaiting(x)
    OBVIOUS
  <2> HIDE DEF D, G
  <2>4. Leads(N, U, D, G, u)
    BY <2>1, <2>2 DEF Leads
  <2>5. PICK f \in [0 .. N -> U] : Recurs(f, N, D, G, u)
    BY <1>1, <2>4, Recursion
  <2>6. ASSUME NEW n \in 1 .. N PROVE f[n] = PassWaiting(f[n - 1])
    <3>1. f[n - 1] \in U
      BY <1>1, <2>5
    <3> QED
      BY <2>3, <2>5, <3>1, Zenon DEF Recurs
  <2>7. f[0] = u
    BY <2>5 DEF Recurs
  <2>8. Is(f)
    BY <1>1, <2>5, <2>6, <2>7
  <2> QED
    BY <2>8
<1>3. Is(passed)
  BY <1>2
<1> HIDE DEF passed
<1>4. w \in U
  <2> DEFINE Good == {n \in 0 .. N : passed[n] \in U}
  <2>1. passed[0] = u /\ \A n \in 1 .. N : passed[n] = PassWaiting(passed[n - 1])
    BY <1>1, <1>3
  <2>2. 0 \in Good
    BY <1>1, <2>1
  <2>3. \A n \in 1 .. N : n - 1 \in Good => n \in Good
    BY <1>1, <2>1
  <2>4. \A n \in 0 .. N : n \in Good
    <3> HIDE DEF Good
    <3> QED
      BY <1>1, <2>2, <2>3, Upwards
  <2> QED
    BY <1>1, <2>4
<1>5. TakeNextWaiting(u) = [u    |-> IF w.waitingHead = NoSlot THEN w ELSE PopWaiting(w),
                            slot |-> w.waitingHead]
  BY DEF TakeNextWaiting, N, passed
<1> HIDE DEF w
<1> QED
  BY <1>4, <1>5

\* The connection that is taken off the queue is in hand.
LEMMA TakeNextDoes ==
  ASSUME NEW u, NEW A, NEW P, NEW F, NEW b, Fine(u, A, P, F, b),
         NEW v, v = TakeNextWaiting(u).u, NEW s, s = TakeNextWaiting(u).slot
  PROVE  /\ s \in Links
         /\ s = NoSlot => Fine(v, A, P, F, b)
         /\ s # NoSlot => Fine(v, A, P, F \cup {s}, b)
<1> DEFINE U == {x \in States : Fine(x, A, P, F, b)}
<1>1. u \in U
  BY FineIs
<1>2. \A x \in U : PassWaiting(x) \in U
  BY PassWaitingDoes, FineIs
<1>3. PICK w \in U : TakeNextWaiting(u) =
        [u    |-> IF w.waitingHead = NoSlot THEN w ELSE PopWaiting(w),
         slot |-> w.waitingHead]
  <2> HIDE DEF U
  <2> QED
    BY <1>1, <1>2, TakeNextSteps
<1>4. s = w.waitingHead /\ v = IF w.waitingHead = NoSlot THEN w ELSE PopWaiting(w)
  BY <1>3
<1> QED
  BY <1>3, <1>4, PopWaitingDoes DEF Links

-----------------------------------------------------------------------------
(* The queue for a buffer *)

Rearming(u)  == {s \in Slots : u.conn[s].waitingForRearm}
RearmsFor(u) == [s \in Slots |-> u.conn[s].nextRearm]

SameWaits(u, v) ==
  /\ v.waitingHead = u.waitingHead /\ v.waitingTail = u.waitingTail
  /\ \A s \in Slots : /\ v.conn[s].waitingForTicket = u.conn[s].waitingForTicket
                      /\ v.conn[s].nextWaiting = u.conn[s].nextWaiting

LEMMA WaitsKept ==
  ASSUME NEW u, NEW v, SameWaits(u, v), TicketQueueIntact(u)
  PROVE  TicketQueueIntact(v)
<1>1. {s \in Slots : v.conn[s].waitingForTicket} = {s \in Slots : u.conn[s].waitingForTicket}
  BY DEF SameWaits
<1>2. [s \in Slots |-> v.conn[s].nextWaiting] = [s \in Slots |-> u.conn[s].nextWaiting]
  BY DEF SameWaits
<1> QED
  BY <1>1, <1>2, Zenon DEF SameWaits, TicketQueueIntact

LEMMA QueueForRearmDoes ==
  ASSUME NEW u, NEW A, NEW P, NEW F, NEW b, Fine(u, A, P, F, b), NEW s \in Slots
  PROVE  Fine(QueueForRearm(u, s), A, P, F, b)
<1>1. /\ u \in States /\ u.conn \in [Slots -> Connections] /\ Tidy(u, F, b)
      /\ RearmQueueIntact(u) /\ TicketQueueIntact(u) /\ Accounted(u, A, P)
      /\ u.conn[s] \in Connections
  BY FineIs, StatesAre DEF Fine, Tidy
<1>2. CASE u.conn[s].waitingForRearm
  <2>1. QueueForRearm(u, s) = u
    BY <1>2 DEF QueueForRearm
  <2> QED
    BY <2>1 DEF Fine, Tidy
<1>3. CASE ~u.conn[s].waitingForRearm
  <2> DEFINE W == Rearming(u)
             tail == u.rearmTail
  <2>1. QueueIntact(u.rearmHead, tail, W, RearmsFor(u)) /\ W \in SUBSET Slots /\ s \notin W
    BY <1>1, <1>3 DEF RearmQueueIntact, Rearming, RearmsFor
  <2>2. tail \in W \cup {NoSlot} /\ tail # s
    BY <2>1, QueueEnds, SlotsAre, SMTT(30)
  <2>3. PICK d : d = [u.conn[s] EXCEPT !.waitingForRearm = TRUE, !.nextRearm = NoSlot]
    OBVIOUS
  <2>4. /\ d \in Connections /\ (CaredFor(u.conn[s]) => CaredFor(d))
        /\ d.waitingForRearm /\ d.nextRearm = NoSlot
        /\ d.waitingForTicket = u.conn[s].waitingForTicket /\ d.nextWaiting = u.conn[s].nextWaiting
    BY <1>1, <2>3 DEF Connections, CaredFor, Links
  <2>5. PICK v : v = QueueForRearm(u, s)
    OBVIOUS
  <2>6. PICK e : e = [u.conn[tail] EXCEPT !.nextRearm = s]
    OBVIOUS
  <2>7. tail # NoSlot =>
          /\ e \in Connections /\ (CaredFor(u.conn[tail]) => CaredFor(e)) /\ e.nextRearm = s
          /\ e.waitingForRearm = u.conn[tail].waitingForRearm
          /\ e.waitingForTicket = u.conn[tail].waitingForTicket
          /\ e.nextWaiting = u.conn[tail].nextWaiting
    <3> SUFFICES ASSUME tail # NoSlot PROVE
          /\ e \in Connections /\ (CaredFor(u.conn[tail]) => CaredFor(e)) /\ e.nextRearm = s
          /\ e.waitingForRearm = u.conn[tail].waitingForRearm
          /\ e.waitingForTicket = u.conn[tail].waitingForTicket
          /\ e.nextWaiting = u.conn[tail].nextWaiting
      OBVIOUS
    <3>1. u.conn[tail] \in Connections
      BY <1>1, <2>1, <2>2
    <3> HIDE DEF tail
    <3> QED
      BY <3>1, <2>6 DEF Connections, CaredFor, Links
  <2> DEFINE conn == IF tail = NoSlot THEN [u.conn EXCEPT ![s] = d]
                     ELSE [[u.conn EXCEPT ![s] = d] EXCEPT ![tail] = e]
  <2>8. v = [u EXCEPT !.conn = conn, !.rearmTail = s,
                      !.rearmHead = IF tail = NoSlot THEN s ELSE @]
    <3>1. CASE tail = NoSlot
      <4>1. v = [u EXCEPT !.conn[s].waitingForRearm = TRUE, !.conn[s].nextRearm = NoSlot,
                          !.rearmTail = s, !.rearmHead = s]
        BY <1>3, <2>5, <3>1 DEF QueueForRearm
      <4> QED
        BY <4>1, <1>1, <2>3, <3>1, ZenonT(30) DEF States
    <3>2. CASE tail # NoSlot
      <4>1. v = [u EXCEPT !.conn[s].waitingForRearm = TRUE, !.conn[s].nextRearm = NoSlot,
                          !.rearmTail = s, !.conn[tail].nextRearm = s]
        BY <1>3, <2>5, <3>2 DEF QueueForRearm
      <4>2. PICK w : w = [u EXCEPT !.conn[s] = d, !.rearmTail = s]
        OBVIOUS
      <4>3. v = [w EXCEPT !.conn[tail].nextRearm = s]
        BY <4>1, <4>2, <1>1, <2>3, ZenonT(30) DEF States
      <4>4. w.conn = [u.conn EXCEPT ![s] = d] /\ w.conn[tail] = u.conn[tail]
            /\ w.conn \in [Slots -> Connections] /\ w \in States
        BY <4>2, <1>1, <2>1, <2>2, <2>4, <3>2 DEF States, Links
      <4>5. v = [w EXCEPT !.conn = [w.conn EXCEPT ![tail] = e]]
        BY <4>3, <4>4, <2>6 DEF States
      <4> QED
        BY <4>2, <4>4, <4>5, <1>1, <3>2 DEF States
    <3> QED
      BY <3>1, <3>2
  <2>9. conn \in [Slots -> Connections]
    BY <1>1, <2>4, <2>7
  <2>10. \A r \in Slots :
           conn[r] = IF r = s THEN d ELSE IF r = tail THEN e ELSE u.conn[r]
    BY <1>1, <2>2, SlotsAre
  <2> HIDE DEF conn, tail
  <2>11. /\ v \in States /\ v.conn = conn /\ v.rearmTail = s
         /\ v.rearmHead = (IF tail = NoSlot THEN s ELSE u.rearmHead)
         /\ v.waitingHead = u.waitingHead /\ v.waitingTail = u.waitingTail
         /\ v.buffers = u.buffers /\ v.ticket = u.ticket /\ v.sends = u.sends
    BY <1>1, <2>8, <2>9, StatesAre DEF States, Links
  <2>12. SameWaits(u, v)
    BY <2>4, <2>7, <2>10, <2>11, SlotsAre DEF SameWaits
  <2>13. RearmQueueIntact(v)
    <3>1. Rearming(v) = W \cup {s}
      <4>1. tail # NoSlot => u.conn[tail].waitingForRearm
        BY <2>2 DEF Rearming
      <4> QED
        BY <4>1, <2>4, <2>7, <2>10, <2>11, SlotsAre DEF Rearming
    <3>2. /\ RearmsFor(v)[s] = NoSlot /\ (tail # NoSlot => RearmsFor(v)[tail] = s)
          /\ \A r \in W : r # tail => RearmsFor(v)[r] = RearmsFor(u)[r]
      <4>1. \A r \in Slots : RearmsFor(v)[r] = conn[r].nextRearm /\ RearmsFor(u)[r] = u.conn[r].nextRearm
        BY <2>11 DEF RearmsFor
      <4>2. tail # NoSlot => tail \in Slots
        BY <2>1, <2>2
      <4> QED
        BY <4>1, <4>2, <2>1, <2>2, <2>4, <2>7, <2>10
    <3> HIDE DEF W
    <3>3. QueueIntact(IF tail = NoSlot THEN s ELSE u.rearmHead, s, W \cup {s}, RearmsFor(v))
      BY <2>1, <3>2, Enqueue
    <3> QED
      BY <2>11, <3>1, <3>3, Zenon DEF RearmQueueIntact, Rearming, RearmsFor
  <2>14. \A r \in Slots : ~CaredFor(v.conn[r]) => r \in F
    <3>1. \A r \in Slots : ~CaredFor(u.conn[r]) => r \in F
      BY <1>1 DEF Tidy
    <3> QED
      BY <3>1, <2>4, <2>7, <2>10, <2>11, SlotsAre
  <2>15. Tidy(v, F, b)
    BY <1>1, <2>11, <2>12, <2>13, <2>14, WaitsKept DEF Tidy
  <2>16. Accounted(v, A, P)
    BY <1>1, <2>11, AccountKept DEF SameTickets
  <2> QED
    BY <2>5, <2>15, <2>16 DEF Fine
<1> QED
  BY <1>2, <1>3

LEMMA PopRearmDoes ==
  ASSUME NEW u, NEW A, NEW P, NEW F, NEW b, Fine(u, A, P, F, b), u.rearmHead # NoSlot
  PROVE  /\ u.rearmHead \in Slots
         /\ Fine(PopRearm(u), A, P, F, b)
<1>1. /\ u \in States /\ u.conn \in [Slots -> Connections] /\ Tidy(u, F, b)
      /\ RearmQueueIntact(u) /\ TicketQueueIntact(u) /\ Accounted(u, A, P)
  BY FineIs, StatesAre DEF Fine, Tidy
<1>2. PICK h : h = u.rearmHead
  OBVIOUS
<1> DEFINE W == Rearming(u)
           next == RearmsFor(u)
<1>3. QueueIntact(h, u.rearmTail, W, next) /\ W \in SUBSET Slots /\ h # NoSlot
  BY <1>1, <1>2 DEF RearmQueueIntact, Rearming, RearmsFor
<1>4. h \in Slots /\ next[h] = u.conn[h].nextRearm /\ u.conn[h] \in Connections
  BY <1>1, <1>3, QueueEnds DEF RearmsFor
<1>5. PICK d : d = [u.conn[h] EXCEPT !.nextRearm = NoSlot, !.waitingForRearm = FALSE]
  OBVIOUS
<1>6. /\ d \in Connections /\ (CaredFor(u.conn[h]) => CaredFor(d)) /\ ~d.waitingForRearm
      /\ d.nextRearm = NoSlot
      /\ d.waitingForTicket = u.conn[h].waitingForTicket /\ d.nextWaiting = u.conn[h].nextWaiting
  BY <1>4, <1>5 DEF Connections, CaredFor, Links
<1>7. PICK v : v = PopRearm(u)
  OBVIOUS
<1>8. PICK tail : tail = IF u.conn[h].nextRearm = NoSlot THEN NoSlot ELSE u.rearmTail
  OBVIOUS
<1>9. v = [u EXCEPT !.conn[h] = d, !.rearmHead = u.conn[h].nextRearm,
                    !.rearmTail = tail]
  <2>1. v = [u EXCEPT !.rearmHead = u.conn[h].nextRearm, !.rearmTail = tail,
                      !.conn[h].nextRearm = NoSlot, !.conn[h].waitingForRearm = FALSE]
    BY <1>1, <1>2, <1>7, <1>8 DEF PopRearm, States
  <2> QED
    BY <2>1, <1>1, <1>4, <1>5 DEF States
<1>10. u.conn[h].nextRearm \in Links /\ tail \in Links
  BY <1>1, <1>4, <1>8, StatesAre DEF Connections, Links
<1>11. /\ v \in States /\ v.conn = [u.conn EXCEPT ![h] = d]
       /\ v.rearmTail = tail /\ v.rearmHead = u.conn[h].nextRearm
       /\ v.waitingHead = u.waitingHead /\ v.waitingTail = u.waitingTail
       /\ v.buffers = u.buffers /\ v.ticket = u.ticket /\ v.sends = u.sends
  BY <1>1, <1>4, <1>6, <1>9, <1>10, StatesAre DEF States
<1>12. \A r \in Slots : v.conn[r] = IF r = h THEN d ELSE u.conn[r]
  BY <1>1, <1>11
<1>13. SameWaits(u, v)
  BY <1>6, <1>11, <1>12 DEF SameWaits
<1>14. RearmQueueIntact(v)
  <2>1. Rearming(v) = W \ {h}
    BY <1>6, <1>12 DEF Rearming
  <2>2. \A r \in W \ {h} : RearmsFor(v)[r] = next[r]
    BY <1>12 DEF Rearming, RearmsFor
  <2> HIDE DEF W, next
  <2>3. QueueIntact(next[h], IF next[h] = NoSlot THEN NoSlot ELSE u.rearmTail, W \ {h},
                    RearmsFor(v))
    BY <1>3, <2>2, Dequeue
  <2> QED
    BY <1>4, <1>8, <1>11, <2>1, <2>3, Zenon DEF RearmQueueIntact, Rearming, RearmsFor
<1>15. \A r \in Slots : ~CaredFor(u.conn[r]) => r \in F
  BY <1>1 DEF Tidy
<1>16. \A r \in Slots : ~CaredFor(v.conn[r]) => r \in F
  BY <1>6, <1>12, <1>15
<1>17. Tidy(v, F, b)
  BY <1>1, <1>11, <1>13, <1>14, <1>16, WaitsKept DEF Tidy
<1>18. Accounted(v, A, P)
  BY <1>1, <1>11, AccountKept DEF SameTickets
<1> QED
  BY <1>2, <1>4, <1>7, <1>17, <1>18 DEF Fine

LEMMA PassRearmDoes ==
  ASSUME NEW u, NEW A, NEW P, NEW F, NEW b, Fine(u, A, P, F, b)
  PROVE  Fine(PassRearm(u), A, P, F, b)
  BY PopRearmDoes DEF PassRearm

\* What holds as connections that need no receive are passed holds of the next.
LEMMA RearmOneSteps ==
  ASSUME NEW U, NEW u \in U, \A x \in U : PassRearm(x) \in U
  PROVE  \E w \in U : RearmOneWaiting(u) = IF w.rearmHead = NoSlot THEN w
                                          ELSE ArmRecv(PopRearm(w), w.rearmHead)
<1> DEFINE N == Cardinality(Slots)
           D == [n \in 0 .. N |-> U]
           G == [p \in (1 .. N) \X U |-> PassRearm(p[2])]
           Is(f) == f = [n \in 0 .. N |-> IF n = 0 THEN u ELSE PassRearm(f[n - 1])]
           passed == CHOOSE f : Is(f)
           w == passed[N]
<1>1. N \in Nat
  BY SlotsAre, FS_CardinalityType
<1> HIDE DEF N
<1>2. \E f : Is(f)
  <2>1. \A n \in 1 .. N : \A x \in D[n - 1] : G[<< n, x >>] \in D[n]
    BY <1>1
  <2>2. u \in D[0] /\ \A n \in 0 .. N : D[n] \subseteq U
    BY <1>1
  <2>3. \A n \in 1 .. N : \A x \in U : G[<< n, x >>] = PassRearm(x)
    OBVIOUS
  <2> HIDE DEF D, G
  <2>4. Leads(N, U, D, G, u)
    BY <2>1, <2>2 DEF Leads
  <2>5. PICK f \in [0 .. N -> U] : Recurs(f, N, D, G, u)
    BY <1>1, <2>4, Recursion
  <2>6. ASSUME NEW n \in 1 .. N PROVE f[n] = PassRearm(f[n - 1])
    <3>1. f[n - 1] \in U
      BY <1>1, <2>5
    <3> QED
      BY <2>3, <2>5, <3>1, Zenon DEF Recurs
  <2>7. f[0] = u
    BY <2>5 DEF Recurs
  <2>8. Is(f)
    BY <1>1, <2>5, <2>6, <2>7
  <2> QED
    BY <2>8
<1>3. Is(passed)
  BY <1>2
<1> HIDE DEF passed
<1>4. w \in U
  <2> DEFINE Good == {n \in 0 .. N : passed[n] \in U}
  <2>1. passed[0] = u /\ \A n \in 1 .. N : passed[n] = PassRearm(passed[n - 1])
    BY <1>1, <1>3
  <2>2. 0 \in Good
    BY <1>1, <2>1
  <2>3. \A n \in 1 .. N : n - 1 \in Good => n \in Good
    BY <1>1, <2>1
  <2>4. \A n \in 0 .. N : n \in Good
    <3> HIDE DEF Good
    <3> QED
      BY <1>1, <2>2, <2>3, Upwards
  <2> QED
    BY <1>1, <2>4
<1>5. RearmOneWaiting(u) = IF w.rearmHead = NoSlot THEN w
                           ELSE ArmRecv(PopRearm(w), w.rearmHead)
  BY DEF RearmOneWaiting, N, passed
<1> HIDE DEF w
<1> QED
  BY <1>4, <1>5

LEMMA RearmOneDoes ==
  ASSUME NEW u, NEW A, NEW P, NEW F, NEW b, Fine(u, A, P, F, b)
  PROVE  Fine(RearmOneWaiting(u), A, P, F, b)
<1> DEFINE U == {x \in States : Fine(x, A, P, F, b)}
<1>1. u \in U
  BY FineIs
<1>2. \A x \in U : PassRearm(x) \in U
  BY PassRearmDoes, FineIs
<1>3. PICK w \in U : RearmOneWaiting(u) = IF w.rearmHead = NoSlot THEN w
                                          ELSE ArmRecv(PopRearm(w), w.rearmHead)
  <2> HIDE DEF U
  <2> QED
    BY <1>1, <1>2, RearmOneSteps
<1> QED
  BY <1>3, PopRearmDoes, ArmRecvDoes

\* A buffer is back with the kernel.
LEMMA RecycleDoes ==
  ASSUME NEW u, NEW A, NEW P, NEW F, NEW b, Fine(u, A, P, F, b)
  PROVE  Fine(RecycleRecvBuffer(u), A, P, F, b + 1)
<1>1. u \in States /\ Tidy(u, F, b) /\ Accounted(u, A, P) /\ u.buffers = b
  BY FineIs DEF Fine, Tidy
<1>0. PICK n \in Nat : n = u.buffers + 1
  BY <1>1, StatesAre
<1>2. PICK v : v = [u EXCEPT !.buffers = n]
  OBVIOUS
<1>3. /\ v \in States /\ v.conn = u.conn /\ SameQueues(u, v) /\ v.buffers = b + 1
      /\ SameTickets(u, v)
  BY <1>0, <1>1, <1>2, StatesAre DEF States, SameQueues, SameTickets
<1>4. Fine(v, A, P, F, b + 1)
  BY <1>1, <1>3, RestStep, AccountKept DEF Fine
<1>5. RecycleRecvBuffer(u) = RearmOneWaiting(v)
  BY <1>0, <1>1, <1>2 DEF RecycleRecvBuffer, States
<1> QED
  BY <1>4, <1>5, RearmOneDoes

-----------------------------------------------------------------------------
(* Requests *)

LEMMA BytesAre ==
  ASSUME NEW buf \in Bytes
  PROVE  /\ NextFrame(buf) = "ready" => buf # << >>
         /\ buf # << >> => Head(buf).req \in Asks
         /\ KeepAlive(buf) \in BOOLEAN
         /\ KeepTail(buf, TotalLength(buf)) \in Bytes
<1>1. NextFrame(buf) = "ready" => buf # << >>
  BY DEF NextFrame
<1>2. buf # << >> => Head(buf).req \in Asks
  <2>1. buf # << >> => Head(buf) \in Units
    BY DEF Bytes
  <2> QED
    BY <2>1 DEF Units
<1>3. KeepAlive(buf) \in BOOLEAN
  BY DEF KeepAlive
<1>4. KeepTail(buf, TotalLength(buf)) \in Bytes
  <2>1. API_MAX_REQUEST_SIZE \in Nat
    BY RingAssumption DEF RingAssumption
  <2>2. PICK n \in Nat : n = TotalLength(buf)
    BY <2>1 DEF TotalLength, Size
  <2>3. SubSeq(buf, n + 1, Len(buf)) \in Bytes
    <3>1. \A i \in n + 1 .. Len(buf) : buf[i] \in Units
      BY DEF Bytes
    <3>2. SubSeq(buf, n + 1, Len(buf)) \in Seq(Units)
      BY <3>1, SubSeqProperties DEF Bytes
    <3> QED
      BY <3>2 DEF Bytes
  <2> QED
    BY <2>2, <2>3 DEF KeepTail
<1> QED
  BY <1>1, <1>2, <1>3, <1>4

LEMMA FinishDoes ==
  ASSUME NEW u, NEW A, NEW P, NEW F, NEW b, Fine(u, A, P, F, b), NEW s \in Slots,
         NEW t \in A, NEW buf \in Bytes, buf # << >>, NEW outcome
  PROVE  Fine(Finish(u, s, t, buf, outcome), A \ {t}, P, F \ {s}, b)
<1>1. PICK tail \in Bytes : tail = KeepTail(buf, TotalLength(buf))
  BY BytesAre
<1>2. PICK v : v = [u EXCEPT !.conn[s].in = tail]
  OBVIOUS
<1>3. Fine(v, A, P, F \cup {s}, b)
  BY <1>2, HoldsNow
<1>4. P \ {t} = P
  BY DEF Fine, Accounted
<1>5. Head(buf).req \in Asks /\ KeepAlive(buf) \in BOOLEAN
  BY BytesAre
<1>6. CASE outcome = "defer"
  <2>1. PICK x : x = ReleaseSendTicket(v, t)
    OBVIOUS
  <2>2. Fine(x, A \ {t}, P, F \cup {s}, b)
    BY <1>3, <1>4, <2>1, ReleaseDoes
  <2>3. x \in States /\ x.conn[s] \in Connections
    BY <2>2, FineIs, ConnIs
  <2>4. PICK keep \in BOOLEAN : keep = KeepAlive(buf)
    BY <1>5
  <2>5. PICK d : d = [x.conn[s] EXCEPT !.deferred = TRUE, !.deferredKeepAlive = keep]
    OBVIOUS
  <2>6. d \in Connections /\ SamePlace(x.conn[s], d) /\ CaredFor(d)
    BY <2>3, <2>5 DEF Connections, SamePlace, CaredFor
  <2>7. PICK w : w = Put(x, s, d)
    OBVIOUS
  <2>8. w \in States /\ Fine(w, A \ {t}, P, (F \cup {s}) \ {s}, b)
    BY <2>2, <2>6, <2>7, PutDoes
  <2>9. PICK token : token = [slot |-> s, req |-> Head(buf).req,
                              generation |-> Tag(u.conn[s].generation)]
    OBVIOUS
  <2>10. token \in Tokens
    BY <1>5, <2>9, FineIs, ConnIs, TagIs DEF Tokens
  <2>11. PICK y : y = [w EXCEPT !.tokens = @ \cup {token}]
    OBVIOUS
  <2>12. Finish(u, s, t, buf, outcome) =
           [x EXCEPT !.conn[s].deferred = TRUE, !.conn[s].deferredKeepAlive = keep,
                     !.tokens = @ \cup {token}]
    BY <1>1, <1>2, <1>6, <2>1, <2>4, <2>9 DEF Finish
  <2>13. Finish(u, s, t, buf, outcome) = y
    <3>1. w = [x EXCEPT !.conn[s].deferred = TRUE, !.conn[s].deferredKeepAlive = keep]
      BY <2>3, <2>5, <2>7, StatesAre DEF Put, States
    <3> QED
      BY <2>11, <2>12, <3>1
  <2>14. y \in States /\ y.conn = w.conn /\ SameQueues(w, y) /\ SameTickets(w, y)
         /\ y.buffers = w.buffers
    BY <2>8, <2>10, <2>11, StatesAre DEF States, SameQueues, SameTickets
  <2>15. Fine(y, A \ {t}, P, (F \cup {s}) \ {s}, b)
    BY <2>8, <2>14, NothingDoes
  <2>16. (F \cup {s}) \ {s} = F \ {s}
    OBVIOUS
  <2> QED
    BY <2>13, <2>15, <2>16
<1>7. CASE outcome = "fail"
  <2>1. PICK x : x = ReleaseSendTicket(u, t)
    OBVIOUS
  <2>2. Fine(x, A \ {t}, P, F, b)
    BY <1>4, <2>1, ReleaseDoes
  <2>3. PICK y : y = DropRest(x, s)
    OBVIOUS
  <2>4. Fine(y, A \ {t}, P, F \ {s}, b)
    BY <2>2, <2>3, DropRestDoes
  <2>5. Fine(SendStatusAndClose(y, s), A \ {t}, P, (F \ {s}) \ {s}, b)
    BY <2>4, SendStatusDoes
  <2>6. Finish(u, s, t, buf, outcome) = SendStatusAndClose(y, s)
    BY <1>7, <2>1, <2>3 DEF Finish
  <2>7. (F \ {s}) \ {s} = F \ {s}
    OBVIOUS
  <2> QED
    BY <2>5, <2>6, <2>7
<1>8. CASE outcome # "defer" /\ outcome # "fail"
  <2>1. PICK req \in Asks, last \in BOOLEAN : req = Head(buf).req /\ last = ~KeepAlive(buf)
    BY <1>5
  <2>2. Finish(u, s, t, buf, outcome) = Respond(v, s, t, req, last)
    BY <1>1, <1>2, <1>8, <2>1 DEF Finish
  <2>3. Fine(Respond(v, s, t, req, last), A \ {t}, P, (F \cup {s}) \ {s}, b)
    BY <1>3, RespondDoes
  <2>4. (F \cup {s}) \ {s} = F \ {s}
    OBVIOUS
  <2> QED
    BY <2>2, <2>3, <2>4
<1> QED
  BY <1>6, <1>7, <1>8

-----------------------------------------------------------------------------
(* A batch *)

Entries  == [slot : Slots, ticket : Tickets, buf : Bytes]
Servings == {q \in Seq(Entries) :
               /\ \A i \in DOMAIN q : q[i].buf # << >>
               /\ \A i, j \in DOMAIN q : q[i].ticket = q[j].ticket => i = j}

\* From the k-th on.
TicketsOf(q, k) == {q[i].ticket : i \in k .. Len(q)}
SlotsOf(q, k)   == {q[i].slot : i \in k .. Len(q)}

LEMMA OneMore ==
  ASSUME NEW q \in Servings, NEW e \in Entries, e.buf # << >>, e.ticket \notin TicketsOf(q, 1)
  PROVE  /\ Append(q, e) \in Servings
         /\ TicketsOf(Append(q, e), 1) = TicketsOf(q, 1) \cup {e.ticket}
         /\ SlotsOf(Append(q, e), 1) = SlotsOf(q, 1) \cup {e.slot}
<1> DEFINE r == Append(q, e)
           n == Len(q)
<1>0. q \in Seq(Entries) /\ (\A i \in DOMAIN q : q[i].buf # << >>)
      /\ \A i, j \in DOMAIN q : q[i].ticket = q[j].ticket => i = j
  BY DEF Servings
<1>1. /\ r \in Seq(Entries) /\ Len(r) = n + 1 /\ r[n + 1] = e /\ n \in Nat
      /\ \A i \in 1 .. n : r[i] = q[i]
  BY <1>0, AppendProperties, LenProperties
<1>2. DOMAIN q = 1 .. n /\ DOMAIN r = 1 .. n + 1
  BY <1>0, <1>1, LenProperties
<1> HIDE DEF r, n
<1>3. \A i \in 1 .. n : q[i].ticket # e.ticket
  BY DEF TicketsOf, n
<1>4. \A i \in DOMAIN r : r[i].buf # << >>
  BY <1>0, <1>1, <1>2
<1>5. \A i, j \in DOMAIN r : r[i].ticket = r[j].ticket => i = j
  BY <1>0, <1>1, <1>2, <1>3
<1>6. {r[i].ticket : i \in 1 .. n + 1} = {q[i].ticket : i \in 1 .. n} \cup {e.ticket}
  BY <1>1
<1>7. {r[i].slot : i \in 1 .. n + 1} = {q[i].slot : i \in 1 .. n} \cup {e.slot}
  BY <1>1
<1> QED
  BY <1>1, <1>4, <1>5, <1>6, <1>7 DEF Servings, TicketsOf, SlotsOf, r, n

\* What the first half of FlushBatch has come to: a ticket is taken for each request
\* that will be answered, and these requests are in hand.
Takings(P, F, b) ==
  {acc \in [u : States, serving : Servings] :
     Fine(acc.u, TicketsOf(acc.serving, 1), P, F \cup SlotsOf(acc.serving, 1), b)}

LEMMA TakeBatchedDoes ==
  ASSUME NEW P, NEW F, NEW b, NEW acc \in Takings(P, F, b), NEW e \in BatchEntries
  PROVE  TakeBatched(acc, e) \in Takings(P, F, b)
<1>0. PICK u \in States, q \in Servings : u = acc.u /\ q = acc.serving
  BY DEF Takings
<1>00. acc = [u |-> u, serving |-> q]
  BY <1>0 DEF Takings
<1>1. PICK A, G : A = TicketsOf(q, 1) /\ G = F \cup SlotsOf(q, 1)
  OBVIOUS
<1>2. Fine(u, A, P, G, b)
  BY <1>0, <1>1 DEF Takings
<1>3. PICK s \in Slots : s = e.slot
  BY DEF BatchEntries
<1>4. PICK c \in Connections : c = u.conn[s]
  BY ConnIs
<1>5. PICK d : d = [c EXCEPT !.batched = FALSE]
  OBVIOUS
<1>6. d \in Connections /\ SamePlace(c, d) /\ d.in = c.in
  BY <1>5 DEF Connections, SamePlace
<1>7. PICK v : v = Put(u, s, d)
  OBVIOUS
<1>8. v \in States /\ Fine(v, A, P, G \cup {s}, b)
  BY <1>2, <1>4, <1>6, <1>7, PutDoes
<1>9. v = [u EXCEPT !.conn[s].batched = FALSE]
  BY <1>4, <1>5, <1>7, StatesAre DEF Put, States
<1>10. FreeTickets(v) = FreeTickets(u)
  BY <1>7 DEF Put, States, FreeTickets
<1>11. ASSUME NEW x, Fine(x, A, P, (G \cup {s}) \ {s}, b)
       PROVE  [acc EXCEPT !.u = x] \in Takings(P, F, b)
  <2>1. Fine(x, A, P, G, b) /\ x \in States
    BY <1>11, FineMore, FineIs
  <2>2. [acc EXCEPT !.u = x] = [u |-> x, serving |-> q]
    BY <1>00
  <2> QED
    BY <1>1, <2>1, <2>2 DEF Takings
<1>12. CASE ~c.inUse \/ c.generation # e.generation
  BY <1>0, <1>3, <1>4, <1>12 DEF TakeBatched
<1>13. CASE ~(~c.inUse \/ c.generation # e.generation) /\ NextFrame(c.in) # "ready"
  <2>1. TakeBatched(acc, e) = [acc EXCEPT !.u = CloseConnection(v, s)]
    BY <1>0, <1>3, <1>4, <1>9, <1>13 DEF TakeBatched
  <2> QED
    BY <1>8, <1>11, <2>1, CloseConnectionDoes
<1>14. CASE /\ ~(~c.inUse \/ c.generation # e.generation) /\ NextFrame(c.in) = "ready"
            /\ FreeTickets(u) = {}
  <2>1. TakeBatched(acc, e) = [acc EXCEPT !.u = QueueForTicket(v, s)]
    BY <1>0, <1>3, <1>4, <1>9, <1>14 DEF TakeBatched
  <2> QED
    BY <1>8, <1>11, <2>1, QueueForTicketDoes
<1>15. CASE /\ ~(~c.inUse \/ c.generation # e.generation) /\ NextFrame(c.in) = "ready"
            /\ FreeTickets(u) # {} /\ ~Prepared(c.in)
  <2>1. TakeBatched(acc, e) = [acc EXCEPT !.u = SendStatusAndClose(DropRest(v, s), s)]
    BY <1>0, <1>3, <1>4, <1>9, <1>15 DEF TakeBatched
  <2>2. PICK y : y = DropRest(v, s)
    OBVIOUS
  <2>3. Fine(y, A, P, (G \cup {s}) \ {s}, b)
    BY <1>8, <2>2, DropRestDoes
  <2>4. Fine(SendStatusAndClose(y, s), A, P, ((G \cup {s}) \ {s}) \ {s}, b)
    BY <2>3, SendStatusDoes
  <2>5. Fine(SendStatusAndClose(y, s), A, P, (G \cup {s}) \ {s}, b)
    BY <2>4, FineMore
  <2> QED
    BY <1>11, <2>1, <2>2, <2>5
<1>16. CASE /\ ~(~c.inUse \/ c.generation # e.generation) /\ NextFrame(c.in) = "ready"
            /\ FreeTickets(u) # {} /\ Prepared(c.in)
  <2>1. PICK t \in FreeTickets(u) : t = CHOOSE x \in FreeTickets(u) : TRUE
    BY <1>16
  <2>2. PICK x : x = Acquire(v, t)
    OBVIOUS
  <2>3. PICK o : o = [slot |-> s, ticket |-> t, buf |-> c.in]
    OBVIOUS
  <2>4. TakeBatched(acc, e) = [u |-> x, serving |-> Append(q, o)]
    BY <1>0, <1>3, <1>4, <1>9, <1>16, <2>1, <2>2, <2>3 DEF TakeBatched
  <2>5. o \in Entries /\ o.buf # << >> /\ o.ticket = t /\ o.slot = s
    <3>1. c.in \in Bytes /\ t \in Tickets
      BY FreeAre DEF Connections
    <3>2. c.in # << >>
      BY <1>16 DEF NextFrame
    <3> QED
      BY <2>3, <3>1, <3>2 DEF Entries
  <2>6. t \notin A
    BY <1>2, FreeAre DEF Fine, Accounted
  <2>7. /\ Append(q, o) \in Servings
        /\ TicketsOf(Append(q, o), 1) = A \cup {t}
        /\ SlotsOf(Append(q, o), 1) = SlotsOf(q, 1) \cup {s}
    BY <1>1, <2>5, <2>6, OneMore
  <2>8. Fine(x, A \cup {t}, P, G \cup {s}, b)
    BY <1>8, <1>10, <2>1, <2>2, AcquireDoes
  <2>9. G \cup {s} = F \cup SlotsOf(Append(q, o), 1)
    BY <1>1, <2>7
  <2>10. x \in States
    BY <2>8, FineIs
  <2>11. PICK q2 \in Servings : q2 = Append(q, o)
    BY <2>7
  <2>12. Fine(x, TicketsOf(q2, 1), P, F \cup SlotsOf(q2, 1), b)
    BY <2>7, <2>8, <2>9, <2>11
  <2>13. TakeBatched(acc, e) = [u |-> x, serving |-> q2]
    BY <2>4, <2>11
  <2> QED
    BY <2>10, <2>12, <2>13, SMTT(30) DEF Takings
<1> QED
  BY <1>12, <1>13, <1>14, <1>15, <1>16

\* The first half of FlushBatch.
Unbatched(u) == [u |-> [u EXCEPT !.batch = << >>], serving |-> << >>]

Takes(base, batch) ==
  CHOOSE f : f = [n \in 0 .. Len(batch) |->
    IF n = 0 THEN base ELSE TakeBatched(f[n - 1], batch[n])]

\* D holds what is known of each of its steps.
LEMMA TakenSteps ==
  ASSUME NEW batch, NEW N \in Nat, N = Len(batch), NEW base, NEW U, NEW D,
         base \in D[0], \A n \in 0 .. N : D[n] \subseteq U,
         \A n \in 1 .. N : \A x \in D[n - 1] : TakeBatched(x, batch[n]) \in D[n],
         NEW taken, taken = Takes(base, batch)
  PROVE  taken[N] \in D[N]
<1> DEFINE G == [p \in (1 .. N) \X U |-> TakeBatched(p[2], batch[p[1]])]
           Is(f) == f = [n \in 0 .. N |->
                      IF n = 0 THEN base ELSE TakeBatched(f[n - 1], batch[n])]
<1>1. \E f : Is(f)
  <2>1. \A n \in 1 .. N : \A x \in U : G[<< n, x >>] = TakeBatched(x, batch[n])
    OBVIOUS
  <2>2. \A n \in 1 .. N : \A x \in D[n - 1] : G[<< n, x >>] \in D[n]
    <3>1. ASSUME NEW n \in 1 .. N, NEW x \in D[n - 1] PROVE G[<< n, x >>] \in D[n]
      <4>1. x \in U
        OBVIOUS
      <4>2. G[<< n, x >>] = TakeBatched(x, batch[n])
        BY <4>1
      <4> QED
        BY <4>2
    <3> QED
      BY <3>1
  <2> HIDE DEF G
  <2>3. Leads(N, U, D, G, base)
    BY <2>2 DEF Leads
  <2>4. PICK f \in [0 .. N -> U] : Recurs(f, N, D, G, base)
    BY <2>3, Recursion
  <2>5. ASSUME NEW n \in 1 .. N PROVE f[n] = TakeBatched(f[n - 1], batch[n])
    <3>1. f[n - 1] \in U
      BY <2>4
    <3> QED
      BY <2>1, <2>4, <3>1, Zenon DEF Recurs
  <2>6. f[0] = base
    BY <2>4 DEF Recurs
  <2>7. Is(f)
    BY <2>4, <2>5, <2>6
  <2> QED
    BY <2>7
<1>2. taken = CHOOSE f : Is(f)
  BY DEF Takes
<1>3. Is(taken)
  <2> HIDE DEF Is
  <2> QED
    BY <1>1, <1>2
<1> DEFINE Good == {n \in 0 .. N : taken[n] \in D[n]}
<1>4. taken[0] = base /\ \A n \in 1 .. N : taken[n] = TakeBatched(taken[n - 1], batch[n])
  <2>1. 0 \in 0 .. N /\ \A n \in 1 .. N : n \in 0 .. N /\ n # 0
    OBVIOUS
  <2>2. \A n \in 0 .. N :
          taken[n] = IF n = 0 THEN base ELSE TakeBatched(taken[n - 1], batch[n])
    BY <1>3, Zenon
  <2> QED
    BY <2>1, <2>2
<1>5. 0 \in Good
  BY <1>4
<1>6. \A n \in 1 .. N : n - 1 \in Good => n \in Good
  BY <1>4
<1>7. \A n \in 0 .. N : n \in Good
  <2> HIDE DEF Good
  <2> QED
    BY <1>5, <1>6, Upwards
<1> QED
  BY <1>7

LEMMA TakenAre ==
  ASSUME NEW u, NEW P, NEW F, NEW b, Fine(u, {}, P, F, b), NEW batch \in Seq(BatchEntries),
         NEW N, N = Len(batch), NEW base, base = [u |-> u, serving |-> << >>],
         NEW taken, taken = Takes(base, batch)
  PROVE  taken[N] \in Takings(P, F, b)
<1> DEFINE U == Takings(P, F, b)
           D == [n \in 0 .. N |-> U]
<1>1. N \in Nat
  BY LenProperties
<1>2. base \in U
  <2>1. << >> \in Servings
    BY DEF Servings
  <2>2. TicketsOf(<< >>, 1) = {} /\ SlotsOf(<< >>, 1) = {}
    BY DEF TicketsOf, SlotsOf
  <2>3. Fine(u, TicketsOf(<< >>, 1), P, F \cup SlotsOf(<< >>, 1), b) /\ u \in States
    <3>1. F \cup {} = F
      OBVIOUS
    <3> QED
      BY <2>2, <3>1, FineIs
  <2> QED
    BY <2>1, <2>3 DEF Takings
<1>3. \A n \in 1 .. N : batch[n] \in BatchEntries
  BY LenProperties
<1>4. \A n \in 1 .. N : \A x \in U : TakeBatched(x, batch[n]) \in U
  BY <1>3, TakeBatchedDoes
<1> HIDE DEF U
<1>5. \A n \in 1 .. N : \A x \in D[n - 1] : TakeBatched(x, batch[n]) \in D[n]
  BY <1>1, <1>4
<1>6. base \in D[0] /\ \A n \in 0 .. N : D[n] \subseteq U
  BY <1>1, <1>2
<1>7. D[N] = U
  BY <1>1
<1> HIDE DEF D
<1>8. taken[N] \in D[N]
  BY <1>1, <1>5, <1>6, TakenSteps
<1> QED
  BY <1>7, <1>8 DEF U

\* The second half: the handler has answered, and one response after the other leaves.
Finishes(u, q, handler) ==
  CHOOSE f : f = [n \in 0 .. Len(q) |->
    IF n = 0 THEN u
    ELSE Finish(f[n - 1], q[n].slot, q[n].ticket, q[n].buf, handler[q[n].slot])]

\* One handler's answer.
FinishEntry(x, e, handler) == Finish(x, e.slot, e.ticket, e.buf, handler[e.slot])

LEMMA FinishedSteps ==
  ASSUME NEW u, NEW q, NEW handler, NEW N \in Nat, N = Len(q), NEW U, NEW D,
         u \in D[0], \A n \in 0 .. N : D[n] \subseteq U,
         \A n \in 1 .. N : \A x \in D[n - 1] : FinishEntry(x, q[n], handler) \in D[n],
         NEW finished, finished = Finishes(u, q, handler)
  PROVE  finished[N] \in D[N]
<1> DEFINE Step(x, n) == FinishEntry(x, q[n], handler)
           G == [p \in (1 .. N) \X U |-> Step(p[2], p[1])]
           Is(f) == f = [n \in 0 .. N |-> IF n = 0 THEN u ELSE Step(f[n - 1], n)]
<1>1. \E f : Is(f)
  <2>1. \A n \in 1 .. N : \A x \in U : G[<< n, x >>] = Step(x, n)
    OBVIOUS
  <2>2. \A n \in 1 .. N : \A x \in D[n - 1] : G[<< n, x >>] \in D[n]
    <3>1. ASSUME NEW n \in 1 .. N, NEW x \in D[n - 1] PROVE G[<< n, x >>] \in D[n]
      <4>1. x \in U
        OBVIOUS
      <4>2. G[<< n, x >>] = Step(x, n)
        BY <4>1
      <4> QED
        BY <4>2
    <3> QED
      BY <3>1
  <2> HIDE DEF G, Step
  <2>3. Leads(N, U, D, G, u)
    BY <2>2 DEF Leads
  <2>4. PICK f \in [0 .. N -> U] : Recurs(f, N, D, G, u)
    BY <2>3, Recursion
  <2>5. ASSUME NEW n \in 1 .. N PROVE f[n] = Step(f[n - 1], n)
    <3>1. f[n - 1] \in U
      BY <2>4
    <3> QED
      BY <2>1, <2>4, <3>1, Zenon DEF Recurs
  <2>6. f[0] = u
    BY <2>4 DEF Recurs
  <2>7. Is(f)
    BY <2>4, <2>5, <2>6
  <2> QED
    BY <2>7
<1>2. finished = CHOOSE f : Is(f)
  BY DEF Finishes, FinishEntry
<1>3. Is(finished)
  <2> HIDE DEF Is
  <2> QED
    BY <1>1, <1>2
<1> DEFINE Good == {n \in 0 .. N : finished[n] \in D[n]}
<1> HIDE DEF Step
<1>4. finished[0] = u /\ \A n \in 1 .. N : finished[n] = Step(finished[n - 1], n)
  <2>1. 0 \in 0 .. N /\ \A n \in 1 .. N : n \in 0 .. N /\ n # 0
    OBVIOUS
  <2>2. \A n \in 0 .. N : finished[n] = IF n = 0 THEN u ELSE Step(finished[n - 1], n)
    BY <1>3, Zenon
  <2> QED
    BY <2>1, <2>2
<1>5. 0 \in Good
  BY <1>4
<1>6. \A n \in 1 .. N : n - 1 \in Good => n \in Good
  BY <1>4 DEF Step
<1>7. \A n \in 0 .. N : n \in Good
  <2> HIDE DEF Good
  <2> QED
    BY <1>5, <1>6, Upwards
<1> QED
  BY <1>7

LEMMA FinishedAre ==
  ASSUME NEW u, NEW q \in Servings, NEW P, NEW F, NEW b, NEW handler,
         Fine(u, TicketsOf(q, 1), P, F \cup SlotsOf(q, 1), b),
         NEW N, N = Len(q), NEW finished, finished = Finishes(u, q, handler)
  PROVE  Fine(finished[N], {}, P, F, b)
<1> DEFINE Step(x, n) == Finish(x, q[n].slot, q[n].ticket, q[n].buf, handler[q[n].slot])
           U == States
           D == [n \in 0 .. N |-> {x \in U : Fine(x, TicketsOf(q, n + 1), P,
                                                 F \cup SlotsOf(q, n + 1), b)}]
           G == [p \in (1 .. N) \X U |-> Step(p[2], p[1])]
           Is(f) == f = [n \in 0 .. N |-> IF n = 0 THEN u ELSE Step(f[n - 1], n)]
<1>1. N \in Nat /\ q \in Seq(Entries) /\ DOMAIN q = 1 .. N
  BY LenProperties DEF Servings
<1>2. u \in D[0]
  BY <1>1, FineIs
<1>3. ASSUME NEW n \in 1 .. N, NEW x \in D[n - 1] PROVE Step(x, n) \in D[n]
  <2>1. n - 1 \in 0 .. N /\ n \in 0 .. N /\ (n - 1) + 1 = n
    BY <1>1
  <2>2. PICK A, S : A = TicketsOf(q, n) /\ S = SlotsOf(q, n)
    OBVIOUS
  <2>3. Fine(x, A, P, F \cup S, b)
    BY <2>1, <2>2
  <2>4. PICK s \in Slots, t \in Tickets, buf \in Bytes :
          s = q[n].slot /\ t = q[n].ticket /\ buf = q[n].buf
    <3>1. q[n] \in Entries
      BY <1>1
    <3> QED
      BY <3>1 DEF Entries
  <2>5. buf # << >>
    BY <1>1, <2>4 DEF Servings
  <2>6. t \in A
    BY <1>1, <2>2, <2>4 DEF TicketsOf
  <2>7. Fine(Step(x, n), A \ {t}, P, (F \cup S) \ {s}, b)
    <3>1. PICK outcome : outcome = handler[q[n].slot]
      OBVIOUS
    <3>2. Fine(Finish(x, s, t, buf, outcome), A \ {t}, P, (F \cup S) \ {s}, b)
      BY <2>3, <2>5, <2>6, FinishDoes
    <3> QED
      BY <2>4, <3>1, <3>2
  <2>8. A \ {t} = TicketsOf(q, n + 1)
    <3>1. \A i \in n .. N : q[i].ticket = t => i = n
      BY <1>1, <2>4 DEF Servings
    <3> QED
      BY <1>1, <2>2, <2>4, <3>1 DEF TicketsOf
  <2>9. (F \cup S) \ {s} \subseteq F \cup SlotsOf(q, n + 1)
    BY <1>1, <2>2, <2>4 DEF SlotsOf
  <2> HIDE DEF Step
  <2>10. Fine(Step(x, n), TicketsOf(q, n + 1), P, F \cup SlotsOf(q, n + 1), b)
    BY <2>7, <2>8, <2>9, FineMore
  <2>11. Step(x, n) \in U
    BY <2>10, FineIs
  <2> QED
    BY <2>1, <2>10, <2>11
<1>4. \A n \in 0 .. N : D[n] \subseteq U
  OBVIOUS
<1> HIDE DEF Step, D, U
<1>12. finished[N] \in D[N]
  <2>1. \A n \in 1 .. N : \A x \in D[n - 1] : FinishEntry(x, q[n], handler) \in D[n]
    BY <1>3 DEF FinishEntry, Step
  <2> QED
    BY <1>1, <1>2, <1>4, <2>1, FinishedSteps
<1>13. TicketsOf(q, N + 1) = {} /\ SlotsOf(q, N + 1) = {}
  BY <1>1 DEF TicketsOf, SlotsOf
<1>14. Fine(finished[N], {}, P, F \cup {}, b)
  <2>1. N \in 0 .. N
    BY <1>1
  <2>2. Fine(finished[N], TicketsOf(q, N + 1), P, F \cup SlotsOf(q, N + 1), b)
    BY <1>12, <2>1 DEF D
  <2> QED
    BY <1>13, <2>2
<1> QED
  BY <1>14, FineMore

LEMMA FlushIs ==
  ASSUME NEW u, NEW handler, NEW acc, acc = Takes(Unbatched(u), u.batch)[Len(u.batch)]
  PROVE  FlushBatch(u, handler) = Finishes(acc.u, acc.serving, handler)[Len(acc.serving)]
<1> DEFINE got == Takes(Unbatched(u), u.batch)[Len(u.batch)]
<1>1. FlushBatch(u, handler) = Finishes(got.u, got.serving, handler)[Len(got.serving)]
  BY Zenon DEF FlushBatch, Finishes, Takes, Unbatched
<1> HIDE DEF got
<1>2. got = acc
  BY DEF got
<1> QED
  BY <1>1, <1>2

LEMMA FlushBatchDoes ==
  ASSUME NEW u, NEW P, NEW F, NEW b, Fine(u, {}, P, F, b), NEW handler
  PROVE  Fine(FlushBatch(u, handler), {}, P, F, b)
<1>1. PICK batch \in Seq(BatchEntries) : batch = u.batch
  BY FineIs, StatesAre
<1>2. PICK v : v = [u EXCEPT !.batch = << >>]
  OBVIOUS
<1>3. Fine(v, {}, P, F, b)
  <2>1. u \in States /\ << >> \in Seq(BatchEntries)
    BY FineIs
  <2>2. v \in States /\ v.conn = u.conn /\ SameQueues(u, v) /\ SameTickets(u, v)
        /\ v.buffers = u.buffers
    BY <1>2, <2>1, StatesAre DEF States, SameQueues, SameTickets
  <2> QED
    BY <2>2, NothingDoes
<1>4. PICK base : base = [u |-> v, serving |-> << >>]
  OBVIOUS
<1>5. PICK taken : taken = Takes(base, batch)
  OBVIOUS
<1>6. PICK acc : acc = taken[Len(batch)]
  OBVIOUS
<1>7. acc \in Takings(P, F, b)
  BY <1>3, <1>4, <1>5, <1>6, TakenAre
<1>8. PICK q \in Servings : q = acc.serving
  BY <1>7 DEF Takings
<1>9. Fine(acc.u, TicketsOf(q, 1), P, F \cup SlotsOf(q, 1), b)
  BY <1>7, <1>8 DEF Takings
<1>10. PICK finished : finished = Finishes(acc.u, q, handler)
  OBVIOUS
<1>11. Fine(finished[Len(q)], {}, P, F, b)
  BY <1>9, <1>10, FinishedAre
<1>12. FlushBatch(u, handler) = finished[Len(q)]
  <2>1. base = Unbatched(u)
    BY <1>2, <1>4 DEF Unbatched
  <2>2. acc = Takes(Unbatched(u), u.batch)[Len(u.batch)]
    BY <1>1, <1>5, <1>6, <2>1
  <2>3. FlushBatch(u, handler) = Finishes(acc.u, acc.serving, handler)[Len(acc.serving)]
    BY <2>2, FlushIs
  <2> QED
    BY <1>8, <1>10, <2>3
<1> QED
  BY <1>11, <1>12

-----------------------------------------------------------------------------
(* What the ring thread does on a completion *)

LEMMA CaredDoes ==
  ASSUME NEW u, NEW A, NEW P, NEW F, NEW b, Fine(u, A, P, F, b), NEW s \in Slots,
         CaredFor(u.conn[s])
  PROVE  Fine(u, A, P, F \ {s}, b)
  BY DEF Fine, Tidy

\* A request that is served, or set aside, is not forgotten.
LEMMA ServeNextRequestDoes ==
  ASSUME NEW u, NEW P, NEW F, NEW b, Fine(u, {}, P, F, b), NEW s \in Slots,
         NEW buf \in Bytes, NEW handler
  PROVE  Fine(ServeNextRequest(u, s, buf, handler), {}, P, F \ {s}, b)
<1>1. PICK c \in Connections : c = u.conn[s]
  BY FineIs, ConnIs
<1>2. CASE c.batched \/ c.deferred
  <2>1. ServeNextRequest(u, s, buf, handler) = u /\ CaredFor(c)
    BY <1>1, <1>2 DEF ServeNextRequest, CaredFor
  <2> QED
    BY <1>1, <2>1, CaredDoes
<1>3. CASE ~(c.batched \/ c.deferred) /\ NextFrame(buf) = "incomplete"
  <2>1. PICK v : v = [u EXCEPT !.conn[s].in = buf]
    OBVIOUS
  <2>2. ServeNextRequest(u, s, buf, handler) = v
    BY <1>1, <1>3, <2>1 DEF ServeNextRequest
  <2>3. NextFrame(buf) # "ready"
    BY <1>3
  <2>4. Fine(v, {}, P, F \ {s}, b)
    BY <2>1, <2>3, HoldsNow
  <2> QED
    BY <2>2, <2>4
<1>4. PICK t : t = CHOOSE x \in FreeTickets(u) : TRUE
  OBVIOUS
<1>5. ASSUME ServeNextRequest(u, s, buf, handler) = SendStatusAndClose(DropRest(u, s), s)
      PROVE  Fine(ServeNextRequest(u, s, buf, handler), {}, P, F \ {s}, b)
  <2>1. PICK y : y = DropRest(u, s)
    OBVIOUS
  <2>2. Fine(y, {}, P, F \ {s}, b)
    BY <2>1, DropRestDoes
  <2>3. Fine(SendStatusAndClose(y, s), {}, P, (F \ {s}) \ {s}, b)
    BY <2>2, SendStatusDoes
  <2>4. Fine(SendStatusAndClose(y, s), {}, P, F \ {s}, b)
    BY <2>3, FineMore
  <2> QED
    BY <1>5, <2>1, <2>4
<1> DEFINE Split == ~(c.batched \/ c.deferred) /\ NextFrame(buf) # "incomplete"
<1>6. CASE Split /\ NextFrame(buf) = "refused"
  <2>1. ServeNextRequest(u, s, buf, handler) = SendStatusAndClose(DropRest(u, s), s)
    BY <1>1, <1>6 DEF ServeNextRequest
  <2> QED
    BY <1>5, <2>1
<1>7. CASE Split /\ NextFrame(buf) # "refused" /\ batching
  <2>1. PICK v : v = IF Len(u.batch) >= AMMSERVER_API_MAX_BATCH
                     THEN FlushBatch(u, handler) ELSE u
    OBVIOUS
  <2>2. Fine(v, {}, P, F, b) /\ v \in States /\ v.conn[s] \in Connections
    BY <2>1, FlushBatchDoes, FineIs, ConnIs
  <2>3. PICK e : e = [slot |-> s, generation |-> c.generation]
    OBVIOUS
  <2>4. e \in BatchEntries
    BY <2>3 DEF BatchEntries, Connections
  <2>5. ServeNextRequest(u, s, buf, handler) =
          [v EXCEPT !.conn[s].in = buf, !.conn[s].batched = TRUE, !.batch = Append(@, e)]
    BY <1>1, <1>7, <2>1, <2>3 DEF ServeNextRequest
  <2>6. PICK d : d = [v.conn[s] EXCEPT !.in = buf, !.batched = TRUE]
    OBVIOUS
  <2>7. d \in Connections /\ SamePlace(v.conn[s], d) /\ CaredFor(d)
    BY <2>2, <2>6 DEF Connections, SamePlace, CaredFor
  <2>8. PICK w : w = Put(v, s, d)
    OBVIOUS
  <2>9. Fine(w, {}, P, F \ {s}, b) /\ w \in States
    BY <2>2, <2>7, <2>8, PutDoes
  <2>10. PICK batch : batch = Append(w.batch, e)
    OBVIOUS
  <2>11. batch \in Seq(BatchEntries)
    BY <2>4, <2>9, <2>10, StatesAre
  <2>12. PICK x : x = [w EXCEPT !.batch = batch]
    OBVIOUS
  <2>13. x \in States /\ x.conn = w.conn /\ SameQueues(w, x) /\ SameTickets(w, x)
         /\ x.buffers = w.buffers
    BY <2>9, <2>11, <2>12, StatesAre DEF States, SameQueues, SameTickets
  <2>14. Fine(x, {}, P, F \ {s}, b)
    BY <2>9, <2>13, NothingDoes
  <2>15. w = [v EXCEPT !.conn[s].in = buf, !.conn[s].batched = TRUE]
    BY <2>2, <2>6, <2>8, StatesAre DEF Put, States
  <2>16. ServeNextRequest(u, s, buf, handler) = [w EXCEPT !.batch = Append(@, e)]
    BY <2>5, <2>15
  <2>17. ServeNextRequest(u, s, buf, handler) = x
    BY <2>10, <2>12, <2>16
  <2> QED
    BY <2>14, <2>17
<1>8. CASE Split /\ NextFrame(buf) # "refused" /\ ~batching /\ FreeTickets(u) = {}
  <2>1. PICK v : v = [u EXCEPT !.conn[s].in = buf]
    OBVIOUS
  <2>2. ServeNextRequest(u, s, buf, handler) = QueueForTicket(v, s)
    BY <1>1, <1>8, <2>1 DEF ServeNextRequest
  <2>3. Fine(v, {}, P, F \cup {s}, b)
    BY <2>1, HoldsNow
  <2>4. Fine(QueueForTicket(v, s), {}, P, (F \cup {s}) \ {s}, b)
    BY <2>3, QueueForTicketDoes
  <2>5. Fine(QueueForTicket(v, s), {}, P, F \ {s}, b)
    BY <2>4, FineMore
  <2> QED
    BY <2>2, <2>5
<1>9. CASE /\ Split /\ NextFrame(buf) # "refused" /\ ~batching /\ FreeTickets(u) # {}
           /\ ~Prepared(buf)
  <2>1. ServeNextRequest(u, s, buf, handler) = SendStatusAndClose(DropRest(u, s), s)
    BY <1>1, <1>9 DEF ServeNextRequest
  <2> QED
    BY <1>5, <2>1
<1>10. CASE /\ Split /\ NextFrame(buf) # "refused" /\ ~batching /\ FreeTickets(u) # {}
            /\ Prepared(buf)
  <2>1. t \in FreeTickets(u)
    BY <1>4, <1>10
  <2>2. PICK v : v = Acquire(u, t)
    OBVIOUS
  <2>3. Fine(v, {} \cup {t}, P, F, b)
    BY <2>1, <2>2, AcquireDoes
  <2>4. buf # << >>
    BY <1>10 DEF NextFrame
  <2>5. PICK outcome : outcome = handler[s]
    OBVIOUS
  <2>6. Fine(Finish(v, s, t, buf, outcome), ({} \cup {t}) \ {t}, P, F \ {s}, b)
    BY <2>3, <2>4, FinishDoes
  <2>7. ({} \cup {t}) \ {t} = {}
    OBVIOUS
  <2>8. ServeNextRequest(u, s, buf, handler) = Finish(v, s, t, buf, outcome)
    BY <1>1, <1>4, <1>10, <2>2, <2>5 DEF ServeNextRequest
  <2> QED
    BY <2>6, <2>7, <2>8
<1> QED
  BY <1>2, <1>3, <1>6, <1>7, <1>8, <1>9, <1>10

LEMMA HandleAcceptDoes ==
  ASSUME NEW u, NEW P, NEW F, NEW b, Fine(u, {}, P, F, b), NEW e, e.slot \in Slots
  PROVE  Fine(HandleAcceptCompletion(u, e), {}, P, F, b)
<1>1. PICK s \in Slots : s = e.slot
  OBVIOUS
<1>2. PICK c \in Connections : c = u.conn[s]
  BY FineIs, ConnIs
<1>3. PICK g \in Nat : g = c.generation + 1
  BY DEF Connections
<1>4. PICK d : d = [FreeConnection EXCEPT !.inUse = TRUE,
                                          !.generation = g,
                                          !.waitingForTicket = c.waitingForTicket,
                                          !.nextWaiting = c.nextWaiting,
                                          !.waitingForRearm = c.waitingForRearm,
                                          !.nextRearm = c.nextRearm]
  OBVIOUS
<1>5. d = [ inUse |-> TRUE, generation |-> g, in |-> << >>, recvArmed |-> FALSE,
            sendInFlight |-> FALSE, batched |-> FALSE,
            deferred |-> FALSE, deferredKeepAlive |-> TRUE,
            waitingForTicket |-> c.waitingForTicket, nextWaiting |-> c.nextWaiting,
            waitingForRearm |-> c.waitingForRearm, nextRearm |-> c.nextRearm ]
  BY <1>4 DEF FreeConnection
<1>6. d \in Connections
  <2>1. << >> \in Bytes
    BY DEF Bytes
  <2>2. c.waitingForTicket \in BOOLEAN /\ c.nextWaiting \in Links
        /\ c.waitingForRearm \in BOOLEAN /\ c.nextRearm \in Links
    BY DEF Connections
  <2> HIDE DEF Bytes, Links
  <2> QED
    BY <1>5, <2>1, <2>2 DEF Connections
<1>7. SamePlace(c, d) /\ CaredFor(d)
  BY <1>5 DEF SamePlace, CaredFor, NextFrame
<1>8. PICK v : v = Put(u, s, d)
  OBVIOUS
<1>9. Fine(v, {}, P, F, b)
  BY <1>2, <1>6, <1>7, <1>8, PutDoes
<1>10. HandleAcceptCompletion(u, e) = ArmRecv(v, s)
  BY <1>1, <1>2, <1>3, <1>4, <1>8 DEF HandleAcceptCompletion, Put
<1> QED
  BY <1>9, <1>10, ArmRecvDoes

LEMMA RearmAfterDoes ==
  ASSUME NEW u, NEW P, NEW F, NEW b, Fine(u, {}, P, F, b), NEW s \in Slots
  PROVE  Fine(RearmAfter(u, s), {}, P, F, b)
  BY ArmRecvDoes DEF RearmAfter

LEMMA BothBytes ==
  ASSUME NEW x \in Bytes, NEW y \in Bytes
  PROVE  x \o y \in Bytes
  BY ConcatProperties DEF Bytes

\* The bytes of a completion are in a buffer, and it is given back.
LEMMA ReceivedDoes ==
  ASSUME NEW w, NEW P, NEW b, Fine(w, {}, P, {}, b), NEW e, e.slot \in Slots,
         e.data \in Bytes, NEW handler
  PROVE  Fine(Received(w, e, handler), {}, P, {}, b + 1)
<1>1. PICK s \in Slots, data \in Bytes : s = e.slot /\ data = e.data
  OBVIOUS
<1>2. PICK c \in Connections : c = w.conn[s]
  BY FineIs, ConnIs
<1>3. PICK more \in Bytes : more = c.in \o data
  BY BothBytes DEF Connections
<1>4. PICK fits : fits = PartialFits(Len(more))
  OBVIOUS
<1>5. PICK x : x = [w EXCEPT !.conn[s].in = more]
  OBVIOUS
<1>6. PICK v : v = RecycleRecvBuffer(x)
  OBVIOUS
<1>7. PICK y : y = RecycleRecvBuffer(w)
  OBVIOUS
<1>8. Fine(y, {}, P, {}, b + 1)
  BY <1>7, RecycleDoes
<1>9. ASSUME NEW z, NEW F, F \subseteq {s}, Fine(z, {}, P, F \ {s}, b + 1)
      PROVE  Fine(z, {}, P, {}, b + 1)
  BY <1>9, FineMore
<1>10. CASE c.sendInFlight /\ fits
  <2>1. Fine(x, {}, P, {}, b)
    BY <1>2, <1>5, <1>10, HoldsNow
  <2>2. Fine(RearmAfter(v, s), {}, P, {}, b + 1)
    BY <1>6, <2>1, RecycleDoes, RearmAfterDoes
  <2>3. Received(w, e, handler) = RearmAfter(v, s)
    BY <1>1, <1>2, <1>3, <1>4, <1>5, <1>6, <1>10 DEF Received
  <2> QED
    BY <2>2, <2>3
<1>11. CASE c.sendInFlight /\ ~fits
  <2>1. Received(w, e, handler) = CloseConnection(y, s)
    BY <1>1, <1>2, <1>3, <1>4, <1>7, <1>11 DEF Received
  <2>2. Fine(CloseConnection(y, s), {}, P, {} \ {s}, b + 1)
    BY <1>8, CloseConnectionDoes
  <2>3. Fine(CloseConnection(y, s), {}, P, {}, b + 1)
    BY <1>9, <2>2
  <2> QED
    BY <2>1, <2>3
<1>12. CASE ~c.sendInFlight /\ (c.in # << >> \/ c.deferred) /\ fits
  <2>1. Fine(x, {}, P, {s}, b)
    <3>1. Fine(x, {}, P, {} \cup {s}, b)
      BY <1>5, HoldsNow
    <3> QED
      BY <3>1, FineMore
  <2>2. Fine(v, {}, P, {s}, b + 1)
    BY <1>6, <2>1, RecycleDoes
  <2>3. PICK z : z = ServeNextRequest(v, s, more, handler)
    OBVIOUS
  <2>4. Fine(z, {}, P, {s} \ {s}, b + 1)
    BY <2>2, <2>3, ServeNextRequestDoes
  <2>5. Fine(RearmAfter(z, s), {}, P, {}, b + 1)
    BY <1>9, <2>4, RearmAfterDoes
  <2>6. Received(w, e, handler) = RearmAfter(z, s)
    BY <1>1, <1>2, <1>3, <1>4, <1>5, <1>6, <1>12, <2>3 DEF Received
  <2> QED
    BY <2>5, <2>6
<1>13. CASE ~c.sendInFlight /\ (c.in # << >> \/ c.deferred) /\ ~fits
  <2>1. PICK z : z = SendStatusAndClose(y, s)
    OBVIOUS
  <2>2. Fine(z, {}, P, {} \ {s}, b + 1)
    BY <1>8, <2>1, SendStatusDoes
  <2>3. Fine(z, {}, P, {}, b + 1)
    BY <1>9, <2>2
  <2>4. Received(w, e, handler) = IF c.in # << >> THEN z ELSE RearmAfter(z, s)
    BY <1>1, <1>2, <1>3, <1>4, <1>7, <1>13, <2>1 DEF Received
  <2> QED
    BY <2>3, <2>4, RearmAfterDoes
<1>14. CASE ~c.sendInFlight /\ ~(c.in # << >> \/ c.deferred)
  <2>1. PICK z : z = ServeNextRequest(w, s, data, handler)
    OBVIOUS
  <2>2. Fine(z, {}, P, {} \ {s}, b)
    BY <2>1, ServeNextRequestDoes
  <2>3. Fine(z, {}, P, {}, b)
    BY <2>2, FineMore
  <2>4. PICK r : r = RecycleRecvBuffer(z)
    OBVIOUS
  <2>5. Fine(RearmAfter(r, s), {}, P, {}, b + 1)
    BY <2>3, <2>4, RecycleDoes, RearmAfterDoes
  <2>6. Received(w, e, handler) = RearmAfter(r, s)
    BY <1>1, <1>2, <1>14, <2>1, <2>4 DEF Received
  <2> QED
    BY <2>5, <2>6
<1> QED
  BY <1>10, <1>11, <1>12, <1>13, <1>14

\* One field of a connection that neither the queues nor the requests depend on.
LEMMA DisarmDoes ==
  ASSUME NEW u, NEW P, NEW b, Fine(u, {}, P, {}, b), NEW s \in Slots,
         NEW v, v = [u EXCEPT !.conn[s].recvArmed = FALSE]
  PROVE  Fine(v, {}, P, {}, b)
<1>1. u \in States /\ u.conn[s] \in Connections
  BY FineIs, ConnIs
<1>2. PICK d : d = [u.conn[s] EXCEPT !.recvArmed = FALSE]
  OBVIOUS
<1>3. d \in Connections /\ SamePlace(u.conn[s], d) /\ (CaredFor(u.conn[s]) => CaredFor(d))
  BY <1>1, <1>2 DEF Connections, SamePlace, CaredFor
<1>4. PICK w : w = Put(u, s, d)
  OBVIOUS
<1>5. Fine(w, {}, P, {}, b)
  BY <1>3, <1>4, PutDoes
<1>6. v = w
  BY <1>1, <1>2, <1>4, StatesAre DEF States, Put
<1> QED
  BY <1>5, <1>6

LEMMA HandleRecvDoes ==
  ASSUME NEW u, NEW P, NEW b, Fine(u, {}, P, {}, b), NEW e, e.slot \in Slots,
         e.data \in Bytes, e.data # << >> <=> e.res = "data",
         e.res \in {"data", "ENOBUFS", "end", "canceled"}, NEW handler
  PROVE  /\ e.data # << >> => Fine(HandleRecvCompletion(u, e, handler), {}, P, {}, b + 1)
         /\ e.data = << >> => Fine(HandleRecvCompletion(u, e, handler), {}, P, {}, b)
<1>1. PICK s \in Slots : s = e.slot
  OBVIOUS
<1>2. PICK c : c = u.conn[s]
  OBVIOUS
<1>3. PICK v : v = IF e.more THEN u ELSE [u EXCEPT !.conn[s].recvArmed = FALSE]
  OBVIOUS
<1>4. Fine(v, {}, P, {}, b)
  <2>1. CASE e.more
    BY <1>3, <2>1
  <2>2. CASE ~e.more
    <3>1. v = [u EXCEPT !.conn[s].recvArmed = FALSE]
      BY <1>3, <2>2
    <3> QED
      BY <3>1, DisarmDoes
  <2> QED
    BY <2>1, <2>2
<1>5. CASE ~c.inUse \/ c.generation # e.tag
  <2>1. HandleRecvCompletion(u, e, handler) = IF e.data # << >> THEN RecycleRecvBuffer(u) ELSE u
    BY <1>1, <1>2, <1>5 DEF HandleRecvCompletion
  <2> QED
    BY <2>1, RecycleDoes
<1> DEFINE Theirs == ~(~c.inUse \/ c.generation # e.tag)
<1>6. CASE Theirs /\ e.res = "data"
  <2>1. HandleRecvCompletion(u, e, handler) = Received(v, e, handler)
    BY <1>1, <1>2, <1>3, <1>6 DEF HandleRecvCompletion
  <2> QED
    BY <1>4, <1>6, <2>1, ReceivedDoes
<1>7. CASE Theirs /\ e.res = "ENOBUFS"
  <2>1. PICK w : w = [v EXCEPT !.conn[s].recvArmed = FALSE]
    OBVIOUS
  <2>2. HandleRecvCompletion(u, e, handler) = QueueForRearm(w, s)
    BY <1>1, <1>2, <1>3, <1>7, <2>1 DEF HandleRecvCompletion
  <2>3. Fine(QueueForRearm(w, s), {}, P, {}, b)
    BY <1>4, <2>1, DisarmDoes, QueueForRearmDoes
  <2> QED
    BY <1>7, <2>2, <2>3
<1>8. CASE Theirs /\ e.res = "end"
  <2>1. HandleRecvCompletion(u, e, handler) = CloseConnection(v, s)
    BY <1>1, <1>2, <1>3, <1>8 DEF HandleRecvCompletion
  <2>2. Fine(CloseConnection(v, s), {}, P, {} \ {s}, b)
    BY <1>4, CloseConnectionDoes
  <2>3. Fine(CloseConnection(v, s), {}, P, {}, b)
    BY <2>2, FineMore
  <2> QED
    BY <1>8, <2>1, <2>3
<1>9. CASE Theirs /\ e.res = "canceled"
  <2>1. HandleRecvCompletion(u, e, handler) = v
    BY <1>1, <1>2, <1>3, <1>9 DEF HandleRecvCompletion
  <2> QED
    BY <1>4, <1>9, <2>1
<1> QED
  BY <1>5, <1>6, <1>7, <1>8, <1>9

\* The response of a connection is not in flight any more.
LEMMA SentDoes ==
  ASSUME NEW u, NEW P, NEW F, NEW b, Fine(u, {}, P, F, b), NEW s \in Slots,
         NEW v, v = [u EXCEPT !.conn[s].sendInFlight = FALSE]
  PROVE  /\ v \in States
         /\ Fine(v, {}, P, F \cup {s}, b)
<1>1. u \in States /\ u.conn[s] \in Connections
  BY FineIs, ConnIs
<1>2. PICK d : d = [u.conn[s] EXCEPT !.sendInFlight = FALSE]
  OBVIOUS
<1>3. d \in Connections /\ SamePlace(u.conn[s], d)
  BY <1>1, <1>2 DEF Connections, SamePlace
<1>4. PICK w : w = Put(u, s, d)
  OBVIOUS
<1>5. w \in States /\ Fine(w, {}, P, F \cup {s}, b)
  BY <1>3, <1>4, PutDoes
<1>6. v = w
  BY <1>1, <1>2, <1>4, StatesAre DEF States, Put
<1> QED
  BY <1>5, <1>6

LEMMA AfterResponseDoes ==
  ASSUME NEW u, NEW P, NEW F, NEW b, Fine(u, {}, P, F, b), NEW s \in Slots,
         NEW last \in BOOLEAN, NEW handler
  PROVE  Fine(AfterResponse(u, s, last, handler), {}, P, F, b)
<1>1. PICK v : v = [u EXCEPT !.conn[s].sendInFlight = FALSE]
  OBVIOUS
<1>2. v \in States /\ Fine(v, {}, P, F \cup {s}, b)
  BY <1>1, SentDoes
<1>3. PICK in \in Bytes : in = v.conn[s].in
  BY <1>2, ConnIs
<1>4. PICK w : w = IF in # << >> THEN ServeNextRequest(v, s, in, handler) ELSE v
  OBVIOUS
<1>5. Fine(w, {}, P, F, b)
  <2>1. CASE in # << >>
    <3>1. w = ServeNextRequest(v, s, in, handler)
      BY <1>4, <2>1
    <3>2. Fine(w, {}, P, (F \cup {s}) \ {s}, b)
      BY <1>2, <3>1, ServeNextRequestDoes
    <3> QED
      BY <3>2, FineMore
  <2>2. CASE in = << >>
    <3>1. w = v /\ CaredFor(v.conn[s])
      BY <1>3, <1>4, <2>2 DEF CaredFor, NextFrame
    <3>2. Fine(w, {}, P, (F \cup {s}) \ {s}, b)
      BY <1>2, <3>1, CaredDoes
    <3> QED
      BY <3>2, FineMore
  <2> QED
    BY <2>1, <2>2
<1>6. Fine(CloseConnection(v, s), {}, P, F, b)
  <2>1. Fine(CloseConnection(v, s), {}, P, (F \cup {s}) \ {s}, b)
    BY <1>2, CloseConnectionDoes
  <2> QED
    BY <2>1, FineMore
<1>7. Fine(ArmRecv(w, s), {}, P, F, b)
  BY <1>5, ArmRecvDoes
<1>8. AfterResponse(u, s, last, handler) \in {CloseConnection(v, s), ArmRecv(w, s), w}
  <2>1. CASE last
    BY <1>1, <2>1 DEF AfterResponse
  <2>2. CASE ~last
    BY <1>1, <1>3, <1>4, <2>2 DEF AfterResponse
  <2> QED
    BY <2>1, <2>2
<1> QED
  BY <1>5, <1>6, <1>7, <1>8

\* A ticket that comes back is free, or has the rest of its response to send.
LEMMA HandleSendDoes ==
  ASSUME NEW u, NEW P, NEW b, Fine(u, {}, P, {}, b), NEW e, e.ticket \in P, NEW handler
  PROVE  Fine(HandleSendCompletion(u, e, handler), {}, P \ {e.ticket}, {}, b)
<1>1. PICK t \in P : t = e.ticket
  OBVIOUS
<1>2. u \in States /\ t \in Tickets
  BY FineIs DEF Fine, Accounted
<1>3. PICK k \in TicketStates : k = u.ticket[t]
  BY <1>2, StatesAre
<1>4. PICK s \in Slots : s = k.slot
  BY <1>3 DEF Fine, Accounted
<1>5. PICK last \in BOOLEAN : last = k.closeWhenWritten
  BY DEF TicketStates
<1>6. PICK theirs : theirs = (u.conn[s].inUse /\ u.conn[s].generation = k.generation)
  OBVIOUS
<1>7. PICK v, Q : v = ReleaseSendTicket(u, t) /\ Q = P \ {t}
  OBVIOUS
<1>8. Fine(v, {}, Q, {}, b)
  <2>1. t \in {} \cup P
    OBVIOUS
  <2>2. Fine(v, {} \ {t}, P \ {t}, {}, b)
    BY <1>7, <2>1, ReleaseDoes
  <2>3. {} \ {t} = {}
    OBVIOUS
  <2> QED
    BY <1>7, <2>2, <2>3
<1>9. CASE e.res = "error"
  <2>1. PICK x : x = [v EXCEPT !.conn[s].sendInFlight = FALSE]
    BY ZenonT(30)
  <2>2. HandleSendCompletion(u, e, handler) = IF theirs THEN CloseConnection(x, s) ELSE v
    BY <1>1, <1>3, <1>4, <1>6, <1>7, <1>9, <2>1, ZenonT(30) DEF HandleSendCompletion
  <2>3. Fine(x, {}, Q, {} \cup {s}, b)
    BY <1>8, <2>1, SentDoes
  <2>4. Fine(CloseConnection(x, s), {}, Q, ({} \cup {s}) \ {s}, b)
    BY <2>3, CloseConnectionDoes
  <2>5. Fine(CloseConnection(x, s), {}, Q, {}, b)
    BY <2>4, FineMore
  <2> QED
    BY <1>1, <1>7, <1>8, <2>2, <2>5
<1>10. CASE e.res = "part"
  <2>1. PICK x : x = [u EXCEPT !.sends = @ \cup {t}]
    BY ZenonT(30)
  <2>2. HandleSendCompletion(u, e, handler) = IF theirs THEN x ELSE v
    BY <1>1, <1>3, <1>4, <1>6, <1>7, <1>10, <2>1, ZenonT(30) DEF HandleSendCompletion
  <2>3. Fine(x, {}, Q, {}, b)
    BY <1>7, <2>1, SendRest
  <2> QED
    BY <1>1, <1>7, <1>8, <2>2, <2>3
<1>11. CASE e.res # "error" /\ e.res # "part"
  <2>1. PICK w : w = IF theirs THEN AfterResponse(v, s, last, handler) ELSE v
    OBVIOUS
  <2>2. Fine(w, {}, Q, {}, b)
    BY <1>8, <2>1, AfterResponseDoes
  <2>3. PICK x, r : x = TakeNextWaiting(w).u /\ r = TakeNextWaiting(w).slot
    OBVIOUS
  <2>4. /\ r \in Links
        /\ r = NoSlot => Fine(x, {}, Q, {}, b)
        /\ r # NoSlot => Fine(x, {}, Q, {} \cup {r}, b)
    BY <2>2, <2>3, TakeNextDoes
  <2>5. PICK c : c = x.conn[r]
    BY SMTT(30)
  <2>6. HandleSendCompletion(u, e, handler) =
          IF r = NoSlot \/ c.sendInFlight \/ c.in = << >> THEN x
          ELSE ServeNextRequest(x, r, c.in, handler)
    BY <1>1, <1>3, <1>4, <1>5, <1>6, <1>7, <1>11, <2>1, <2>3, <2>5, ZenonT(30) DEF HandleSendCompletion
  <2>7. CASE r = NoSlot
    BY <1>1, <1>7, <2>4, <2>6, <2>7
  <2>8. CASE r # NoSlot
    <3>1. r \in Slots /\ Fine(x, {}, Q, {} \cup {r}, b)
      BY <2>4, <2>8 DEF Links
    <3>2. c.in \in Bytes
      BY <2>5, <3>1, FineIs, ConnIs
    <3>3. CASE c.sendInFlight \/ c.in = << >>
      <4>1. CaredFor(c)
        BY <3>3 DEF CaredFor, NextFrame
      <4>2. Fine(x, {}, Q, ({} \cup {r}) \ {r}, b)
        BY <2>5, <3>1, <4>1, CaredDoes
      <4>3. Fine(x, {}, Q, {}, b)
        BY <4>2, FineMore
      <4> QED
        BY <1>1, <1>7, <2>6, <3>3, <4>3
    <3>4. CASE ~(c.sendInFlight \/ c.in = << >>)
      <4>1. PICK y : y = ServeNextRequest(x, r, c.in, handler)
        OBVIOUS
      <4>2. Fine(y, {}, Q, ({} \cup {r}) \ {r}, b)
        BY <3>1, <3>2, <4>1, ServeNextRequestDoes
      <4>3. Fine(y, {}, Q, {}, b)
        BY <4>2, FineMore
      <4> QED
        BY <1>1, <1>7, <2>6, <2>8, <3>4, <4>1, <4>3
    <3> QED
      BY <3>3, <3>4
  <2> QED
    BY <2>7, <2>8
<1> QED
  BY <1>9, <1>10, <1>11

\* An answer that was owed, to whom it is owed.
LEMMA SendDeferredDoes ==
  ASSUME NEW u, NEW P, NEW b, Fine(u, {}, P, {}, b), NEW token \in Tokens, NEW outcome,
         Owed(u, token) => FreeTickets(u) # {}
  PROVE  Fine(SendDeferred(u, token, outcome), {}, P, {}, b)
<1>1. PICK s \in Slots, req \in Asks : s = token.slot /\ req = token.req
  BY DEF Tokens
<1>2. PICK tokens : tokens = u.tokens \ {token}
  OBVIOUS
<1>3. PICK v : v = [u EXCEPT !.tokens = tokens]
  OBVIOUS
<1>4. Fine(v, {}, P, {}, b) /\ v.conn = u.conn /\ v.ticket = u.ticket
  <2>1. u \in States /\ tokens \in SUBSET Tokens
    BY <1>2, FineIs, StatesAre
  <2>2. v \in States /\ v.conn = u.conn /\ SameQueues(u, v) /\ SameTickets(u, v)
        /\ v.buffers = u.buffers
    BY <1>3, <2>1, StatesAre DEF States, SameQueues, SameTickets
  <2> QED
    BY <2>2, NothingDoes DEF SameTickets
<1>5. v.conn[s] \in Connections /\ v \in States
  BY <1>4, FineIs, ConnIs
<1>6. PICK d : d = [v.conn[s] EXCEPT !.deferred = FALSE]
  OBVIOUS
<1>7. d \in Connections /\ SamePlace(v.conn[s], d)
  BY <1>5, <1>6 DEF Connections, SamePlace
<1>8. PICK w : w = Put(v, s, d)
  OBVIOUS
<1>9. Fine(w, {}, P, {} \cup {s}, b)
  BY <1>4, <1>7, <1>8, PutDoes
<1>10. w = [v EXCEPT !.conn[s].deferred = FALSE]
  BY <1>5, <1>6, <1>8, StatesAre DEF Put, States
<1>11. FreeTickets(w) = FreeTickets(u)
  BY <1>4, <1>5, <1>8 DEF Put, States, FreeTickets
<1>12. CASE ~Owed(u, token)
  <2>1. SendDeferred(u, token, outcome) = v
    BY <1>1, <1>2, <1>3, <1>12 DEF SendDeferred
  <2> QED
    BY <1>4, <2>1
<1>13. CASE Owed(u, token) /\ outcome = "fail"
  <2>1. SendDeferred(u, token, outcome) = SendStatusAndClose(w, s)
    BY <1>1, <1>2, <1>3, <1>10, <1>13 DEF SendDeferred
  <2>2. Fine(SendStatusAndClose(w, s), {}, P, ({} \cup {s}) \ {s}, b)
    BY <1>9, SendStatusDoes
  <2>3. Fine(SendStatusAndClose(w, s), {}, P, {}, b)
    BY <2>2, FineMore
  <2> QED
    BY <2>1, <2>3
<1>14. CASE Owed(u, token) /\ outcome # "fail"
  <2>1. PICK t \in FreeTickets(u) : t = CHOOSE x \in FreeTickets(u) : TRUE
    BY <1>14
  <2>2. PICK last \in BOOLEAN : last = ~u.conn[s].deferredKeepAlive
    OBVIOUS
  <2>3. SendDeferred(u, token, outcome) = Respond(w, s, t, req, last)
    BY <1>1, <1>2, <1>3, <1>10, <1>14, <2>1, <2>2 DEF SendDeferred
  <2>4. Fine(Respond(w, s, t, req, last), {} \ {t}, P, ({} \cup {s}) \ {s}, b)
    BY <1>9, <1>11, <2>1, RespondDoes
  <2>5. {} \ {t} = {}
    OBVIOUS
  <2>6. Fine(Respond(w, s, t, req, last), {}, P, {}, b)
    BY <2>4, <2>5, FineMore
  <2> QED
    BY <2>3, <2>6
<1> QED
  BY <1>12, <1>13, <1>14

-----------------------------------------------------------------------------
(* The completion queue *)

LEMMA PlacesAre ==
  ASSUME NEW q \in Seq(Completions)
  PROVE  IsFiniteSet(Places(q)) /\ Cardinality(Places(q)) \in Nat
<1>1. Places(q) \in SUBSET (1 .. Len(q)) /\ Len(q) \in Nat
  BY LenProperties DEF Places
<1>2. IsFiniteSet(1 .. Len(q))
  BY <1>1, FS_Interval
<1>3. IsFiniteSet(Places(q))
  BY <1>1, <1>2, FS_Subset, Zenon
<1> QED
  BY <1>3, FS_CardinalityType, Zenon

\* A completion is posted.
LEMMA Posted ==
  ASSUME NEW q \in Seq(Completions), NEW e \in Completions, NEW r, r = Append(q, e)
  PROVE  /\ r \in Seq(Completions)
         /\ e.op = "send" => Returning(r) = Returning(q) \cup {e.ticket}
         /\ e.op # "send" => Returning(r) = Returning(q)
         /\ OncePerTicket(q) /\ (e.op = "send" => e.ticket \notin Returning(q)) => OncePerTicket(r)
         /\ e \in Filled => Cardinality(Places(r)) = Cardinality(Places(q)) + 1
         /\ e \notin Filled => Cardinality(Places(r)) = Cardinality(Places(q))
<1>1. PICK n \in Nat : n = Len(q)
  BY LenProperties
<1>2. /\ r \in Seq(Completions) /\ DOMAIN q = 1 .. n /\ DOMAIN r = 1 .. n + 1
      /\ r[n + 1] = e /\ \A i \in 1 .. n : r[i] = q[i]
  BY <1>1, AppendProperties, LenProperties
<1>3. e.op = "send" => Returning(r) = Returning(q) \cup {e.ticket}
  BY <1>2 DEF Returning
<1>4. e.op # "send" => Returning(r) = Returning(q)
  BY <1>2 DEF Returning
<1>5. ASSUME OncePerTicket(q), e.op = "send" => e.ticket \notin Returning(q)
      PROVE  OncePerTicket(r)
  <2>1. \A i \in 1 .. n : q[i].op = "send" /\ e.op = "send" => q[i].ticket # e.ticket
    BY <1>2, <1>5 DEF Returning
  <2>2. \A i, j \in 1 .. n :
          q[i].op = "send" /\ q[j].op = "send" /\ q[i].ticket = q[j].ticket => i = j
    BY <1>2, <1>5 DEF OncePerTicket
  <2>3. \A i \in 1 .. n + 1 : i \in 1 .. n \/ i = n + 1
    BY <1>1
  <2>4. ASSUME NEW i \in 1 .. n + 1, NEW j \in 1 .. n + 1, r[i].op = "send", r[j].op = "send",
               r[i].ticket = r[j].ticket
        PROVE  i = j
    BY <1>2, <2>1, <2>2, <2>3, <2>4
  <2> QED
    BY <1>2, <2>4, Zenon DEF OncePerTicket
<1>6. IsFiniteSet(Places(q)) /\ n + 1 \notin Places(q)
  BY <1>2, PlacesAre DEF Places
<1>7. Cardinality(Places(q) \cup {n + 1}) = Cardinality(Places(q)) + 1
  BY <1>6, FS_AddElement
<1>8. e \in Filled => Places(r) = Places(q) \cup {n + 1}
  BY <1>2 DEF Places
<1>9. e \notin Filled => Places(r) = Places(q)
  BY <1>2 DEF Places
<1> QED
  BY <1>2, <1>3, <1>4, <1>5, <1>7, <1>8, <1>9

\* A completion is read.
LEMMA Read ==
  ASSUME NEW q \in Seq(Completions), q # << >>, NEW e, e = Head(q), NEW r, r = Tail(q)
  PROVE  /\ e \in Completions /\ r \in Seq(Completions)
         /\ e.op = "send" => e.ticket \in Returning(q)
         /\ e.op = "send" /\ OncePerTicket(q) => Returning(r) = Returning(q) \ {e.ticket}
         /\ e.op # "send" => Returning(r) = Returning(q)
         /\ OncePerTicket(q) => OncePerTicket(r)
         /\ e \in Filled => Cardinality(Places(q)) = Cardinality(Places(r)) + 1
         /\ e \notin Filled => Cardinality(Places(q)) = Cardinality(Places(r))
<1>1. PICK n \in Nat : n + 1 = Len(q)
  <2>1. Len(q) \in Nat \ {0}
    BY EmptySeq, LenProperties
  <2>2. Len(q) - 1 \in Nat /\ (Len(q) - 1) + 1 = Len(q)
    BY <2>1
  <2> QED
    BY <2>2
<1>2. /\ r \in Seq(Completions) /\ DOMAIN q = 1 .. n + 1 /\ DOMAIN r = 1 .. n
      /\ e = q[1] /\ e \in Completions
  BY <1>1, HeadTailProperties, LenProperties
<1>3. \A i \in 1 .. n : r[i] = q[i + 1]
  BY <1>1, HeadTailProperties, LenProperties
<1>4. /\ \A i \in 1 .. n + 1 : i = 1 \/ (i - 1 \in 1 .. n /\ (i - 1) + 1 = i)
      /\ \A i \in 1 .. n : i + 1 \in 1 .. n + 1 /\ i + 1 # 1
  BY <1>1
<1>5. e.op = "send" => e.ticket \in Returning(q)
  <2>1. 1 \in DOMAIN q
    BY <1>1, <1>2
  <2> QED
    BY <1>2, <2>1 DEF Returning
<1>6. Returning(r) \subseteq Returning(q)
  BY <1>2, <1>3, <1>4 DEF Returning
<1>7. \A t \in Returning(q) : t \in Returning(r) \/ (e.op = "send" /\ t = e.ticket)
  <2>1. ASSUME NEW i \in DOMAIN q, q[i].op = "send"
        PROVE  q[i].ticket \in Returning(r) \/ (e.op = "send" /\ q[i].ticket = e.ticket)
    <3>1. CASE i = 1
      BY <1>2, <2>1, <3>1
    <3>2. CASE i # 1
      <4>1. i - 1 \in DOMAIN r /\ r[i - 1] = q[i]
        BY <1>2, <1>3, <1>4, <3>2
      <4> QED
        BY <2>1, <4>1 DEF Returning
    <3> QED
      BY <3>1, <3>2
  <2> QED
    BY <2>1 DEF Returning
<1>8. e.op = "send" /\ OncePerTicket(q) => e.ticket \notin Returning(r)
  <2>1. ASSUME e.op = "send", OncePerTicket(q), NEW i \in DOMAIN r, r[i].op = "send",
               r[i].ticket = e.ticket
        PROVE  FALSE
    <3>1. 1 \in DOMAIN q /\ i + 1 \in DOMAIN q /\ i + 1 # 1 /\ q[i + 1] = r[i]
      BY <1>2, <1>3, <1>4
    <3> QED
      BY <1>2, <2>1, <3>1 DEF OncePerTicket
  <2> QED
    BY <2>1 DEF Returning
<1>9. OncePerTicket(q) => OncePerTicket(r)
  <2>1. ASSUME OncePerTicket(q), NEW i \in DOMAIN r, NEW j \in DOMAIN r, r[i].op = "send",
               r[j].op = "send", r[i].ticket = r[j].ticket
        PROVE  i = j
    <3>1. i + 1 \in DOMAIN q /\ j + 1 \in DOMAIN q /\ q[i + 1] = r[i] /\ q[j + 1] = r[j]
      BY <1>2, <1>3, <1>4
    <3>2. i + 1 = j + 1
      BY <2>1, <3>1 DEF OncePerTicket
    <3> QED
      BY <1>2, <3>2
  <2> QED
    BY <2>1, Zenon DEF OncePerTicket
<1>10. IsFiniteSet(Places(q)) /\ IsFiniteSet(Places(r))
       /\ Cardinality(Places(q)) \in Nat /\ Cardinality(Places(r)) \in Nat
  BY <1>2, PlacesAre
<1>11. Cardinality(Places(q) \ {1}) = Cardinality(Places(r))
  <2> DEFINE next == [i \in Places(r) |-> i + 1]
  <2>1. next \in [Places(r) -> Places(q) \ {1}]
    BY <1>2, <1>3, <1>4 DEF Places
  <2>2. \A i, j \in Places(r) : next[i] = next[j] => i = j
    BY <1>2 DEF Places
  <2>3. ASSUME NEW j \in Places(q) \ {1} PROVE \E i \in Places(r) : next[i] = j
    <3>1. j - 1 \in Places(r) /\ (j - 1) + 1 = j
      BY <1>2, <1>3, <1>4 DEF Places
    <3> QED
      BY <3>1
  <2>4. next \in Bijection(Places(r), Places(q) \ {1})
    BY <2>1, <2>2, <2>3 DEF Bijection, Injection, Surjection, IsInjective
  <2> HIDE DEF next
  <2> QED
    BY <1>10, <2>4, FS_Bijection DEF ExistsBijection
<1>12. Cardinality(Places(q) \ {1}) =
         IF 1 \in Places(q) THEN Cardinality(Places(q)) - 1 ELSE Cardinality(Places(q))
  BY <1>10, FS_RemoveElement
<1>13. 1 \in Places(q) <=> e \in Filled
  BY <1>2, <1>4 DEF Places
<1>14. e \in Filled => Cardinality(Places(q)) = Cardinality(Places(r)) + 1
  BY <1>10, <1>11, <1>12, <1>13
<1>15. e \notin Filled => Cardinality(Places(q)) = Cardinality(Places(r))
  BY <1>10, <1>11, <1>12, <1>13
<1> QED
  BY <1>2, <1>5, <1>6, <1>7, <1>8, <1>9, <1>14, <1>15

-----------------------------------------------------------------------------
(* What a client will send *)

LEMMA FlattenBytes ==
  ASSUME NEW seqs \in Seq(Bytes)
  PROVE  FlattenSeq(seqs) \in Bytes
<1>1. PICK L \in Nat : L = Len(seqs)
  BY LenProperties
<1>2. \A i \in 1 .. L : seqs[i] \in Bytes
  BY <1>1, LenProperties
<1>3. CASE L = 0
  <2>1. seqs = << >> /\ FlattenSeq(seqs) = seqs
    BY <1>1, <1>3, EmptySeq DEF FlattenSeq
  <2>2. << >> \in Bytes
    BY DEF Bytes
  <2> QED
    BY <2>1, <2>2, Zenon
<1>4. CASE L # 0
  <2>1. PICK N \in Nat : N = L - 1
    BY <1>4
  <2> DEFINE U == Bytes
             D == [n \in 0 .. N |-> U]
             G == [p \in (1 .. N) \X U |-> p[2] \o seqs[p[1] + 1]]
             Is(f) == f = [i \in 1 .. L |-> IF i = 1 THEN seqs[i] ELSE f[i - 1] \o seqs[i]]
             flatten == CHOOSE f : Is(f)
  <2>2. \A n \in 1 .. N : \A x \in U : x \o seqs[n + 1] \in U
    <3>1. \A n \in 1 .. N : n + 1 \in 1 .. L
      BY <2>1
    <3> QED
      BY <1>2, <3>1, BothBytes
  <2>3. seqs[1] \in U
    BY <1>2, <1>4
  <2> HIDE DEF U
  <2>4. \E f : Is(f)
    <3>1. \A n \in 1 .. N : \A x \in D[n - 1] : G[<< n, x >>] \in D[n]
      BY <2>1, <2>2
    <3>2. seqs[1] \in D[0] /\ \A n \in 0 .. N : D[n] \subseteq U
      BY <2>1, <2>3
    <3>3. \A n \in 1 .. N : \A x \in U : G[<< n, x >>] = x \o seqs[n + 1]
      OBVIOUS
    <3> HIDE DEF D, G
    <3>4. Leads(N, U, D, G, seqs[1])
      BY <3>1, <3>2 DEF Leads
    <3>5. PICK f \in [0 .. N -> U] : Recurs(f, N, D, G, seqs[1])
      BY <2>1, <3>4, Recursion
    <3> DEFINE g == [i \in 1 .. L |-> f[i - 1]]
    <3>6. g[1] = seqs[1]
      BY <1>4, <3>5 DEF Recurs
    <3>7. ASSUME NEW i \in 1 .. L, i # 1 PROVE g[i] = g[i - 1] \o seqs[i]
      <4>1. /\ i - 1 \in 1 .. N /\ (i - 1) - 1 \in 0 .. N /\ i - 1 \in 1 .. L
            /\ (i - 1) + 1 = i
        BY <2>1, <3>7
      <4>2. f[(i - 1) - 1] \in U
        BY <4>1
      <4>3. f[i - 1] = G[<< i - 1, f[(i - 1) - 1] >>]
        BY <3>5, <4>1 DEF Recurs
      <4>4. G[<< i - 1, f[(i - 1) - 1] >>] = f[(i - 1) - 1] \o seqs[(i - 1) + 1]
        BY <3>3, <4>1, <4>2, Zenon
      <4>5. g[i] = f[i - 1] /\ g[i - 1] = f[(i - 1) - 1]
        BY <4>1
      <4> HIDE DEF g
      <4> QED
        BY <4>1, <4>3, <4>4, <4>5
    <3>8. g = [i \in 1 .. L |-> g[i]]
      OBVIOUS
    <3> HIDE DEF g
    <3>9. Is(g)
      BY <3>6, <3>7, <3>8, SMTT(30)
    <3> QED
      BY <3>9
  <2>5. Is(flatten)
    BY <2>4, ZenonT(30)
  <2>6. FlattenSeq(seqs) = flatten[L]
    BY <1>1, <1>4 DEF FlattenSeq
  <2> HIDE DEF flatten
  <2>7. /\ flatten[1] = seqs[1]
        /\ \A i \in 1 .. L : i # 1 => flatten[i] = flatten[i - 1] \o seqs[i]
    <3>1. \A i \in 1 .. L : flatten[i] = IF i = 1 THEN seqs[i] ELSE flatten[i - 1] \o seqs[i]
      BY <2>5, Zenon
    <3>2. 1 \in 1 .. L
      BY <1>4
    <3> HIDE DEF Is
    <3> QED
      BY <3>1, <3>2
  <2> DEFINE Good == {n \in 0 .. N : flatten[n + 1] \in U}
  <2>8. 0 \in Good
    BY <2>1, <2>3, <2>7
  <2>9. ASSUME NEW n \in 1 .. N, n - 1 \in Good PROVE n \in Good
    <3>1. n + 1 \in 1 .. L /\ n + 1 # 1 /\ (n + 1) - 1 = n /\ (n - 1) + 1 = n /\ n \in 0 .. N
      BY <2>1
    <3>2. flatten[n] \in U
      BY <2>9, <3>1
    <3>3. flatten[n + 1] = flatten[n] \o seqs[n + 1]
      BY <2>7, <3>1
    <3> QED
      BY <2>2, <3>1, <3>2, <3>3
  <2>10. \A n \in 0 .. N : n \in Good
    <3> HIDE DEF Good
    <3> QED
      BY <2>1, <2>8, <2>9, Upwards
  <2>11. N \in 0 .. N /\ N + 1 = L
    BY <2>1
  <2> QED
    BY <2>6, <2>10, <2>11 DEF U
<1> QED
  BY <1>3, <1>4

LEMMA RequestIs ==
  ASSUME NEW req \in Asks, NEW kind \in RequestKinds
  PROVE  Request(req, kind) \in Bytes
<1>1. PICK n \in Nat : n = Size(kind)
  BY RingAssumption DEF RingAssumption, Size
<1>2. \A at \in 1 .. n : [req |-> req, kind |-> kind, at |-> at] \in Units
  BY DEF Units
<1>3. [at \in 1 .. n |-> [req |-> req, kind |-> kind, at |-> at]] \in Seq(Units)
  BY <1>2
<1> QED
  BY <1>1, <1>3 DEF Request, Bytes

LEMMA ScriptIs ==
  ASSUME NEW next \in DOMAIN Scripts, NEW script \in Scripts[next], NEW s \in Slots,
         NEW g \in Nat
  PROVE  FlattenSeq([n \in DOMAIN script |-> Request(RequestOf(s, g, n), script[n])]) \in Bytes
<1>1. script \in Seq(RequestKinds)
  BY RingAssumption DEF RingAssumption
<1>2. PICK N \in Nat : N = Len(script) /\ DOMAIN script = 1 .. N
  BY <1>1, LenProperties
<1>3. \A n \in 1 .. N : script[n] \in RequestKinds /\ RequestOf(s, g, n) \in Asks
  BY <1>1, <1>2 DEF RequestOf, Asks
<1>4. \A n \in 1 .. N : Request(RequestOf(s, g, n), script[n]) \in Bytes
  BY <1>3, RequestIs
<1>5. [n \in 1 .. N |-> Request(RequestOf(s, g, n), script[n])] \in Seq(Bytes)
  BY <1>4
<1> QED
  BY <1>2, <1>5, FlattenBytes

-----------------------------------------------------------------------------
(* The ring and its kernel *)

LEMMA RingIs ==
  ASSUME RingInv
  PROVE  /\ st \in States /\ st.buffers \in Nat /\ Tidy(st, {}, st.buffers)
         /\ Accounted(st, {}, Returning(cq))
         /\ cq \in Seq(Completions) /\ Cardinality(Places(cq)) \in Nat
<1>1. st \in States /\ cq \in Seq(Completions)
  BY FineIs DEF RingInv
<1>2. st.buffers \in Nat
  BY <1>1, StatesAre
<1>3. Cardinality(Places(cq)) \in Nat
  BY <1>1, PlacesAre
<1> QED
  BY <1>1, <1>2, <1>3 DEF RingInv, Fine

LEMMA InitRing ==
  ASSUME Init
  PROVE  RingInv
<1>1. PICK conn : conn = [s \in Slots |-> FreeConnection]
  OBVIOUS
<1>2. FreeConnection \in Connections /\ CaredFor(FreeConnection)
      /\ ~FreeConnection.waitingForTicket /\ ~FreeConnection.waitingForRearm
  <2>1. << >> \in Bytes /\ NoSlot \in Links
    BY DEF Bytes, Links
  <2>2. FreeConnection \in Connections
    <3> HIDE DEF Bytes, Links
    <3> QED
      BY <2>1 DEF FreeConnection, Connections
  <2> QED
    BY <2>2 DEF FreeConnection, CaredFor
<1>3. conn \in [Slots -> Connections] /\ \A s \in Slots : conn[s] = FreeConnection
  BY <1>1, <1>2
<1>4. PICK ticket : ticket = [t \in Tickets |-> FreeTicket]
  OBVIOUS
<1>5. ticket \in [Tickets -> TicketStates] /\ \A t \in Tickets : ~ticket[t].busy
  BY <1>4, FreeTicketTyped
<1>6. PICK recvs : recvs = [s \in Slots |-> << >>]
  OBVIOUS
<1>7. recvs \in [Slots -> Seq(Nat)]
  BY <1>6
<1>8. st = [conn |-> conn, waitingHead |-> NoSlot, waitingTail |-> NoSlot,
            rearmHead |-> NoSlot, rearmTail |-> NoSlot, ticket |-> ticket,
            batch |-> << >>, tokens |-> {}, recvs |-> recvs, sends |-> {},
            closes |-> {}, buffers |-> Buffers]
  BY <1>1, <1>4, <1>6 DEF Init
<1>9. NoSlot \in Links /\ Buffers \in Nat /\ << >> \in Seq(BatchEntries)
  BY RingAssumption DEF RingAssumption, Links
<1>10. st \in States
  BY <1>3, <1>5, <1>7, <1>8, <1>9 DEF States
<1>11. ASSUME NEW next PROVE QueueIntact(NoSlot, NoSlot, {}, next)
  <2>1. IsQueue(<< >>, 0, NoSlot, NoSlot, {}, next)
    <3>1. << >> \in [1 .. 0 -> {}] /\ \A i \in 1 .. 0 : FALSE
      OBVIOUS
    <3> QED
      BY <3>1 DEF IsQueue
  <2> QED
    BY <2>1, QueueIsIntact
<1>12. {s \in Slots : st.conn[s].waitingForTicket} = {}
       /\ {s \in Slots : st.conn[s].waitingForRearm} = {}
       /\ {s \in Slots : ~CaredFor(st.conn[s])} = {}
  BY <1>2, <1>3, <1>8
<1>13. TicketQueueIntact(st)
  BY <1>8, <1>11, <1>12 DEF TicketQueueIntact
<1>14. RearmQueueIntact(st)
  BY <1>8, <1>11, <1>12 DEF RearmQueueIntact
<1>15. Tidy(st, {}, st.buffers)
  BY <1>10, <1>12, <1>13, <1>14 DEF Tidy
<1>16. cq = << >> /\ Returning(cq) = {} /\ Places(cq) = {} /\ OncePerTicket(cq)
  BY DEF Init, Returning, Places, OncePerTicket
<1>17. Accounted(st, {}, Returning(cq))
  <2>1. st.sends = {} /\ {t \in Tickets : st.ticket[t].busy} = {}
    BY <1>5, <1>8
  <2> QED
    BY <1>16, <2>1 DEF Accounted
<1>18. Cardinality(Places(cq)) = 0 /\ st.buffers = Buffers
  BY <1>8, <1>16, FS_EmptySet
<1>19. cq \in Seq(Completions)
  BY <1>16
<1>20. stream \in [Slots -> Bytes]
  <2>1. << >> \in Bytes
    BY DEF Bytes
  <2> HIDE DEF Bytes
  <2> QED
    BY <2>1 DEF Init
<1> QED
  BY <1>9, <1>15, <1>16, <1>17, <1>18, <1>19, <1>20 DEF RingInv, Fine

LEMMA DrainRingKeeps ==
  ASSUME RingInv, DrainRing
  PROVE  RingInv'
<1>1. PICK handler : st' = Handle(st, Head(cq), handler)
  BY DEF DrainRing
<1>2. PICK e, r : e = Head(cq) /\ r = Tail(cq)
  OBVIOUS
<1>3. cq # << >> /\ cq' = r /\ stream' = stream
  BY <1>2 DEF DrainRing, client
<1>4. cq \in Seq(Completions) /\ OncePerTicket(cq)
  BY DEF RingInv
<1>5. /\ e \in Completions /\ r \in Seq(Completions)
      /\ e.op = "send" => e.ticket \in Returning(cq)
      /\ e.op = "send" => Returning(r) = Returning(cq) \ {e.ticket}
      /\ e.op # "send" => Returning(r) = Returning(cq)
      /\ OncePerTicket(r)
      /\ e \in Filled => Cardinality(Places(cq)) = Cardinality(Places(r)) + 1
      /\ e \notin Filled => Cardinality(Places(cq)) = Cardinality(Places(r))
  BY <1>2, <1>3, <1>4, Read
<1>6. PICK b, P : b = st.buffers /\ P = Returning(cq)
  OBVIOUS
<1>7. Fine(st, {}, P, {}, b) /\ b \in Nat /\ Cardinality(Places(cq)) \in Nat
      /\ b + Cardinality(Places(cq)) = Buffers /\ Cardinality(Places(r)) \in Nat
  BY <1>5, <1>6, RingIs, PlacesAre DEF RingInv
<1>8. ASSUME NEW d, Fine(st', {}, Returning(r), {}, d), d + Cardinality(Places(r)) = Buffers
      PROVE  RingInv'
  <2>1. st'.buffers = d
    BY <1>8 DEF Fine, Tidy
  <2>2. stream' \in [Slots -> Bytes]
    BY <1>3 DEF RingInv
  <2>3. /\ cq' \in Seq(Completions) /\ OncePerTicket(cq')
        /\ Fine(st', {}, Returning(cq'), {}, st'.buffers)
        /\ st'.buffers + Cardinality(Places(cq')) = Buffers
    BY <1>3, <1>5, <1>8, <2>1
  <2> QED
    BY <2>2, <2>3 DEF RingInv
<1>9. CASE e.op = "accept"
  <2>1. e.slot \in Slots /\ e \notin Filled
    BY <1>5, <1>9 DEF Completions, Accepts, Recvs, Sent, Filled
  <2>2. st' = HandleAcceptCompletion(st, e)
    BY <1>1, <1>2, <1>9 DEF Handle
  <2>3. Fine(st', {}, P, {}, b)
    BY <1>7, <2>1, <2>2, HandleAcceptDoes
  <2>4. Returning(r) = P /\ b + Cardinality(Places(r)) = Buffers
    BY <1>5, <1>6, <1>7, <1>9, <2>1
  <2> QED
    BY <1>8, <2>3, <2>4
<1>10. CASE e.op = "recv"
  <2>1. e \in Recvs
    BY <1>5, <1>10 DEF Completions, Accepts, Sent
  <2>2. /\ e.slot \in Slots /\ e.data \in Bytes /\ (e.data # << >> <=> e.res = "data")
        /\ e.res \in {"data", "ENOBUFS", "end", "canceled"}
    BY <2>1 DEF Recvs
  <2>3. st' = HandleRecvCompletion(st, e, handler)
    BY <1>1, <1>2, <1>10 DEF Handle
  <2>4. /\ e.data # << >> => Fine(st', {}, P, {}, b + 1)
        /\ e.data = << >> => Fine(st', {}, P, {}, b)
    BY <1>7, <2>2, <2>3, HandleRecvDoes
  <2>5. Returning(r) = P /\ (e \in Filled <=> e.data # << >>)
    BY <1>5, <1>6, <1>10 DEF Filled
  <2>6. CASE e.data # << >>
    <3>1. (b + 1) + Cardinality(Places(r)) = Buffers
      BY <1>5, <1>7, <2>5, <2>6
    <3> QED
      BY <1>8, <2>4, <2>5, <2>6, <3>1
  <2>7. CASE e.data = << >>
    <3>1. b + Cardinality(Places(r)) = Buffers
      BY <1>5, <1>7, <2>5, <2>7
    <3> QED
      BY <1>8, <2>4, <2>5, <2>7, <3>1
  <2> QED
    BY <2>6, <2>7
<1>11. CASE e.op = "send"
  <2>1. e.ticket \in P /\ Returning(r) = P \ {e.ticket} /\ e \notin Filled
    BY <1>5, <1>6, <1>11 DEF Filled
  <2>2. st' = HandleSendCompletion(st, e, handler)
    BY <1>1, <1>2, <1>11 DEF Handle
  <2>3. Fine(st', {}, P \ {e.ticket}, {}, b)
    BY <1>7, <2>1, <2>2, HandleSendDoes
  <2>4. b + Cardinality(Places(r)) = Buffers
    BY <1>5, <1>7, <2>1
  <2> QED
    BY <1>8, <2>1, <2>3, <2>4
<1> QED
  BY <1>5, <1>9, <1>10, <1>11 DEF Completions, Accepts, Recvs, Sent

LEMMA EndOfPassKeeps ==
  ASSUME RingInv, EndOfPass
  PROVE  RingInv'
<1>1. PICK handler : st' = FlushBatch(st, handler)
  BY DEF EndOfPass
<1>2. PICK b, P : b = st.buffers /\ P = Returning(cq)
  OBVIOUS
<1>3. Fine(st, {}, P, {}, b)
  BY <1>2 DEF RingInv
<1>4. Fine(st', {}, P, {}, b)
  BY <1>1, <1>3, FlushBatchDoes
<1>5. cq' = cq /\ stream' = stream /\ st'.buffers = st.buffers
  BY <1>2, <1>4 DEF EndOfPass, client, Fine, Tidy
<1> QED
  BY <1>2, <1>4, <1>5 DEF RingInv

LEMMA NotifiedKeeps ==
  ASSUME RingInv, Notified
  PROVE  RingInv'
<1>1. PICK token \in st.tokens, outcome \in Outcomes :
        /\ Owed(st, token) => FreeTickets(st) # {}
        /\ st' = SendDeferred(st, token, outcome)
  BY DEF Notified
<1>2. PICK b, P : b = st.buffers /\ P = Returning(cq)
  OBVIOUS
<1>3. Fine(st, {}, P, {}, b) /\ token \in Tokens
  BY <1>2, RingIs, StatesAre DEF RingInv
<1>4. Fine(st', {}, P, {}, b)
  BY <1>1, <1>3, SendDeferredDoes
<1>5. cq' = cq /\ stream' = stream /\ st'.buffers = st.buffers
  BY <1>2, <1>4 DEF Notified, client, Fine, Tidy
<1> QED
  BY <1>2, <1>4, <1>5 DEF RingInv

LEMMA Removed ==
  ASSUME NEW S, NEW q \in Seq(S), NEW i \in DOMAIN q
  PROVE  RemoveAt(q, i) \in Seq(S)
<1>1. PICK n \in Nat : n = Len(q) /\ DOMAIN q = 1 .. n /\ \A j \in 1 .. n : q[j] \in S
  BY LenProperties
<1>2. i \in 1 .. n
  BY <1>1
<1>3. SubSeq(q, 1, i - 1) \in Seq(S)
  <2>1. \A j \in 1 .. i - 1 : q[j] \in S
    BY <1>1, <1>2
  <2> QED
    BY <1>2, <2>1, SubSeqProperties
<1>4. SubSeq(q, i + 1, Len(q)) \in Seq(S)
  <2>1. \A j \in i + 1 .. Len(q) : q[j] \in S
    BY <1>1, <1>2
  <2> QED
    BY <1>1, <1>2, <2>1, SubSeqProperties
<1> QED
  BY <1>3, <1>4, ConcatProperties DEF RemoveAt

LEMMA RecvIs ==
  ASSUME NEW s \in Slots, NEW tag \in Nat, NEW data \in Bytes, NEW more \in BOOLEAN,
         NEW res \in {"data", "ENOBUFS", "end", "canceled"}, data # << >> <=> res = "data",
         NEW e, e = RecvCompletion(s, tag, res, data, more)
  PROVE  e \in Completions /\ e.op # "send" /\ (e \in Filled <=> data # << >>)
<1> HIDE DEF Bytes
<1>1. e \in Recvs /\ e.op = "recv" /\ e.data = data
  BY DEF RecvCompletion, Recvs
<1> QED
  BY <1>1 DEF Completions, Filled

\* The kernel takes what was submitted, or a buffer.
LEMMA KernelDoes ==
  ASSUME NEW u, NEW P, NEW b, Fine(u, {}, P, {}, b), NEW v \in States,
         v.conn = u.conn, SameQueues(u, v), SameTickets(u, v)
  PROVE  Fine(v, {}, P, {}, v.buffers)
<1>1. Tidy(u, {}, b) /\ Accounted(u, {}, P)
  BY DEF Fine
<1> QED
  BY <1>1, RestStep, AccountKept DEF Fine

\* A receive ends without bytes.
LEMMA RecvEndsKeeps ==
  ASSUME RingInv, NEW s \in Slots, NEW i \in DOMAIN st.recvs[s], RecvEnds(s, i),
         NEW res \in {"ENOBUFS", "end", "canceled"},
         cq' = Append(cq, RecvCompletion(s, st.recvs[s][i], res, << >>, FALSE)),
         stream' = stream
  PROVE  RingInv'
<1>1. st \in States /\ st.recvs[s] \in Seq(Nat) /\ cq \in Seq(Completions)
  BY RingIs, StatesAre
<1>2. PICK left \in Seq(Nat), tag \in Nat : left = RemoveAt(st.recvs[s], i) /\ tag = st.recvs[s][i]
  BY <1>1, Removed, ElementOfSeq, LenProperties
<1>3. PICK v : v = [st EXCEPT !.recvs[s] = left]
  OBVIOUS
<1>4. v \in States /\ v.conn = st.conn /\ SameQueues(st, v) /\ SameTickets(st, v)
      /\ v.buffers = st.buffers
  BY <1>1, <1>3, StatesAre DEF States, SameQueues, SameTickets
<1>5. st' = v
  BY <1>2, <1>3 DEF RecvEnds
<1>6. Fine(st', {}, Returning(cq), {}, st'.buffers)
  BY <1>4, <1>5, KernelDoes DEF RingInv
<1>7. PICK e : e = RecvCompletion(s, tag, res, << >>, FALSE)
  OBVIOUS
<1>8. e \in Completions /\ e.op # "send" /\ e \notin Filled
  <2>1. << >> \in Bytes
    BY DEF Bytes
  <2> QED
    BY <1>7, <2>1, RecvIs
<1>9. /\ cq' \in Seq(Completions) /\ Returning(cq') = Returning(cq) /\ OncePerTicket(cq')
      /\ Cardinality(Places(cq')) = Cardinality(Places(cq))
  <2>1. cq' = Append(cq, e)
    BY <1>2, <1>7
  <2> QED
    BY <1>1, <1>8, <2>1, Posted DEF RingInv
<1>10. st'.buffers + Cardinality(Places(cq')) = Buffers
  BY <1>4, <1>5, <1>9 DEF RingInv
<1>11. stream' \in [Slots -> Bytes]
  BY DEF RingInv
<1> QED
  BY <1>6, <1>9, <1>10, <1>11 DEF RingInv

LEMMA KernelAcceptsKeeps ==
  ASSUME RingInv, NEW s \in Slots, KernelAccepts(s)
  PROVE  RingInv'
<1>1. cq \in Seq(Completions) /\ st \in States
  BY RingIs
<1>2. PICK e : e = [op |-> "accept", slot |-> s]
  OBVIOUS
<1>3. e \in Completions /\ e.op # "send" /\ e \notin Filled
  BY <1>2 DEF Completions, Accepts, Filled
<1>4. st' = st /\ cq' = Append(cq, e)
  BY <1>2 DEF KernelAccepts
<1>5. /\ cq' \in Seq(Completions) /\ Returning(cq') = Returning(cq) /\ OncePerTicket(cq')
      /\ Cardinality(Places(cq')) = Cardinality(Places(cq))
  BY <1>1, <1>3, <1>4, Posted DEF RingInv
<1>6. PICK g \in Nat : g = Incarnation(s) + 1
  BY <1>1, ConnIs DEF Incarnation
<1>7. PICK next \in DOMAIN Scripts : \E script \in Scripts[next] :
        stream' = [stream EXCEPT ![s] = FlattenSeq(
                    [n \in DOMAIN script |-> Request(RequestOf(s, g, n), script[n])])]
  BY <1>6 DEF KernelAccepts
<1>8. PICK script \in Scripts[next] :
        stream' = [stream EXCEPT ![s] = FlattenSeq(
                    [n \in DOMAIN script |-> Request(RequestOf(s, g, n), script[n])])]
  BY <1>7
<1>9. PICK bytes \in Bytes : bytes = FlattenSeq(
        [n \in DOMAIN script |-> Request(RequestOf(s, g, n), script[n])])
  BY ScriptIs
<1>10. stream' \in [Slots -> Bytes]
  BY <1>8, <1>9 DEF RingInv
<1> QED
  BY <1>4, <1>5, <1>10 DEF RingInv

LEMMA KernelReceivesKeeps ==
  ASSUME RingInv, NEW s \in Slots, KernelReceives(s)
  PROVE  RingInv'
<1>1. PICK i \in DOMAIN st.recvs[s], n \in 1 .. Len(stream[s]), more \in BOOLEAN :
        /\ cq' = Append(cq, RecvCompletion(s, st.recvs[s][i], "data",
                                           SubSeq(stream[s], 1, n), more))
        /\ st' = [st EXCEPT !.buffers = @ - 1,
                            !.recvs[s] = IF more THEN @ ELSE RemoveAt(@, i)]
        /\ stream' = [stream EXCEPT ![s] = SubSeq(@, n + 1, Len(@))]
  BY Zenon DEF KernelReceives
<1>2. /\ st \in States /\ st.recvs[s] \in Seq(Nat) /\ cq \in Seq(Completions)
      /\ Cardinality(Places(cq)) \in Nat
  BY RingIs, StatesAre
<1>3. PICK b \in Nat : b = st.buffers - 1 /\ st.buffers = b + 1
  BY RingIs DEF KernelReceives
<1>4. PICK tag \in Nat : tag = st.recvs[s][i]
  BY <1>2, ElementOfSeq, LenProperties
<1>5. PICK left \in Seq(Nat) : left = IF more THEN st.recvs[s] ELSE RemoveAt(st.recvs[s], i)
  BY <1>2, Removed
<1>6. stream[s] \in Bytes /\ stream[s] \in Seq(Units)
  BY DEF RingInv, Bytes
<1>7. PICK data \in Bytes : data = SubSeq(stream[s], 1, n) /\ data # << >>
  <2>1. n \in Nat /\ n >= 1 /\ \A j \in 1 .. n : stream[s][j] \in Units
    BY <1>6
  <2>2. SubSeq(stream[s], 1, n) \in Seq(Units) /\ Len(SubSeq(stream[s], 1, n)) = n
    BY <2>1, SubSeqProperties
  <2>3. SubSeq(stream[s], 1, n) # << >>
    BY <2>1, <2>2
  <2> QED
    BY <2>2, <2>3 DEF Bytes
<1>8. PICK rest \in Bytes : rest = SubSeq(stream[s], n + 1, Len(stream[s]))
  <2>1. n \in Nat /\ Len(stream[s]) \in Nat
        /\ \A j \in n + 1 .. Len(stream[s]) : stream[s][j] \in Units
    BY <1>6
  <2>2. SubSeq(stream[s], n + 1, Len(stream[s])) \in Seq(Units)
    BY <2>1, SubSeqProperties
  <2> QED
    BY <2>2 DEF Bytes
<1>9. PICK v : v = [st EXCEPT !.buffers = b, !.recvs[s] = left]
  OBVIOUS
<1>10. v \in States /\ v.conn = st.conn /\ SameQueues(st, v) /\ SameTickets(st, v)
       /\ v.buffers = b
  BY <1>2, <1>9, StatesAre DEF States, SameQueues, SameTickets
<1>11. st' = v
  BY <1>1, <1>2, <1>3, <1>5, <1>9 DEF States
<1>12. Fine(st', {}, Returning(cq), {}, st'.buffers)
  BY <1>10, <1>11, KernelDoes DEF RingInv
<1>13. PICK e : e = RecvCompletion(s, tag, "data", data, more)
  OBVIOUS
<1>14. e \in Completions /\ e.op # "send" /\ e \in Filled
  <2>1. PICK res \in {"data", "ENOBUFS", "end", "canceled"} : res = "data"
    OBVIOUS
  <2>2. data # << >> <=> res = "data"
    BY <1>7, <2>1
  <2>3. e = RecvCompletion(s, tag, res, data, more)
    BY <1>13, <2>1
  <2>4. e \in Completions /\ e.op # "send" /\ (e \in Filled <=> data # << >>)
    BY <2>2, <2>3, RecvIs
  <2> QED
    BY <1>7, <2>4
<1>15. cq' = Append(cq, e)
  BY <1>1, <1>4, <1>7, <1>13
<1>16. /\ cq' \in Seq(Completions) /\ Returning(cq') = Returning(cq) /\ OncePerTicket(cq')
       /\ Cardinality(Places(cq')) = Cardinality(Places(cq)) + 1
  BY <1>2, <1>14, <1>15, Posted DEF RingInv
<1>17. st'.buffers + Cardinality(Places(cq')) = Buffers
  <2>1. (b + 1) + Cardinality(Places(cq)) = Buffers
    BY <1>3 DEF RingInv
  <2>2. st'.buffers = b
    BY <1>10, <1>11
  <2> QED
    BY <1>2, <1>16, <2>1, <2>2
<1>18. stream' \in [Slots -> Bytes]
  <2>1. stream' = [stream EXCEPT ![s] = rest]
    BY <1>1, <1>8
  <2> QED
    BY <2>1 DEF RingInv
<1> QED
  BY <1>12, <1>16, <1>17, <1>18 DEF RingInv

LEMMA KernelEndsKeeps ==
  ASSUME RingInv, NEW s \in Slots,
         KernelOutOfBuffers(s) \/ KernelEndOfStream(s) \/ KernelCancels(s)
  PROVE  RingInv'
<1>1. stream' = stream
  BY DEF KernelOutOfBuffers, KernelEndOfStream, KernelCancels, client
<1>2. CASE KernelOutOfBuffers(s)
  <2>1. PICK i \in DOMAIN st.recvs[s] :
          /\ RecvEnds(s, i)
          /\ cq' = Append(cq, RecvCompletion(s, st.recvs[s][i], "ENOBUFS", << >>, FALSE))
    BY <1>2 DEF KernelOutOfBuffers
  <2> QED
    BY <1>1, <2>1, RecvEndsKeeps
<1>3. CASE KernelEndOfStream(s)
  <2>1. PICK i \in DOMAIN st.recvs[s] :
          /\ RecvEnds(s, i)
          /\ cq' = Append(cq, RecvCompletion(s, st.recvs[s][i], "end", << >>, FALSE))
    BY <1>3 DEF KernelEndOfStream
  <2> QED
    BY <1>1, <2>1, RecvEndsKeeps
<1>4. CASE KernelCancels(s)
  <2>1. PICK i \in DOMAIN st.recvs[s] :
          /\ RecvEnds(s, i)
          /\ cq' = Append(cq, RecvCompletion(s, st.recvs[s][i], "canceled", << >>, FALSE))
    BY <1>4 DEF KernelCancels
  <2> QED
    BY <1>1, <2>1, RecvEndsKeeps
<1> QED
  BY <1>2, <1>3, <1>4

LEMMA KernelClosesKeeps ==
  ASSUME RingInv, NEW s \in Slots, KernelCloses(s)
  PROVE  RingInv'
<1>1. st \in States
  BY RingIs
<1>2. st' = [st EXCEPT !.closes = @ \ {s}] /\ stream' = [stream EXCEPT ![s] = << >>] /\ cq' = cq
  BY DEF KernelCloses
<1>3. st' \in States /\ st'.conn = st.conn /\ SameQueues(st, st') /\ SameTickets(st, st')
      /\ st'.buffers = st.buffers
  BY <1>1, <1>2, StatesAre DEF States, SameQueues, SameTickets
<1>4. Fine(st', {}, Returning(cq), {}, st'.buffers)
  BY <1>3, KernelDoes DEF RingInv
<1>5. stream' \in [Slots -> Bytes]
  <2>1. << >> \in Bytes
    BY DEF Bytes
  <2> QED
    BY <1>2, <2>1 DEF RingInv
<1> QED
  BY <1>2, <1>3, <1>4, <1>5 DEF RingInv

LEMMA KernelSendsKeeps ==
  ASSUME RingInv, NEW t \in Tickets, KernelSends(t)
  PROVE  RingInv'
<1>1. PICK res \in {"all", "part", "error"} :
        cq' = Append(cq, [op |-> "send", slot |-> st.ticket[t].slot, ticket |-> t, res |-> res])
  BY DEF KernelSends
<1>2. st' = [st EXCEPT !.sends = @ \ {t}] /\ stream' = stream /\ t \in st.sends
  BY DEF KernelSends
<1>3. /\ st \in States /\ Tidy(st, {}, st.buffers) /\ Accounted(st, {}, Returning(cq))
      /\ cq \in Seq(Completions)
  BY RingIs
<1>4. PICK s \in Slots : s = st.ticket[t].slot
  BY <1>2, <1>3 DEF Accounted
<1>5. PICK e : e = [op |-> "send", slot |-> s, ticket |-> t, res |-> res]
  OBVIOUS
<1>6. e \in Completions /\ e.op = "send" /\ e.ticket = t /\ e \notin Filled
  BY <1>5 DEF Completions, Sent, Filled
<1>7. t \notin Returning(cq)
  BY <1>2, <1>3 DEF Accounted
<1>8. cq' = Append(cq, e)
  BY <1>1, <1>4, <1>5
<1>9. /\ cq' \in Seq(Completions) /\ Returning(cq') = Returning(cq) \cup {t}
      /\ OncePerTicket(cq') /\ Cardinality(Places(cq')) = Cardinality(Places(cq))
  BY <1>3, <1>6, <1>7, <1>8, Posted DEF RingInv
<1>10. st' \in States /\ st'.conn = st.conn /\ SameQueues(st, st')
       /\ st'.buffers = st.buffers /\ st'.ticket = st.ticket /\ st'.sends = st.sends \ {t}
  BY <1>2, <1>3, StatesAre DEF States, SameQueues
<1>11. Tidy(st', {}, st'.buffers)
  BY <1>3, <1>10, RestStep
<1>12. Accounted(st', {}, Returning(cq) \cup {t})
  BY <1>2, <1>3, <1>7, <1>10 DEF Accounted
<1>13. st'.buffers + Cardinality(Places(cq')) = Buffers /\ stream' \in [Slots -> Bytes]
  BY <1>2, <1>9, <1>10 DEF RingInv
<1> QED
  BY <1>9, <1>11, <1>12, <1>13 DEF RingInv, Fine

LEMMA RingRests ==
  ASSUME RingInv, UNCHANGED << st, cq, stream >>
  PROVE  RingInv'
  BY DEF RingInv

LEMMA RingStep ==
  ASSUME RingInv, [Next]_vars
  PROVE  RingInv'
<1>1. CASE DrainRing
  BY <1>1, DrainRingKeeps
<1>2. CASE EndOfPass
  BY <1>2, EndOfPassKeeps
<1>3. CASE Notified
  BY <1>3, NotifiedKeeps
<1>4. ASSUME NEW s \in Slots, KernelAccepts(s) PROVE RingInv'
  BY <1>4, KernelAcceptsKeeps
<1>5. ASSUME NEW s \in Slots, KernelReceives(s) PROVE RingInv'
  BY <1>5, KernelReceivesKeeps
<1>6. ASSUME NEW s \in Slots,
             KernelOutOfBuffers(s) \/ KernelEndOfStream(s) \/ KernelCancels(s)
      PROVE  RingInv'
  BY <1>6, KernelEndsKeeps
<1>7. ASSUME NEW s \in Slots, KernelCloses(s) PROVE RingInv'
  BY <1>7, KernelClosesKeeps
<1>8. ASSUME NEW s \in Slots, ClientCloses(s) PROVE RingInv'
  BY <1>8, RingRests DEF ClientCloses
<1>9. ASSUME NEW t \in Tickets, KernelSends(t) PROVE RingInv'
  BY <1>9, KernelSendsKeeps
<1>10. CASE UNCHANGED vars
  BY <1>10, RingRests DEF vars, client
<1> QED
  BY <1>1, <1>2, <1>3, <1>4, <1>5, <1>6, <1>7, <1>8, <1>9, <1>10 DEF Next

LEMMA RingHolds == Spec => []RingInv
<1>1. Init => RingInv
  BY InitRing
<1>2. RingInv /\ [Next]_vars => RingInv'
  BY RingStep
<1> QED
  BY <1>1, <1>2, PTL DEF Spec

-----------------------------------------------------------------------------
(* Requests in line *)

LEMMA SizeIs ==
  ASSUME NEW kind \in RequestKinds
  PROVE  Size(kind) \in Nat /\ Size(kind) >= 1
  BY RingAssumption DEF RingAssumption, Size, RequestKinds

LEMMA BytesTyped ==
  ASSUME NEW x \in Bytes
  PROVE  /\ Len(x) \in Nat /\ DOMAIN x = 1 .. Len(x)
         /\ x # << >> => Head(x) = x[1] /\ Len(x) >= 1
         /\ x = << >> => Len(x) = 0
         /\ \A i \in 1 .. Len(x) : /\ x[i] \in Units /\ x[i].req \in Asks /\ x[i].at \in Nat
                                   /\ x[i].kind \in RequestKinds
<1>1. Len(x) \in Nat /\ DOMAIN x = 1 .. Len(x) /\ \A i \in 1 .. Len(x) : x[i] \in Units
  BY DEF Bytes
<1>2. x # << >> => Head(x) = x[1] /\ Len(x) >= 1
  BY DEF Bytes
<1> QED
  BY <1>1, <1>2 DEF Units

\* What is left of a buffer behind its first n units.
LEMMA Behind ==
  ASSUME NEW x \in Bytes, NEW n \in Nat, n <= Len(x), NEW y, y = SubSeq(x, n + 1, Len(x))
  PROVE  /\ y \in Bytes /\ Len(y) = Len(x) - n
         /\ \A i \in 1 .. Len(x) - n : y[i] = x[n + i]
<1>1. n + 1 \in Int /\ Len(x) \in Nat /\ Len(x) - (n + 1) + 1 = Len(x) - n
  BY DEF Bytes
<1>2. \A i \in n + 1 .. Len(x) : x[i] \in Units
  BY <1>1, BytesTyped, SMTT(30)
<1>3. PICK m \in Nat, l \in Nat : m = n + 1 /\ l = Len(x)
  <2>1. n + 1 \in Nat
    OBVIOUS
  <2> QED
    BY <1>1, <2>1
<1>4. \A i \in m .. l : x[i] \in Units
  BY <1>2, <1>3
<1>5. /\ SubSeq(x, m, l) \in Seq(Units)
      /\ Len(SubSeq(x, m, l)) = IF m <= l THEN l - m + 1 ELSE 0
      /\ \A i \in 1 .. l - m + 1 : SubSeq(x, m, l)[i] = x[m + i - 1]
  BY <1>4, SubSeqProperties
<1>6. y = SubSeq(x, m, l)
  BY <1>3
<1>7. y \in Bytes
  BY <1>5, <1>6 DEF Bytes
<1>8. Len(y) = Len(x) - n
  <2>1. (IF m <= l THEN l - m + 1 ELSE 0) = l - n
    BY <1>3
  <2> QED
    BY <1>3, <1>5, <1>6, <2>1
<1>9. ASSUME NEW i \in 1 .. Len(x) - n PROVE y[i] = x[n + i]
  <2>1. i \in 1 .. l - m + 1 /\ m + i - 1 = n + i
    BY <1>1, <1>3
  <2> QED
    BY <1>5, <1>6, <2>1
<1> QED
  BY <1>7, <1>8, <1>9

\* The first request of a line, when all of it is there: what is behind it is in line
\* from the next request on.
LEMMA NextInLine ==
  ASSUME NEW x \in Bytes, NEW s, NEW g, NEW k \in Nat, InLine(x, s, g, k), x # << >>,
         NEW n, n = Size(x[1].kind), n <= Len(x)
  PROVE  /\ n \in 1 .. Len(x)
         /\ SubSeq(x, n + 1, Len(x)) \in Bytes
         /\ InLine(SubSeq(x, n + 1, Len(x)), s, g, k + 1)
         /\ Len(SubSeq(x, n + 1, Len(x))) <= Len(x)
         /\ Len(SubSeq(x, n + 1, Len(x))) = Len(x) - n
<1>1. 1 \in 1 .. Len(x) /\ Len(x) \in Nat
  BY BytesTyped
<1>2. n \in Nat /\ n >= 1
  BY <1>1, BytesTyped, SizeIs
<1> DEFINE S == {m \in 0 .. n - 1 : /\ x[m + 1].at = m + 1 /\ x[m + 1].kind = x[1].kind
                                    /\ x[m + 1].req = << s, g, k >>}
<1>3. 0 \in S
  BY <1>2 DEF InLine
<1>4. ASSUME NEW m \in 1 .. n - 1, m - 1 \in S PROVE m \in S
  <2>1. m \in 1 .. Len(x) - 1 /\ m \in 0 .. n - 1 /\ (m - 1) + 1 = m
    BY <1>1, <1>2
  <2>2. x[m].at = m /\ x[m].kind = x[1].kind /\ x[m].req = << s, g, k >>
    BY <1>4, <2>1
  <2>3. x[m].at # Size(x[m].kind)
    BY <1>2, <2>2
  <2>4. Follows(x[m], x[m + 1])
    BY <2>1 DEF InLine
  <2>5. x[m + 1].at = m + 1 /\ x[m + 1].kind = x[1].kind /\ x[m + 1].req = << s, g, k >>
    BY <2>2, <2>3, <2>4 DEF Follows
  <2> QED
    BY <2>1, <2>5
<1>5. n - 1 \in S
  <2>1. n - 1 \in Nat /\ n - 1 \in 0 .. n - 1
    BY <1>2
  <2> HIDE DEF S
  <2> QED
    BY <1>3, <1>4, <2>1, Upwards
<1>6. x[n].at = n /\ x[n].kind = x[1].kind /\ x[n].req = << s, g, k >>
  <2>1. (n - 1) + 1 = n
    BY <1>2
  <2> QED
    BY <1>5, <2>1
<1> DEFINE y == SubSeq(x, n + 1, Len(x))
<1>7. /\ y \in Bytes /\ Len(y) = Len(x) - n
      /\ \A i \in 1 .. Len(x) - n : y[i] = x[n + i]
  BY <1>2, Behind
<1> HIDE DEF y, S
<1>8. y # << >> => y[1].at = 1 /\ y[1].req = << s, g, k + 1 >>
  <2> SUFFICES ASSUME y # << >> PROVE y[1].at = 1 /\ y[1].req = << s, g, k + 1 >>
    OBVIOUS
  <2>1. Len(y) >= 1
    BY <1>7, BytesTyped
  <2>2. n \in 1 .. Len(x) - 1 /\ y[1] = x[n + 1]
    BY <1>1, <1>2, <1>7, <2>1
  <2>3. Follows(x[n], x[n + 1])
    BY <2>2 DEF InLine
  <2>4. x[n].at = Size(x[n].kind)
    BY <1>6
  <2> QED
    BY <1>6, <2>2, <2>3, <2>4 DEF Follows
<1>9. ASSUME NEW i \in 1 .. Len(y) - 1 PROVE Follows(y[i], y[i + 1])
  <2>1. /\ n + i \in 1 .. Len(x) - 1 /\ i \in 1 .. Len(x) - n /\ i + 1 \in 1 .. Len(x) - n
        /\ n + (i + 1) = (n + i) + 1
    BY <1>1, <1>2, <1>7, SMTT(30)
  <2>2. y[i] = x[n + i] /\ y[i + 1] = x[(n + i) + 1]
    BY <1>7, <2>1
  <2> QED
    BY <2>1, <2>2 DEF InLine
<1>10. Len(y) <= Len(x) /\ n \in 1 .. Len(x)
  BY <1>1, <1>2, <1>7
<1>11. InLine(y, s, g, k + 1)
  BY <1>8, <1>9 DEF InLine
<1> QED
  BY <1>7, <1>10, <1>11 DEF y

\* The same of a buffer, with what is still to come behind it.
LEMMA BufferInLine ==
  ASSUME NEW x \in Bytes, NEW y \in Bytes, NEW s, NEW g, NEW k \in Nat,
         InLine(x \o y, s, g, k), NextFrame(x) = "ready"
  PROVE  /\ x # << >> /\ Head(x).req = << s, g, k >>
         /\ KeepTail(x, TotalLength(x)) \in Bytes
         /\ Len(KeepTail(x, TotalLength(x))) <= Len(x)
         /\ InLine(KeepTail(x, TotalLength(x)) \o y, s, g, k + 1)
<1>1. x # << >> /\ Head(x) = x[1] /\ Len(x) \in Nat /\ Len(x) >= 1 /\ Len(y) \in Nat
  BY BytesAre, BytesTyped
<1>2. PICK n : n = Size(x[1].kind)
  OBVIOUS
<1>3. n \in Nat /\ n >= 1 /\ n <= Len(x)
  <2>1. x[1].kind \in RequestKinds
    BY <1>1, BytesTyped
  <2> QED
    BY <1>1, <1>2, <2>1, SizeIs DEF NextFrame
<1>4. PICK z \in Bytes : z = x \o y
  BY BothBytes
<1>5. /\ Len(z) = Len(x) + Len(y) /\ z # << >>
      /\ \A i \in 1 .. Len(x) : z[i] = x[i]
      /\ \A i \in 1 .. Len(y) : z[Len(x) + i] = y[i]
  BY <1>1, <1>4 DEF Bytes
<1>6. z[1] = x[1]
  BY <1>1, <1>5
<1>7. n <= Len(z)
  BY <1>1, <1>3, <1>5
<1>8. InLine(SubSeq(z, n + 1, Len(z)), s, g, k + 1)
  BY <1>2, <1>4, <1>5, <1>6, <1>7, NextInLine
<1>9. TotalLength(x) = n
  BY <1>1, <1>2 DEF TotalLength
<1>10. PICK w \in Bytes : w = KeepTail(x, n)
  BY <1>9, BytesAre
<1>11. /\ Len(w) = Len(x) - n
       /\ \A i \in 1 .. Len(x) - n : w[i] = x[n + i]
  BY <1>3, <1>10, Behind DEF KeepTail
<1>12. SubSeq(z, n + 1, Len(z)) = w \o y
  <2> DEFINE a == SubSeq(z, n + 1, Len(z))
             b == w \o y
  <2>1. a \in Seq(Units) /\ Len(a) = Len(z) - n /\ \A i \in 1 .. Len(z) - n : a[i] = z[n + i]
    BY <1>3, <1>7, <1>4, Behind, SMTT(30) DEF Bytes
  <2>2. /\ b \in Seq(Units) /\ Len(b) = Len(w) + Len(y)
        /\ \A i \in 1 .. Len(w) : b[i] = w[i]
        /\ \A i \in 1 .. Len(y) : b[Len(w) + i] = y[i]
    BY <1>10 DEF Bytes
  <2> HIDE DEF a, b
  <2>3. Len(a) = Len(b)
    BY <1>1, <1>3, <1>5, <1>11, <2>1, <2>2
  <2>4. ASSUME NEW i \in 1 .. Len(a) PROVE a[i] = b[i]
    <3>1. CASE i <= Len(w)
      <4>1. i \in 1 .. Len(w) /\ i \in 1 .. Len(z) - n /\ n + i \in 1 .. Len(x)
            /\ i \in 1 .. Len(x) - n
        BY <1>1, <1>3, <1>5, <1>11, <2>1, <3>1
      <4> QED
        BY <1>5, <1>11, <2>1, <2>2, <4>1
    <3>2. CASE i > Len(w)
      <4>1. /\ i - Len(w) \in 1 .. Len(y) /\ i = Len(w) + (i - Len(w))
            /\ i \in 1 .. Len(z) - n /\ n + i = Len(x) + (i - Len(w))
        BY <1>1, <1>3, <1>5, <1>11, <2>1, <3>2
      <4>2. b[i] = y[i - Len(w)] /\ a[i] = z[n + i] /\ z[n + i] = y[i - Len(w)]
        BY <1>5, <2>1, <2>2, <4>1
      <4> QED
        BY <4>2
    <3> QED
      BY <1>11, <1>1, <1>3, <2>1, <3>1, <3>2
  <2>5. a = b
    BY <2>1, <2>2, <2>3, <2>4, SeqEqual
  <2> QED
    BY <2>5 DEF a, b
<1>13. Head(x).req = << s, g, k >>
  BY <1>1, <1>4, <1>5, <1>6 DEF InLine
<1>14. Len(w) <= Len(x)
  BY <1>1, <1>3, <1>11
<1> QED
  BY <1>1, <1>8, <1>9, <1>10, <1>12, <1>13, <1>14

LEMMA Joined ==
  ASSUME NEW x \in Bytes, NEW y \in Bytes, NEW z \in Bytes
  PROVE  (x \o y) \o z = x \o (y \o z)
  BY ConcatAssociative DEF Bytes

LEMMA NothingJoined ==
  /\ << >> \in Bytes
  /\ \A x \in Bytes : x \o << >> = x
  /\ \A x \in Bytes : << >> \o x = x
  BY ConcatEmptySeq DEF Bytes

\* x with y behind it.
LEMMA Concats ==
  ASSUME NEW x \in Bytes, NEW y \in Bytes, NEW z, z = x \o y
  PROVE  /\ z \in Bytes /\ Len(z) = Len(x) + Len(y)
         /\ \A i \in 1 .. Len(x) : z[i] = x[i]
<1>1. x \in Seq(Units) /\ y \in Seq(Units) /\ Len(x) \in Nat /\ Len(y) \in Nat
  BY DEF Bytes
<1>2. Len(z) = Len(x) + Len(y) /\ z \in Seq(Units)
  BY <1>1, ConcatProperties
<1>3. \A i \in 1 .. Len(x) + Len(y) : z[i] = IF i <= Len(x) THEN x[i] ELSE y[i - Len(x)]
  BY <1>1, ConcatProperties
<1>4. \A i \in 1 .. Len(x) : z[i] = x[i]
  BY <1>1, <1>3
<1> QED
  BY <1>2, <1>4 DEF Bytes

LEMMA ConcatEnd ==
  ASSUME NEW x \in Bytes, NEW y \in Bytes, NEW z, z = x \o y
  PROVE  \A i \in 1 .. Len(y) : z[Len(x) + i] = y[i]
<1>1. x \in Seq(Units) /\ y \in Seq(Units) /\ Len(x) \in Nat /\ Len(y) \in Nat
  BY DEF Bytes
<1>2. \A i \in 1 .. Len(x) + Len(y) : z[i] = IF i <= Len(x) THEN x[i] ELSE y[i - Len(x)]
  BY <1>1, ConcatProperties
<1>3. ASSUME NEW i \in 1 .. Len(y) PROVE z[Len(x) + i] = y[i]
  <2>1. Len(x) + i \in 1 .. Len(x) + Len(y) /\ ~(Len(x) + i <= Len(x)) /\ Len(x) + i - Len(x) = i
    BY <1>1
  <2> QED
    BY <1>2, <2>1
<1> QED
  BY <1>3

\* What FlattenSeq has come to after the first n.
Flattens(f, seqs) ==
  /\ f[0] = << >>
  /\ \A n \in 1 .. Len(seqs) : f[n] = f[n - 1] \o seqs[n]
  /\ \A n \in 0 .. Len(seqs) : f[n] \in Bytes

LEMMA FlattenIs ==
  ASSUME NEW seqs \in Seq(Bytes)
  PROVE  \E f : Flattens(f, seqs) /\ FlattenSeq(seqs) = f[Len(seqs)]
<1>1. PICK L \in Nat : L = Len(seqs)
  BY LenProperties
<1>2. \A i \in 1 .. L : seqs[i] \in Bytes
  BY <1>1, LenProperties
<1>3. << >> \in Bytes /\ \A x \in Bytes : << >> \o x = x
  BY ConcatEmptySeq DEF Bytes
<1>4. CASE L = 0
  <2>1. seqs = << >> /\ FlattenSeq(seqs) = seqs
    BY <1>1, <1>4, EmptySeq DEF FlattenSeq
  <2> DEFINE f == [n \in 0 .. 0 |-> << >>]
  <2>2. Flattens(f, seqs)
    BY <1>1, <1>3, <1>4 DEF Flattens
  <2>3. f[Len(seqs)] = << >>
    BY <1>1, <1>4
  <2> QED
    BY <2>1, <2>2, <2>3
<1>5. CASE L # 0
  <2>1. PICK N \in Nat : N = L - 1
    BY <1>5
  <2> DEFINE U == Bytes
             D == [n \in 0 .. N |-> U]
             G == [p \in (1 .. N) \X U |-> p[2] \o seqs[p[1] + 1]]
             Is(f) == f = [i \in 1 .. L |-> IF i = 1 THEN seqs[i] ELSE f[i - 1] \o seqs[i]]
             flatten == CHOOSE f : Is(f)
  <2>2. \A n \in 1 .. N : \A x \in U : x \o seqs[n + 1] \in U
    <3>1. \A n \in 1 .. N : n + 1 \in 1 .. L
      BY <2>1
    <3> QED
      BY <1>2, <3>1, BothBytes
  <2>3. seqs[1] \in U
    BY <1>2, <1>5
  <2> HIDE DEF U
  <2>4. \E f : Is(f)
    <3>1. \A n \in 1 .. N : \A x \in D[n - 1] : G[<< n, x >>] \in D[n]
      BY <2>1, <2>2
    <3>2. seqs[1] \in D[0] /\ \A n \in 0 .. N : D[n] \subseteq U
      BY <2>1, <2>3
    <3>3. \A n \in 1 .. N : \A x \in U : G[<< n, x >>] = x \o seqs[n + 1]
      OBVIOUS
    <3> HIDE DEF D, G
    <3>4. Leads(N, U, D, G, seqs[1])
      BY <3>1, <3>2 DEF Leads
    <3>5. PICK f \in [0 .. N -> U] : Recurs(f, N, D, G, seqs[1])
      BY <2>1, <3>4, Recursion
    <3> DEFINE g == [i \in 1 .. L |-> f[i - 1]]
    <3>6. g[1] = seqs[1]
      BY <1>5, <3>5 DEF Recurs
    <3>7. ASSUME NEW i \in 1 .. L, i # 1 PROVE g[i] = g[i - 1] \o seqs[i]
      <4>1. /\ i - 1 \in 1 .. N /\ (i - 1) - 1 \in 0 .. N /\ i - 1 \in 1 .. L
            /\ (i - 1) + 1 = i
        BY <2>1, <3>7
      <4>2. f[(i - 1) - 1] \in U
        BY <4>1
      <4>3. f[i - 1] = G[<< i - 1, f[(i - 1) - 1] >>]
        BY <3>5, <4>1 DEF Recurs
      <4>4. G[<< i - 1, f[(i - 1) - 1] >>] = f[(i - 1) - 1] \o seqs[(i - 1) + 1]
        BY <3>3, <4>1, <4>2, Zenon
      <4>5. g[i] = f[i - 1] /\ g[i - 1] = f[(i - 1) - 1]
        BY <4>1
      <4> HIDE DEF g
      <4> QED
        BY <4>1, <4>3, <4>4, <4>5
    <3>8. g = [i \in 1 .. L |-> g[i]]
      OBVIOUS
    <3> HIDE DEF g
    <3>9. Is(g)
      BY <3>6, <3>7, <3>8
    <3> QED
      BY <3>9
  <2>5. Is(flatten)
    BY <2>4
  <2>6. FlattenSeq(seqs) = flatten[L]
    BY <1>1, <1>5 DEF FlattenSeq
  <2> HIDE DEF flatten
  <2>7. /\ flatten[1] = seqs[1]
        /\ \A i \in 1 .. L : i # 1 => flatten[i] = flatten[i - 1] \o seqs[i]
    <3>1. \A i \in 1 .. L : flatten[i] = IF i = 1 THEN seqs[i] ELSE flatten[i - 1] \o seqs[i]
      BY <2>5, Zenon
    <3>2. 1 \in 1 .. L
      BY <1>5
    <3> HIDE DEF Is
    <3> QED
      BY <3>1, <3>2
  <2> HIDE DEF Is
  <2> DEFINE Good == {n \in 0 .. N : flatten[n + 1] \in U}
  <2>8. 0 \in Good
    BY <2>1, <2>3, <2>7
  <2>9. ASSUME NEW n \in 1 .. N, n - 1 \in Good PROVE n \in Good
    <3>1. n + 1 \in 1 .. L /\ n + 1 # 1 /\ (n + 1) - 1 = n /\ (n - 1) + 1 = n /\ n \in 0 .. N
      BY <2>1
    <3>2. flatten[n] \in U
      BY <2>9, <3>1
    <3>3. flatten[n + 1] = flatten[n] \o seqs[n + 1]
      BY <2>7, <3>1
    <3> QED
      BY <2>2, <3>1, <3>2, <3>3
  <2>10. \A n \in 0 .. N : n \in Good
    <3> HIDE DEF Good
    <3> QED
      BY <2>1, <2>8, <2>9, Upwards
  <2> DEFINE h == [n \in 0 .. L |-> IF n = 0 THEN << >> ELSE flatten[n]]
  <2>11. h[0] = << >> /\ \A n \in 1 .. L : h[n] = flatten[n]
    OBVIOUS
  <2> HIDE DEF h
  <2>12. ASSUME NEW n \in 1 .. L PROVE h[n] \in Bytes /\ h[n] = h[n - 1] \o seqs[n]
    <3>1. n - 1 \in 0 .. N /\ (n - 1) + 1 = n /\ (n # 1 => n - 1 \in 1 .. L)
      BY <2>1
    <3>2. h[n] \in Bytes
      BY <2>10, <2>11, <3>1 DEF U
    <3>3. n = 1 => h[n] = h[n - 1] \o seqs[n]
      <4> SUFFICES ASSUME n = 1 PROVE h[n] = h[n - 1] \o seqs[n]
        OBVIOUS
      <4>1. n - 1 = 0
        OBVIOUS
      <4> QED
        BY <1>2, <1>3, <2>7, <2>11, <4>1
    <3>4. n # 1 => h[n] = h[n - 1] \o seqs[n]
      BY <2>7, <2>11, <3>1
    <3> QED
      BY <3>2, <3>3, <3>4
  <2>13. Flattens(h, seqs)
    <3>1. \A n \in 0 .. L : n = 0 \/ n \in 1 .. L
      OBVIOUS
    <3> QED
      BY <1>1, <1>3, <2>11, <2>12, <3>1 DEF Flattens
  <2>14. FlattenSeq(seqs) = h[Len(seqs)]
    BY <1>1, <1>5, <2>6, <2>11
  <2> QED
    BY <2>13, <2>14
<1> QED
  BY <1>4, <1>5

LEMMA FlattenOne ==
  ASSUME NEW seqs \in Seq(Bytes), NEW f, Flattens(f, seqs)
  PROVE  FlattenSeq(seqs) = f[Len(seqs)]
<1>1. PICK g : Flattens(g, seqs) /\ FlattenSeq(seqs) = g[Len(seqs)]
  BY FlattenIs
<1>2. PICK L \in Nat : L = Len(seqs)
  BY LenProperties
<1> DEFINE Good == {n \in 0 .. L : f[n] = g[n]}
<1>3. 0 \in Good
  BY <1>1 DEF Flattens
<1>4. ASSUME NEW n \in 1 .. L, n - 1 \in Good PROVE n \in Good
  <2>1. f[n] = f[n - 1] \o seqs[n] /\ g[n] = g[n - 1] \o seqs[n]
    BY <1>1, <1>2 DEF Flattens
  <2>2. f[n - 1] = g[n - 1] /\ n \in 0 .. L
    BY <1>4
  <2>3. f[n] = g[n]
    BY <2>1, <2>2, Zenon
  <2> QED
    BY <2>2, <2>3
<1>5. L \in Good
  <2> HIDE DEF Good
  <2>1. \A n \in 0 .. L : n \in Good
    BY <1>3, <1>4, Upwards
  <2> QED
    BY <2>1
<1> QED
  BY <1>1, <1>2, <1>5

LEMMA FlattenAppend ==
  ASSUME NEW seqs \in Seq(Bytes), NEW x \in Bytes
  PROVE  FlattenSeq(Append(seqs, x)) = FlattenSeq(seqs) \o x
<1>1. PICK f : Flattens(f, seqs) /\ FlattenSeq(seqs) = f[Len(seqs)]
  BY FlattenIs
<1>2. PICK L \in Nat : L = Len(seqs)
  BY LenProperties
<1>3. PICK r \in Seq(Bytes) : r = Append(seqs, x)
  BY AppendProperties
<1>4. Len(r) = L + 1 /\ r[L + 1] = x /\ \A i \in 1 .. L : r[i] = seqs[i]
  BY <1>2, <1>3, AppendProperties
<1> DEFINE g == [n \in 0 .. L + 1 |-> IF n = L + 1 THEN f[L] \o x ELSE f[n]]
<1>5. g[L + 1] = f[L] \o x /\ \A n \in 0 .. L : g[n] = f[n]
  OBVIOUS
<1>6. f[L] \in Bytes /\ f[L] \o x \in Bytes
  BY <1>1, <1>2, BothBytes DEF Flattens
<1> HIDE DEF g
<1>7. ASSUME NEW n \in 1 .. L + 1 PROVE g[n] = g[n - 1] \o r[n]
  <2>1. CASE n = L + 1
    <3>1. n - 1 = L /\ L \in 0 .. L
      BY <2>1
    <3>2. g[n] = f[L] \o x /\ g[n - 1] = f[L] /\ r[n] = x
      BY <1>4, <1>5, <2>1, <3>1
    <3> QED
      BY <3>2, Zenon
  <2>2. CASE n # L + 1
    <3>1. n \in 1 .. L /\ n \in 0 .. L /\ n - 1 \in 0 .. L
      BY <2>2
    <3>2. f[n] = f[n - 1] \o seqs[n]
      BY <1>1, <1>2, <3>1 DEF Flattens
    <3> QED
      BY <1>4, <1>5, <3>1, <3>2
  <2> QED
    BY <2>1, <2>2
<1>8. ASSUME NEW n \in 0 .. L + 1 PROVE g[n] \in Bytes
  <2>1. n = L + 1 \/ n \in 0 .. L
    OBVIOUS
  <2> QED
    BY <1>1, <1>2, <1>5, <1>6, <2>1 DEF Flattens
<1>9. Flattens(g, r)
  <2>1. g[0] = << >>
    BY <1>1, <1>5 DEF Flattens
  <2> QED
    BY <1>4, <1>7, <1>8, <2>1 DEF Flattens
<1>10. FlattenSeq(r) = g[L + 1]
  BY <1>4, <1>9, FlattenOne
<1> QED
  BY <1>1, <1>2, <1>3, <1>5, <1>10

LEMMA FlattenTail ==
  ASSUME NEW seqs \in Seq(Bytes), seqs # << >>
  PROVE  FlattenSeq(seqs) = Head(seqs) \o FlattenSeq(Tail(seqs))
<1>1. PICK r \in Seq(Bytes) : r = Tail(seqs)
  BY HeadTailProperties
<1>2. PICK x \in Bytes : x = Head(seqs) /\ x = seqs[1]
  BY HeadTailProperties
<1>3. PICK L \in Nat : L = Len(r)
  BY LenProperties
<1>4. Len(seqs) = L + 1 /\ \A i \in 1 .. L : r[i] = seqs[i + 1]
  BY <1>1, <1>3, HeadTailProperties, LenProperties
<1>5. PICK f : Flattens(f, r) /\ FlattenSeq(r) = f[L]
  BY <1>3, FlattenIs
<1>6. f[0] = << >> /\ (\A n \in 1 .. L : f[n] = f[n - 1] \o r[n]) /\ \A n \in 0 .. L : f[n] \in Bytes
  BY <1>3, <1>5 DEF Flattens
<1> DEFINE g == [n \in 0 .. L + 1 |-> IF n = 0 THEN << >> ELSE x \o f[n - 1]]
<1>7. g[0] = << >> /\ \A n \in 1 .. L + 1 : g[n] = x \o f[n - 1]
  OBVIOUS
<1> HIDE DEF g
<1>8. ASSUME NEW n \in 1 .. L + 1 PROVE g[n] = g[n - 1] \o seqs[n] /\ g[n] \in Bytes
  <2>1. n - 1 \in 0 .. L
    OBVIOUS
  <2>2. g[n] \in Bytes
    BY <1>6, <1>7, <2>1, BothBytes
  <2>3. CASE n = 1
    <3>1. g[n] = x \o << >> /\ g[n - 1] = << >> /\ seqs[n] = x
      <4>1. n - 1 = 0 /\ 1 \in 1 .. L + 1
        BY <2>3
      <4> QED
        BY <1>2, <1>6, <1>7, <2>3, <4>1
    <3>2. x \o << >> = x /\ << >> \o x = x
      BY NothingJoined
    <3> QED
      BY <2>2, <3>1, <3>2
  <2>4. CASE n # 1
    <3>1. /\ n - 1 \in 1 .. L /\ n - 1 \in 1 .. L + 1 /\ (n - 1) - 1 \in 0 .. L
          /\ (n - 1) + 1 = n
      BY <2>4
    <3>2. PICK y \in Bytes : y = f[(n - 1) - 1]
      BY <1>6, <3>1
    <3>3. PICK z \in Bytes : z = seqs[n]
      <4>1. n \in 1 .. Len(seqs)
        BY <1>4
      <4> QED
        BY <4>1, LenProperties
    <3>4. f[n - 1] = y \o z
      BY <1>4, <1>6, <3>1, <3>2, <3>3
    <3>5. g[n] = x \o (y \o z) /\ g[n - 1] = x \o y
      BY <1>7, <3>1, <3>2, <3>4
    <3>6. (x \o y) \o z = x \o (y \o z)
      BY Joined
    <3> QED
      BY <2>2, <3>3, <3>5, <3>6
  <2> QED
    BY <2>3, <2>4
<1>9. Flattens(g, seqs)
  <2>1. \A n \in 0 .. L + 1 : n = 0 \/ n \in 1 .. L + 1
    OBVIOUS
  <2>2. << >> \in Bytes
    BY DEF Bytes
  <2> QED
    BY <1>4, <1>7, <1>8, <2>1, <2>2 DEF Flattens
<1>10. FlattenSeq(seqs) = g[L + 1]
  BY <1>4, <1>9, FlattenOne
<1>11. g[L + 1] = x \o f[L]
  <2>1. L + 1 \in 1 .. L + 1 /\ (L + 1) - 1 = L
    OBVIOUS
  <2> QED
    BY <1>7, <2>1
<1> QED
  BY <1>1, <1>2, <1>5, <1>10, <1>11

\* What is received ends with all of request req.
Ends(x, req) == x[Len(x)].at = Size(x[Len(x)].kind) /\ x[Len(x)].req = req

\* A request in line is behind what is there, and complete.
LEMMA RequestInLine ==
  ASSUME NEW s \in Slots, NEW g \in Nat, NEW k \in Nat, NEW kind \in RequestKinds,
         NEW y, y = Request(RequestOf(s, g, k), kind)
  PROVE  /\ y \in Bytes /\ Len(y) >= 1
         /\ InLine(y, s, g, k)
         /\ Ends(y, << s, g, k >>)
<1>1. PICK n \in Nat : n = Size(kind) /\ n >= 1
  BY SizeIs
<1>2. << s, g, k >> \in Asks
  BY DEF Asks
<1>3. y \in Bytes
  BY <1>2, RequestIs DEF RequestOf
<1>4. Len(y) = n
  BY <1>1, <1>3 DEF Request, Bytes
<1>5. \A i \in 1 .. n : y[i].at = i /\ y[i].kind = kind /\ y[i].req = << s, g, k >>
  BY <1>1 DEF Request, RequestOf
<1>6. ASSUME NEW i \in 1 .. n - 1 PROVE Follows(y[i], y[i + 1])
  <2>1. i \in 1 .. n /\ i + 1 \in 1 .. n /\ i # n
    OBVIOUS
  <2> QED
    BY <1>1, <1>5, <2>1 DEF Follows
<1>7. 1 \in 1 .. n /\ n \in 1 .. n
  BY <1>1
<1>8. InLine(y, s, g, k)
  BY <1>4, <1>5, <1>6, <1>7 DEF InLine
<1> QED
  BY <1>1, <1>3, <1>4, <1>5, <1>7, <1>8 DEF Ends

LEMMA ScriptInLine ==
  ASSUME NEW next \in DOMAIN Scripts, NEW script \in Scripts[next], NEW s \in Slots,
         NEW g \in Nat, NEW z,
         z = FlattenSeq([n \in DOMAIN script |-> Request(RequestOf(s, g, n), script[n])])
  PROVE  InLine(z, s, g, 1)
<1>1. script \in Seq(RequestKinds)
  BY RingAssumption DEF RingAssumption
<1>2. PICK N \in Nat : N = Len(script) /\ DOMAIN script = 1 .. N
  BY <1>1, LenProperties
<1> DEFINE seqs == [n \in 1 .. N |-> Request(RequestOf(s, g, n), script[n])]
<1>3. ASSUME NEW n \in 1 .. N
      PROVE  /\ seqs[n] \in Bytes /\ Len(seqs[n]) >= 1
             /\ InLine(seqs[n], s, g, n)
             /\ seqs[n][Len(seqs[n])].at = Size(seqs[n][Len(seqs[n])].kind)
             /\ seqs[n][Len(seqs[n])].req = << s, g, n >>
  <2>1. n \in Nat
    OBVIOUS
  <2>2. PICK kind \in RequestKinds : kind = script[n]
    BY <1>1, <1>2
  <2>3. PICK y : y = seqs[n]
    OBVIOUS
  <2>4. y = Request(RequestOf(s, g, n), kind)
    BY <2>2, <2>3
  <2> HIDE DEF seqs
  <2>5. y \in Bytes /\ Len(y) >= 1 /\ InLine(y, s, g, n) /\ Ends(y, << s, g, n >>)
    BY <2>1, <2>4, RequestInLine
  <2> QED
    BY <2>3, <2>5 DEF Ends
<1>4. seqs \in Seq(Bytes) /\ Len(seqs) = N
  BY <1>3
<1> HIDE DEF seqs
<1>5. z = FlattenSeq(seqs)
  BY <1>2 DEF seqs
<1>6. PICK f : Flattens(f, seqs) /\ z = f[N]
  BY <1>4, <1>5, FlattenIs
<1> DEFINE Good == {n \in 0 .. N :
                      /\ InLine(f[n], s, g, 1)
                      /\ n # 0 => /\ Len(f[n]) >= 1
                                  /\ f[n][Len(f[n])].at = Size(f[n][Len(f[n])].kind)
                                  /\ f[n][Len(f[n])].req = << s, g, n >>}
<1>7. 0 \in Good
  <2>1. f[0] = << >> /\ Len(<< >>) = 0
    BY <1>6 DEF Flattens
  <2>2. InLine(<< >>, s, g, 1)
    BY <2>1 DEF InLine
  <2> QED
    BY <2>1, <2>2
<1>8. ASSUME NEW n \in 1 .. N, n - 1 \in Good PROVE n \in Good
  <2>1. PICK x \in Bytes, y \in Bytes, w \in Bytes :
          x = f[n - 1] /\ y = seqs[n] /\ w = f[n] /\ w = x \o y
    <3>1. n - 1 \in 0 .. N /\ n \in 0 .. N
      OBVIOUS
    <3> QED
      BY <1>3, <1>4, <1>6, <3>1 DEF Flattens
  <2>2. PICK a \in Nat, b \in Nat : a = Len(x) /\ b = Len(y)
    BY BytesTyped
  <2>3. /\ Len(w) = a + b
        /\ \A i \in 1 .. a : w[i] = x[i]
        /\ \A i \in 1 .. b : w[a + i] = y[i]
    <3>1. w = x \o y
      BY <2>1
    <3>2. Len(w) = Len(x) + Len(y) /\ \A i \in 1 .. Len(x) : w[i] = x[i]
      BY <3>1, Concats
    <3>3. \A i \in 1 .. Len(y) : w[Len(x) + i] = y[i]
      BY <3>1, ConcatEnd
    <3> QED
      BY <2>2, <3>2, <3>3
  <2>4. /\ b >= 1 /\ InLine(y, s, g, n)
        /\ y[b].at = Size(y[b].kind) /\ y[b].req = << s, g, n >>
    BY <1>3, <2>1, <2>2
  <2>5. /\ InLine(x, s, g, 1)
        /\ n - 1 # 0 => a >= 1 /\ x[a].at = Size(x[a].kind) /\ x[a].req = << s, g, n - 1 >>
    BY <1>8, <2>1, <2>2
  <2>6. n - 1 = 0 => a = 0
    BY <1>6, <2>1, <2>2, BytesTyped DEF Flattens
  <2>7. y # << >> /\ y[1].at = 1 /\ y[1].req = << s, g, n >>
    <3>1. y # << >>
      BY <2>2, <2>4, BytesTyped
    <3> QED
      BY <2>4, <3>1 DEF InLine
  <2>8. a + b \in 1 .. a + b /\ w[a + b] = y[b]
    <3>1. b \in 1 .. b /\ a + b \in 1 .. a + b
      BY <2>4
    <3> QED
      BY <2>3, <3>1
  <2>9. w # << >> => w[1].at = 1 /\ w[1].req = << s, g, 1 >>
    <3>1. CASE a = 0
      <4>1. n = 1
        BY <2>5, <3>1
      <4>2. w[1] = y[1]
        <5>1. 1 \in 1 .. b /\ a + 1 = 1
          BY <2>4, <3>1
        <5> QED
          BY <2>3, <5>1
      <4> QED
        BY <2>7, <4>1, <4>2
    <3>2. CASE a # 0
      <4>1. 1 \in 1 .. a
        BY <3>2
      <4>2. x # << >>
        BY <2>2, <3>2, BytesTyped
      <4> QED
        BY <2>3, <2>5, <4>1, <4>2 DEF InLine
    <3> QED
      BY <3>1, <3>2
  <2>10. ASSUME NEW i \in 1 .. Len(w) - 1 PROVE Follows(w[i], w[i + 1])
    <3>1. i \in 1 .. a + b - 1
      BY <2>3
    <3>2. CASE i < a
      <4>1. i \in 1 .. a /\ i + 1 \in 1 .. a /\ i \in 1 .. a - 1
        BY <3>1, <3>2
      <4> QED
        BY <2>2, <2>3, <2>5, <4>1 DEF InLine
    <3>3. CASE i = a
      <4>1. i \in 1 .. a /\ 1 \in 1 .. b /\ a >= 1
        BY <2>4, <3>1, <3>3
      <4>2. w[i] = x[a] /\ w[i + 1] = y[1]
        BY <2>3, <3>3, <4>1
      <4>3. n - 1 # 0 /\ (n - 1) + 1 = n
        BY <2>6, <4>1
      <4>4. x[a].at = Size(x[a].kind) /\ x[a].req = << s, g, n - 1 >>
        BY <2>5, <4>3
      <4> QED
        BY <2>7, <4>2, <4>3, <4>4 DEF Follows
    <3>4. CASE i > a
      <4>1. /\ i - a \in 1 .. b /\ (i - a) + 1 \in 1 .. b /\ i - a \in 1 .. b - 1
            /\ a + (i - a) = i /\ a + ((i - a) + 1) = i + 1
        BY <3>1, <3>4
      <4>2. PICK j \in Nat : j = i - a
        BY <3>4
      <4>3. w[i] = y[j] /\ w[i + 1] = y[j + 1]
        BY <2>3, <4>1, <4>2
      <4> QED
        BY <2>2, <2>4, <4>1, <4>2, <4>3 DEF InLine
    <3> QED
      BY <3>1, <3>2, <3>3, <3>4
  <2>11. InLine(w, s, g, 1)
    BY <2>9, <2>10 DEF InLine
  <2>12. Len(w) >= 1
    BY <2>3, <2>4
  <2>13. w[Len(w)].at = Size(w[Len(w)].kind) /\ w[Len(w)].req = << s, g, n >>
    BY <2>3, <2>4, <2>8
  <2>14. n \in 0 .. N
    OBVIOUS
  <2> QED
    BY <2>1, <2>11, <2>12, <2>13, <2>14
<1>9. N \in Good
  <2> HIDE DEF Good
  <2>1. \A n \in 0 .. N : n \in Good
    BY <1>7, <1>8, Upwards
  <2> QED
    BY <2>1
<1> QED
  BY <1>6, <1>9

-----------------------------------------------------------------------------
(* What the completions still hold for a connection *)

LEMMA CarriesIs ==
  ASSUME NEW e \in Completions, NEW s, NEW g
  PROVE  Carries(e, s, g) \in Bytes
<1>1. e.op = "recv" => e.data \in Bytes
  BY DEF Completions, Accepts, Sent, Recvs
<1> QED
  BY <1>1, NothingJoined DEF Carries

LEMMA PendingIs ==
  ASSUME NEW q \in Seq(Completions), NEW s, NEW g
  PROVE  /\ Pending(q, s, g) \in Bytes
         /\ [i \in DOMAIN q |-> Carries(q[i], s, g)] \in Seq(Bytes)
         /\ Len([i \in DOMAIN q |-> Carries(q[i], s, g)]) = Len(q)
<1>1. PICK N \in Nat : N = Len(q) /\ DOMAIN q = 1 .. N
  BY LenProperties
<1>2. \A i \in 1 .. N : Carries(q[i], s, g) \in Bytes
  BY <1>1, CarriesIs
<1>3. [i \in 1 .. N |-> Carries(q[i], s, g)] \in Seq(Bytes)
  BY <1>2
<1>4. Len([i \in 1 .. N |-> Carries(q[i], s, g)]) = N
  OBVIOUS
<1> QED
  BY <1>1, <1>3, <1>4, FlattenBytes DEF Pending

LEMMA PendingAppend ==
  ASSUME NEW q \in Seq(Completions), NEW e \in Completions, NEW s, NEW g
  PROVE  Pending(Append(q, e), s, g) = Pending(q, s, g) \o Carries(e, s, g)
<1>1. PICK N \in Nat : N = Len(q) /\ DOMAIN q = 1 .. N
  BY LenProperties
<1>2. PICK r \in Seq(Completions) : r = Append(q, e)
  BY AppendProperties
<1>3. Len(r) = N + 1 /\ r[N + 1] = e /\ (\A i \in 1 .. N : r[i] = q[i]) /\ DOMAIN r = 1 .. N + 1
  BY <1>1, <1>2, AppendProperties, LenProperties
<1>4. PICK a \in Seq(Bytes) : a = [i \in DOMAIN q |-> Carries(q[i], s, g)]
  BY PendingIs
<1>5. PICK b \in Seq(Bytes) : b = [i \in DOMAIN r |-> Carries(r[i], s, g)]
  BY PendingIs
<1>6. PICK x \in Bytes : x = Carries(e, s, g)
  BY CarriesIs
<1>7. b = Append(a, x)
  <2>1. PICK c \in Seq(Bytes) : c = Append(a, x)
    BY AppendProperties
  <2>2. Len(a) = N /\ Len(b) = N + 1
    BY <1>1, <1>3, <1>4, <1>5, PendingIs
  <2>3. Len(c) = N + 1 /\ c[N + 1] = x /\ \A i \in 1 .. N : c[i] = a[i]
    BY <2>1, <2>2, AppendProperties
  <2>4. ASSUME NEW i \in 1 .. N + 1 PROVE b[i] = c[i]
    <3>1. b[i] = Carries(r[i], s, g)
      BY <1>3, <1>5
    <3>2. CASE i = N + 1
      BY <1>3, <1>6, <2>3, <3>1, <3>2
    <3>3. CASE i # N + 1
      <4>1. i \in 1 .. N
        BY <3>3
      <4>2. a[i] = Carries(q[i], s, g)
        BY <1>1, <1>4, <4>1
      <4> QED
        BY <1>3, <2>3, <3>1, <4>1, <4>2
    <3> QED
      BY <3>2, <3>3
  <2>5. b = c
    BY <2>2, <2>3, <2>4, SeqEqual
  <2> QED
    BY <2>1, <2>5
<1>8. FlattenSeq(b) = FlattenSeq(a) \o x
  BY <1>7, FlattenAppend
<1> QED
  BY <1>2, <1>4, <1>5, <1>6, <1>8 DEF Pending

LEMMA PendingTail ==
  ASSUME NEW q \in Seq(Completions), q # << >>, NEW s, NEW g
  PROVE  Pending(q, s, g) = Carries(Head(q), s, g) \o Pending(Tail(q), s, g)
<1>1. PICK r \in Seq(Completions) : r = Tail(q)
  BY HeadTailProperties
<1>2. PICK N \in Nat : N = Len(r) /\ DOMAIN r = 1 .. N
  BY LenProperties
<1>3. /\ Len(q) = N + 1 /\ Head(q) = q[1] /\ (\A i \in 1 .. N : r[i] = q[i + 1])
      /\ DOMAIN q = 1 .. N + 1
  BY <1>1, <1>2, HeadTailProperties, LenProperties
<1>4. PICK a \in Seq(Bytes) : a = [i \in DOMAIN q |-> Carries(q[i], s, g)]
  BY PendingIs
<1>5. PICK b \in Seq(Bytes) : b = [i \in DOMAIN r |-> Carries(r[i], s, g)]
  BY PendingIs
<1>6. Len(a) = N + 1 /\ Len(b) = N
  BY <1>2, <1>3, <1>4, <1>5, PendingIs
<1>7. a # << >> /\ Head(a) = a[1]
  BY <1>6, HeadTailProperties, EmptySeq
<1>8. a[1] = Carries(Head(q), s, g)
  BY <1>3, <1>4
<1>9. Tail(a) = b
  <2>1. PICK c \in Seq(Bytes) : c = Tail(a)
    BY <1>7, HeadTailProperties
  <2>2. Len(c) = N /\ \A i \in 1 .. N : c[i] = a[i + 1]
    BY <1>6, <1>7, <2>1, HeadTailProperties
  <2>3. ASSUME NEW i \in 1 .. N PROVE c[i] = b[i]
    <3>1. i + 1 \in 1 .. N + 1
      OBVIOUS
    <3>2. a[i + 1] = Carries(q[i + 1], s, g) /\ b[i] = Carries(r[i], s, g)
      BY <1>2, <1>3, <1>4, <1>5, <3>1
    <3> QED
      BY <1>3, <2>2, <3>2
  <2>4. c = b
    BY <1>6, <2>2, <2>3, SeqEqual
  <2> QED
    BY <2>1, <2>4
<1>10. FlattenSeq(a) = Head(a) \o FlattenSeq(Tail(a))
  BY <1>7, FlattenTail
<1> QED
  BY <1>1, <1>4, <1>5, <1>7, <1>8, <1>9, <1>10 DEF Pending

\* No completion is for this connection.
LEMMA PendingNone ==
  ASSUME NEW q \in Seq(Completions), NEW s, NEW g,
         \A i \in DOMAIN q : q[i].op = "recv" /\ q[i].slot = s => q[i].tag # g
  PROVE  Pending(q, s, g) = << >>
<1>1. PICK a \in Seq(Bytes) : a = [i \in DOMAIN q |-> Carries(q[i], s, g)]
  BY PendingIs
<1>2. PICK f : Flattens(f, a) /\ FlattenSeq(a) = f[Len(a)]
  BY FlattenIs
<1>3. PICK N \in Nat : N = Len(q) /\ DOMAIN q = 1 .. N /\ N = Len(a)
  BY <1>1, LenProperties, PendingIs
<1>4. \A i \in 1 .. N : a[i] = << >>
  BY <1>1, <1>3 DEF Carries
<1> DEFINE Good == {n \in 0 .. N : f[n] = << >>}
<1>5. 0 \in Good
  BY <1>2 DEF Flattens
<1>6. ASSUME NEW n \in 1 .. N, n - 1 \in Good PROVE n \in Good
  <2>1. f[n] = f[n - 1] \o a[n] /\ a[n] = << >> /\ n \in 0 .. N
    <3>1. f[n] = f[n - 1] \o a[n]
      BY <1>2, <1>3 DEF Flattens
    <3>2. a[n] = << >>
      BY <1>4
    <3> QED
      BY <3>1, <3>2
  <2>2. f[n - 1] = << >>
    BY <1>6
  <2>3. << >> \o << >> = << >>
    BY NothingJoined
  <2> QED
    BY <2>1, <2>2, <2>3
<1>7. N \in Good
  <2> HIDE DEF Good
  <2>1. \A n \in 0 .. N : n \in Good
    BY <1>5, <1>6, Upwards
  <2> QED
    BY <2>1
<1> QED
  BY <1>1, <1>2, <1>3, <1>7 DEF Pending

-----------------------------------------------------------------------------
(* What does not touch a connection *)

SameWork(c, d) ==
  /\ d.inUse = c.inUse /\ d.generation = c.generation /\ d.in = c.in
  /\ d.sendInFlight = c.sendInFlight /\ d.batched = c.batched
  /\ d.deferred = c.deferred /\ d.deferredKeepAlive = c.deferredKeepAlive

Same(u, v, s) ==
  /\ SameWork(u.conn[s], v.conn[s])
  /\ \A t \in Tickets : u.ticket[t].slot = s \/ v.ticket[t].slot = s => v.ticket[t] = u.ticket[t]
  /\ \A k : k.slot = s => (k \in v.tokens <=> k \in u.tokens)
  /\ s \in v.closes <=> s \in u.closes

\* Only the connection of slot s is touched.
Elsewhere(u, v, s) == \A r \in Slots : r # s => Same(u, v, r)

\* No connection is touched.
Everywhere(u, v) ==
  /\ \A s \in Slots : SameWork(u.conn[s], v.conn[s])
  /\ v.ticket = u.ticket /\ v.tokens = u.tokens /\ v.closes = u.closes /\ v.batch = u.batch
  /\ Tagged(u) => Tagged(v)

LEMMA TaggedStays ==
  ASSUME NEW u, NEW v, v.recvs = u.recvs,
         \A s \in Slots : v.conn[s].generation = u.conn[s].generation
  PROVE  Tagged(u) => Tagged(v)
  BY DEF Tagged

LEMMA SameIs ==
  ASSUME NEW u, NEW v, NEW s, Same(u, v, s)
  PROVE  /\ Mine(v, s) = Mine(u, s)
         /\ Ending(v, s) = Ending(u, s)
         /\ \A t \in Mine(u, s) : v.ticket[t] = u.ticket[t]
         /\ Past(u, s) => Past(v, s)
<1>1. Mine(v, s) = Mine(u, s) /\ \A t \in Mine(u, s) : v.ticket[t] = u.ticket[t]
  BY DEF Same, SameWork, Mine
<1>2. Ending(v, s) = Ending(u, s)
  BY <1>1 DEF Same, SameWork, Ending
<1>3. Past(u, s) => Past(v, s)
  <2> SUFFICES ASSUME Past(u, s) PROVE Past(v, s)
    OBVIOUS
  <2>1. ASSUME NEW t \in Tickets, v.ticket[t].slot = s
        PROVE  v.ticket[t].generation <= v.conn[s].generation
    BY <2>1 DEF Same, SameWork, Past
  <2>2. ASSUME NEW k \in v.tokens, k.slot = s PROVE k.generation <= v.conn[s].generation
    BY <2>2 DEF Same, SameWork, Past
  <2>3. \A t, x \in Mine(v, s) : t = x
    BY <1>1 DEF Past
  <2> QED
    BY <2>1, <2>2, <2>3 DEF Past
<1> QED
  BY <1>1, <1>2, <1>3

LEMMA SameLine ==
  ASSUME NEW u, NEW v, NEW s, NEW w, NEW D, Same(u, v, s), Line(u, s, w, D)
  PROVE  Line(v, s, w, D)
<1>1. /\ Mine(v, s) = Mine(u, s)
      /\ Ending(v, s) = Ending(u, s)
      /\ \A t \in Mine(u, s) : v.ticket[t] = u.ticket[t]
      /\ Past(v, s)
  BY SameIs DEF Line, Owned
<1>2. SameWork(u.conn[s], v.conn[s])
  BY DEF Same
<1>3. Start(v, s, w, D) = Start(u, s, w, D)
  BY <1>1, <1>2 DEF Start, SameWork
<1>4. Owned(v, s, w, D)
  <2>1. Owned(u, s, w, D)
    BY DEF Line
  <2> QED
    BY <1>1, <1>2, <2>1 DEF Owned, SameWork
<1>5. Served(u, s, w, D) => Served(v, s, w, D)
  <2> SUFFICES ASSUME Served(u, s, w, D) PROVE Served(v, s, w, D)
    OBVIOUS
  <2>1. InStep(v.conn[s])
    BY <1>2 DEF SameWork, InStep, Served
  <2>2. Mine(v, s) # {} <=> v.conn[s].sendInFlight
    BY <1>1, <1>2 DEF SameWork, Served
  <2>3. w.over => v.conn[s].sendInFlight /\ Ending(v, s)
    BY <1>1, <1>2 DEF SameWork, Served
  <2>4. \A k \in v.tokens : k.slot = s /\ k.generation = v.conn[s].generation =>
          v.conn[s].deferred /\ k.req = << s, v.conn[s].generation, w.turn >>
    BY <1>2 DEF SameWork, Same, Served
  <2>5. Len(v.conn[s].in) + Len(w.rest) <= API_MAX_REQUEST_SIZE
    BY <1>2 DEF SameWork, Served
  <2>6. v.conn[s].generation < TagWidth /\ ~Ending(v, s) =>
          InLine(v.conn[s].in \o w.rest, s, v.conn[s].generation, Start(v, s, w, D))
    BY <1>1, <1>2, <1>3 DEF SameWork, Served
  <2> QED
    BY <2>1, <2>2, <2>3, <2>4, <2>5, <2>6 DEF Served
<1> QED
  BY <1>2, <1>4, <1>5 DEF Line, Same, SameWork

LEMMA SameBatch ==
  ASSUME NEW u, NEW v, NEW s, NEW q, NEW n, InBatch(u, q, n, s),
         v.conn[s].generation = u.conn[s].generation, v.conn[s].batched = u.conn[s].batched
  PROVE  InBatch(v, q, n, s)
  BY DEF InBatch

LEMMA SameTwice ==
  ASSUME NEW u, NEW v, NEW x, NEW s, Same(u, v, s), Same(v, x, s)
  PROVE  Same(u, x, s)
<1>1. SameWork(u.conn[s], x.conn[s])
  BY DEF Same, SameWork
<1>2. \A t \in Tickets : u.ticket[t].slot = s \/ x.ticket[t].slot = s => x.ticket[t] = u.ticket[t]
  BY DEF Same
<1>3. \A k : k.slot = s => (k \in x.tokens <=> k \in u.tokens)
  BY DEF Same
<1>4. s \in x.closes <=> s \in u.closes
  BY DEF Same
<1> QED
  BY <1>1, <1>2, <1>3, <1>4 DEF Same

LEMMA SameEverywhere ==
  ASSUME NEW u, NEW v, Everywhere(u, v)
  PROVE  /\ \A s \in Slots : Same(u, v, s)
         /\ \A D : Unsaid(u, D) => Unsaid(v, D)
  BY DEF Everywhere, Same, Unsaid

LEMMA EverywhereTwice ==
  ASSUME NEW u, NEW v, NEW x, Everywhere(u, v), Everywhere(v, x)
  PROVE  Everywhere(u, x)
  BY DEF Everywhere, SameWork

\* One connection changes.
LEMMA SlotStep ==
  ASSUME NEW u, NEW v, NEW W \in [Slots -> Worlds], NEW D, NEW q, NEW n, NEW s \in Slots,
         Lined(u, W, D, q, n), Elsewhere(u, v, s), Unsaid(v, D), InBatch(v, q, n, s),
         NEW w \in Worlds, Line(v, s, w, D), NEW X, X = [W EXCEPT ![s] = w]
  PROVE  Lined(v, X, D, q, n)
<1>1. X[s] = w /\ \A r \in Slots : r # s => X[r] = W[r]
  OBVIOUS
<1>2. ASSUME NEW r \in Slots PROVE Line(v, r, X[r], D) /\ InBatch(v, q, n, r)
  <2>1. CASE r = s
    BY <1>1, <2>1
  <2>2. CASE r # s
    <3>1. Same(u, v, r) /\ Line(u, r, W[r], D) /\ InBatch(u, q, n, r)
      BY <2>2 DEF Elsewhere, Lined
    <3>2. Line(v, r, W[r], D)
      BY <3>1, SameLine
    <3>3. v.conn[r].generation = u.conn[r].generation /\ v.conn[r].batched = u.conn[r].batched
      BY <3>1 DEF Same, SameWork
    <3> QED
      BY <1>1, <2>2, <3>1, <3>2, <3>3, SameBatch
  <2> QED
    BY <2>1, <2>2
<1> QED
  BY <1>2 DEF Lined

\* None does.
LEMMA NoneSteps ==
  ASSUME NEW u, NEW v, NEW W, NEW D, NEW q, NEW n, Lined(u, W, D, q, n), Everywhere(u, v)
  PROVE  Lined(v, W, D, q, n)
<1>1. \A s \in Slots : Same(u, v, s)
  BY SameEverywhere
<1>2. Unsaid(v, D)
  BY SameEverywhere DEF Lined
<1>3. ASSUME NEW s \in Slots PROVE Line(v, s, W[s], D) /\ InBatch(v, q, n, s)
  <2>1. Same(u, v, s) /\ Line(u, s, W[s], D) /\ InBatch(u, q, n, s)
    BY <1>1 DEF Lined
  <2>2. v.conn[s].generation = u.conn[s].generation /\ v.conn[s].batched = u.conn[s].batched
    BY <2>1 DEF Same, SameWork
  <2> QED
    BY <2>1, <2>2, SameLine, SameBatch
<1> QED
  BY <1>2, <1>3 DEF Lined

\* Nothing is under way on a connection.
AtRest(u, s, w) ==
  LET c == u.conn[s]
  IN  /\ c.inUse /\ w.live /\ ~w.over /\ s \notin u.closes
      /\ Past(u, s) /\ Mine(u, s) = {}
      /\ ~c.sendInFlight /\ ~c.deferred /\ ~c.batched /\ c.generation >= 1
      /\ \A k \in u.tokens : k.slot = s => k.generation # c.generation

\* The request that is answered next is the first in buf.
Ready(buf, s, g, w) ==
  /\ Len(buf) + Len(w.rest) <= API_MAX_REQUEST_SIZE
  /\ buf # << >> => g < TagWidth
  /\ g < TagWidth => InLine(buf \o w.rest, s, g, w.turn)

\* What a change of one connection leaves alone: the others, and the batch.
Alone(u, v, s) ==
  /\ Elsewhere(u, v, s)
  /\ v.batch = u.batch
  /\ v.conn[s].generation = u.conn[s].generation
  /\ Tagged(u) => Tagged(v)

LEMMA ElsewhereIs ==
  ASSUME NEW u, NEW v, NEW s \in Slots,
         \A r \in Slots : r # s => v.conn[r] = u.conn[r],
         \A t \in Tickets : \/ v.ticket[t] = u.ticket[t]
                            \/ u.ticket[t].slot \in {s, NoSlot} /\ v.ticket[t].slot \in {s, NoSlot},
         \A k : k.slot # s => (k \in v.tokens <=> k \in u.tokens),
         \A r \in Slots : r # s => (r \in v.closes <=> r \in u.closes)
  PROVE  Elsewhere(u, v, s)
<1>1. ASSUME NEW r \in Slots, r # s PROVE Same(u, v, r)
  <2>1. SameWork(u.conn[r], v.conn[r])
    BY <1>1 DEF SameWork
  <2>2. r # NoSlot
    BY SlotsAre
  <2>3. \A t \in Tickets : u.ticket[t].slot = r \/ v.ticket[t].slot = r => v.ticket[t] = u.ticket[t]
    BY <1>1, <2>2
  <2>4. \A k : k.slot = r => (k \in v.tokens <=> k \in u.tokens)
    BY <1>1
  <2> QED
    BY <1>1, <2>1, <2>3, <2>4 DEF Same
<1> QED
  BY <1>1 DEF Elsewhere

LEMMA AloneTwice ==
  ASSUME NEW u, NEW v, NEW x, NEW s, Alone(u, v, s), Alone(v, x, s)
  PROVE  Alone(u, x, s)
<1>1. \A r \in Slots : r # s => Same(u, x, r)
  BY SameTwice DEF Alone, Elsewhere
<1> QED
  BY <1>1 DEF Alone, Elsewhere

LEMMA RestOf ==
  ASSUME NEW u \in States, NEW s \in Slots, NEW w \in Worlds, NEW D, Line(u, s, w, D),
         u.conn[s].inUse, ~u.conn[s].sendInFlight, ~u.conn[s].deferred, ~u.conn[s].batched
  PROVE  AtRest(u, s, w) /\ Ready(u.conn[s].in, s, u.conn[s].generation, w)
<1>1. Served(u, s, w, D) /\ Owned(u, s, w, D) /\ w.live /\ s \notin u.closes
  BY DEF Line
<1>2. Mine(u, s) = {} /\ ~w.over /\ u.conn[s].generation >= 1
  BY <1>1 DEF Served, InStep
<1>3. \A k \in u.tokens : k.slot = s => k.generation # u.conn[s].generation
  BY <1>1 DEF Served
<1>4. AtRest(u, s, w)
  BY <1>1, <1>2, <1>3 DEF AtRest, Owned
<1>5. Start(u, s, w, D) = w.turn /\ ~Ending(u, s)
  BY <1>2 DEF Start, Ending
<1> QED
  BY <1>1, <1>4, <1>5 DEF Served, InStep, Ready

LEMMA RestsInLine ==
  ASSUME NEW u \in States, NEW s \in Slots, NEW w \in Worlds, NEW D, AtRest(u, s, w),
         Ready(u.conn[s].in, s, u.conn[s].generation, w)
  PROVE  Line(u, s, w, D)
<1>1. Owned(u, s, w, D)
  BY DEF AtRest, Owned
<1>2. Start(u, s, w, D) = w.turn /\ ~Ending(u, s)
  BY DEF Start, Ending, AtRest
<1>3. InStep(u.conn[s])
  BY DEF AtRest, Ready, InStep
<1>4. Served(u, s, w, D)
  BY <1>2, <1>3 DEF AtRest, Ready, Served
<1> QED
  BY <1>1, <1>4 DEF Line, AtRest

\* A connection at rest that is set aside for the batch.
LEMMA BatchedLine ==
  ASSUME NEW u \in States, NEW s \in Slots, NEW w \in Worlds, NEW D, AtRest(u, s, w),
         NEW buf \in Bytes, buf # << >>, Ready(buf, s, u.conn[s].generation, w),
         NEW v, v.conn = [u.conn EXCEPT ![s] = [@ EXCEPT !.in = buf, !.batched = TRUE]],
         v.ticket = u.ticket, v.tokens = u.tokens, v.closes = u.closes
  PROVE  Line(v, s, w, D) /\ Elsewhere(u, v, s)
<1>1. /\ v.conn[s] = [u.conn[s] EXCEPT !.in = buf, !.batched = TRUE]
      /\ \A r \in Slots : r # s => v.conn[r] = u.conn[r]
  BY StatesAre
<1>2. u.conn[s] \in Connections
  BY ConnIs
<1>3. PICK c : c = u.conn[s]
  OBVIOUS
<1>4. PICK d : d = v.conn[s]
  OBVIOUS
<1>5. /\ d.inUse = c.inUse /\ d.generation = c.generation /\ d.in = buf
      /\ d.sendInFlight = c.sendInFlight /\ d.batched = TRUE
      /\ d.deferred = c.deferred /\ d.deferredKeepAlive = c.deferredKeepAlive
  BY <1>1, <1>2, <1>3, <1>4 DEF Connections
<1>6. Mine(v, s) = {} /\ Past(v, s)
  BY <1>3, <1>4, <1>5 DEF AtRest, Mine, Past
<1>7. Owned(v, s, w, D)
  BY <1>6 DEF AtRest, Owned
<1>8. Start(v, s, w, D) = w.turn /\ ~Ending(v, s)
  BY <1>3, <1>4, <1>5, <1>6 DEF Start, Ending, AtRest
<1>9. InStep(d)
  BY <1>3, <1>5 DEF AtRest, Ready, InStep
<1>10. Served(v, s, w, D)
  <2>1. Mine(v, s) # {} <=> d.sendInFlight
    BY <1>3, <1>5, <1>6 DEF AtRest
  <2>2. ~w.over /\ \A k \in v.tokens : k.slot = s => k.generation # d.generation
    BY <1>3, <1>5 DEF AtRest
  <2>3. Len(d.in) + Len(w.rest) <= API_MAX_REQUEST_SIZE
    BY <1>5 DEF Ready
  <2>4. InLine(d.in \o w.rest, s, d.generation, Start(v, s, w, D))
    BY <1>3, <1>5, <1>8 DEF Ready
  <2> QED
    BY <1>4, <1>9, <2>1, <2>2, <2>3, <2>4 DEF Served
<1>11. Line(v, s, w, D)
  BY <1>3, <1>4, <1>5, <1>7, <1>10 DEF Line, AtRest
<1>12. Elsewhere(u, v, s)
  BY <1>1, ElsewhereIs
<1> QED
  BY <1>11, <1>12

\* What a connection at rest holds is replaced.
Hold(u, s, in) == [u EXCEPT !.conn[s].in = in]

LEMMA HoldRests ==
  ASSUME NEW u \in States, NEW s \in Slots, NEW w, NEW D, AtRest(u, s, w),
         Unsaid(u, D), NEW in, NEW v, v = Hold(u, s, in)
  PROVE  /\ AtRest(v, s, w) /\ v.conn[s].in = in
         /\ Alone(u, v, s) /\ Unsaid(v, D) /\ v.ticket = u.ticket
<1>1. /\ v.conn = [u.conn EXCEPT ![s].in = in] /\ v.ticket = u.ticket /\ v.batch = u.batch
      /\ v.tokens = u.tokens /\ v.closes = u.closes /\ v.recvs = u.recvs
  BY DEF States, Hold
<1>2. /\ v.conn[s] = [u.conn[s] EXCEPT !.in = in]
      /\ \A r \in Slots : r # s => v.conn[r] = u.conn[r]
  BY <1>1, StatesAre
<1>3. u.conn[s] \in Connections
  BY ConnIs
<1>4. PICK c : c = u.conn[s]
  OBVIOUS
<1>5. PICK d : d = v.conn[s]
  OBVIOUS
<1>6. /\ d.inUse = c.inUse /\ d.generation = c.generation /\ d.in = in
      /\ d.sendInFlight = c.sendInFlight /\ d.batched = c.batched
      /\ d.deferred = c.deferred
  BY <1>2, <1>3, <1>4, <1>5 DEF Connections
<1>7. Mine(v, s) = Mine(u, s) /\ (Past(u, s) => Past(v, s))
  BY <1>1, <1>4, <1>5, <1>6 DEF Mine, Past
<1>8. AtRest(v, s, w)
  BY <1>1, <1>4, <1>5, <1>6, <1>7 DEF AtRest
<1>9. Elsewhere(u, v, s)
  BY <1>1, <1>2, ElsewhereIs
<1>10. Unsaid(v, D)
  BY <1>1 DEF Unsaid
<1>11. \A r \in Slots : v.conn[r].generation = u.conn[r].generation
  BY <1>2, <1>4, <1>5, <1>6
<1>12. Tagged(u) => Tagged(v)
  BY <1>1, <1>11, TaggedStays
<1> QED
  BY <1>1, <1>2, <1>4, <1>5, <1>6, <1>8, <1>9, <1>10, <1>12 DEF Alone

\* A response leaves a connection at rest on a ticket that is nobody's.
LEMMA RespondLine ==
  ASSUME NEW u \in States, NEW s \in Slots, NEW w \in Worlds, NEW D, AtRest(u, s, w),
         Unsaid(u, D), NEW t \in Tickets, u.ticket[t].slot = NoSlot, NEW last \in BOOLEAN,
         NEW req, NEW g, g = u.conn[s].generation, NEW in, in = u.conn[s].in,
         req = << s, g, w.turn >> \/ (req = << s, g, StatusOnly >> /\ last),
         Len(in) + Len(w.rest) <= API_MAX_REQUEST_SIZE, in # << >> => g < TagWidth,
         ~last /\ g < TagWidth => InLine(in \o w.rest, s, g, w.turn + 1),
         NEW v, v = Respond(u, s, t, req, last)
  PROVE  Line(v, s, w, D) /\ Alone(u, v, s) /\ Unsaid(v, D) /\ ~v.conn[s].batched
<1>1. /\ v.conn = [u.conn EXCEPT ![s].sendInFlight = TRUE]
      /\ v.ticket = [u.ticket EXCEPT ![t] =
                       [busy |-> TRUE, slot |-> s, req |-> req, generation |-> g,
                        closeWhenWritten |-> last]]
      /\ v.batch = u.batch /\ v.tokens = u.tokens /\ v.closes = u.closes
      /\ v.recvs = u.recvs
  BY DEF States, Respond
<1>2. /\ v.conn[s] = [u.conn[s] EXCEPT !.sendInFlight = TRUE]
      /\ \A r \in Slots : r # s => v.conn[r] = u.conn[r]
  BY <1>1, StatesAre
<1>3. PICK k : k = v.ticket[t]
  OBVIOUS
<1>4. /\ k.slot = s /\ k.generation = g /\ k.req = req /\ k.closeWhenWritten = last /\ k.busy
      /\ \A x \in Tickets : x # t => v.ticket[x] = u.ticket[x]
  BY <1>1, <1>3, StatesAre
<1>5. u.conn[s] \in Connections
  BY ConnIs
<1>6. PICK c : c = u.conn[s]
  OBVIOUS
<1>7. PICK d : d = v.conn[s]
  OBVIOUS
<1>8. /\ d.inUse = c.inUse /\ d.generation = g /\ d.in = in
      /\ d.sendInFlight = TRUE /\ d.batched = c.batched
      /\ d.deferred = c.deferred
  BY <1>2, <1>5, <1>6, <1>7 DEF Connections
<1>9. /\ c.inUse /\ w.live /\ ~w.over /\ s \notin u.closes /\ Past(u, s) /\ Mine(u, s) = {}
      /\ ~c.deferred /\ ~c.batched /\ g >= 1 /\ g \in Nat
      /\ \A x \in u.tokens : x.slot = s => x.generation # g
  BY <1>5, <1>6 DEF AtRest, Connections
<1>10. t \notin D /\ s # NoSlot
  BY SlotsAre DEF Unsaid
<1>11. Mine(v, s) = {t}
  <2>1. t \in Mine(v, s)
    BY <1>3, <1>4, <1>7, <1>8 DEF Mine
  <2>2. ASSUME NEW x \in Mine(v, s), x # t PROVE x \in Mine(u, s)
    BY <1>4, <1>7, <1>8, <2>2 DEF Mine
  <2> QED
    BY <1>9, <2>1, <2>2
<1>12. Past(v, s)
  <2>1. ASSUME NEW x \in Tickets, v.ticket[x].slot = s
        PROVE  v.ticket[x].generation <= v.conn[s].generation
    <3>1. CASE x = t
      BY <1>3, <1>4, <1>7, <1>8, <1>9, <3>1
    <3>2. CASE x # t
      BY <1>4, <1>7, <1>8, <1>9, <2>1, <3>2 DEF Past
    <3> QED
      BY <3>1, <3>2
  <2>2. \A x \in v.tokens : x.slot = s => x.generation <= v.conn[s].generation
    BY <1>1, <1>7, <1>8, <1>9 DEF Past
  <2> QED
    BY <1>11, <2>1, <2>2 DEF Past
<1>13. Owned(v, s, w, D)
  <2>1. \A x \in Mine(v, s) \ D :
           \/ v.ticket[x].req = << s, v.conn[s].generation, w.turn >>
           \/ /\ v.ticket[x].req = << s, v.conn[s].generation, StatusOnly >>
              /\ v.ticket[x].closeWhenWritten
    BY <1>3, <1>4, <1>7, <1>8, <1>11
  <2> QED
    BY <1>9, <1>12, <2>1 DEF Owned
<1>14. Start(v, s, w, D) = w.turn + 1
  BY <1>10, <1>11 DEF Start
<1>15. Ending(v, s) <=> last
  BY <1>3, <1>4, <1>7, <1>8, <1>9, <1>11 DEF Ending
<1>16. InStep(d)
  BY <1>8, <1>9 DEF InStep
<1>17. Served(v, s, w, D)
  <2>1. Mine(v, s) # {} <=> d.sendInFlight
    BY <1>8, <1>11
  <2>2. \A x \in v.tokens : x.slot = s => x.generation # d.generation
    BY <1>1, <1>8, <1>9
  <2>3. Len(d.in) + Len(w.rest) <= API_MAX_REQUEST_SIZE
    BY <1>8
  <2>4. d.generation < TagWidth /\ ~Ending(v, s) =>
          InLine(d.in \o w.rest, s, d.generation, Start(v, s, w, D))
    BY <1>8, <1>14, <1>15
  <2> QED
    BY <1>7, <1>9, <1>16, <2>1, <2>2, <2>3, <2>4 DEF Served
<1>18. Line(v, s, w, D)
  BY <1>1, <1>7, <1>8, <1>9, <1>13, <1>17 DEF Line
<1>19. Elsewhere(u, v, s)
  <2>1. \A x \in Tickets : \/ v.ticket[x] = u.ticket[x]
                           \/ u.ticket[x].slot \in {s, NoSlot} /\ v.ticket[x].slot \in {s, NoSlot}
    BY <1>3, <1>4
  <2> QED
    BY <1>1, <1>2, <2>1, ElsewhereIs
<1>20. Unsaid(v, D)
  <2>1. ASSUME NEW x \in Tickets, ~v.ticket[x].busy PROVE v.ticket[x].slot = NoSlot
    BY <1>3, <1>4, <2>1 DEF Unsaid
  <2>2. ASSUME NEW x \in D PROVE x \in Tickets /\ v.ticket[x].slot \in Slots
    BY <1>4, <1>10 DEF Unsaid
  <2> QED
    BY <2>1, <2>2 DEF Unsaid
<1>21. \A r \in Slots : v.conn[r].generation = u.conn[r].generation
  BY <1>2, <1>7, <1>8, ZenonT(30)
<1>22. Tagged(u) => Tagged(v)
  BY <1>1, <1>21, TaggedStays
<1> QED
  BY <1>1, <1>6, <1>7, <1>8, <1>9, <1>18, <1>19, <1>20, <1>22 DEF Alone

LEMMA CloseLine ==
  ASSUME NEW u \in States, NEW s \in Slots, NEW w \in Worlds, NEW D,
         u.conn[s].inUse, w.live, Owned(u, s, w, D),
         NEW v, v = CloseConnection(u, s)
  PROVE  /\ Line(v, s, w, D) /\ Alone(u, v, s)
         /\ \A E : Unsaid(u, E) => Unsaid(v, E)
         /\ v.conn[s].batched = u.conn[s].batched
<1>1. /\ v.conn = [u.conn EXCEPT ![s] = [u.conn[s] EXCEPT !.inUse = FALSE, !.recvArmed = FALSE,
                                                         !.in = << >>]]
      /\ v.closes = u.closes \cup {s}
      /\ v.ticket = u.ticket /\ v.batch = u.batch /\ v.tokens = u.tokens
      /\ v.recvs = u.recvs
  BY StatesAre DEF States, CloseConnection
<1>2. /\ v.conn[s] = [u.conn[s] EXCEPT !.inUse = FALSE, !.recvArmed = FALSE, !.in = << >>]
      /\ \A r \in Slots : r # s => v.conn[r] = u.conn[r]
  BY <1>1, StatesAre
<1>3. u.conn[s] \in Connections
  BY ConnIs
<1>4. PICK c : c = u.conn[s]
  OBVIOUS
<1>5. PICK d : d = v.conn[s]
  OBVIOUS
<1>6. ~d.inUse /\ d.generation = c.generation /\ d.batched = c.batched
  BY <1>2, <1>3, <1>4, <1>5 DEF Connections
<1>7. Mine(v, s) = Mine(u, s) /\ (Past(u, s) => Past(v, s))
  BY <1>1, <1>4, <1>5, <1>6 DEF Mine, Past
<1>8. Owned(v, s, w, D)
  BY <1>1, <1>4, <1>5, <1>6, <1>7 DEF Owned
<1>9. Line(v, s, w, D)
  BY <1>1, <1>5, <1>6, <1>8 DEF Line
<1>10. Elsewhere(u, v, s)
  BY <1>1, <1>2, ElsewhereIs
<1>11. \A E : Unsaid(u, E) => Unsaid(v, E)
  BY <1>1 DEF Unsaid
<1>12. \A r \in Slots : v.conn[r].generation = u.conn[r].generation
  BY <1>2, <1>4, <1>5, <1>6
<1>13. Tagged(u) => Tagged(v)
  <2>1. v.recvs = u.recvs
    BY <1>1
  <2> QED
    BY <1>12, <2>1, TaggedStays
<1> QED
  BY <1>1, <1>4, <1>5, <1>6, <1>9, <1>10, <1>11, <1>13 DEF Alone

\* A connection at rest is refused.
LEMMA StatusLine ==
  ASSUME NEW u \in States, NEW s \in Slots, NEW w \in Worlds, NEW D, AtRest(u, s, w),
         Unsaid(u, D), NEW g, g = u.conn[s].generation, NEW in, in = u.conn[s].in,
         Len(in) + Len(w.rest) <= API_MAX_REQUEST_SIZE, in # << >> => g < TagWidth,
         NEW v, v = SendStatusAndClose(u, s)
  PROVE  Line(v, s, w, D) /\ Alone(u, v, s) /\ Unsaid(v, D) /\ ~v.conn[s].batched
<1>1. CASE FreeTickets(u) = {}
  <2>1. v = CloseConnection(u, s)
    BY <1>1 DEF SendStatusAndClose
  <2>2. Owned(u, s, w, D) /\ u.conn[s].inUse /\ w.live /\ ~u.conn[s].batched
    BY DEF AtRest, Owned
  <2> QED
    BY <2>1, <2>2, CloseLine
<1>2. CASE FreeTickets(u) # {}
  <2>1. PICK t : t = CHOOSE x \in FreeTickets(u) : TRUE
    OBVIOUS
  <2>2. t \in FreeTickets(u)
    BY <1>2, <2>1
  <2>3. t \in Tickets /\ u.ticket[t].slot = NoSlot
    BY <2>2 DEF FreeTickets, Unsaid
  <2>4. PICK req : req = << s, g, StatusOnly >>
    OBVIOUS
  <2>5. v = Respond(u, s, t, req, TRUE)
    BY <1>2, <2>1, <2>4 DEF SendStatusAndClose, RequestOf
  <2> QED
    BY <2>3, <2>4, <2>5, RespondLine
<1> QED
  BY <1>1, <1>2

LEMMA TagOf ==
  ASSUME NEW g \in Nat
  PROVE  Tag(g) \in Nat /\ Tag(g) < TagWidth /\ (g < TagWidth => Tag(g) = g)
<1>1. PICK n \in Nat : n = TagWidth /\ n > 0
  BY RingAssumption DEF RingAssumption
<1>2. g % n \in Nat /\ g % n < n
  BY <1>1
<1>3. g < n => g % n = g
  BY <1>1, SMTT(30)
<1> QED
  BY <1>1, <1>2, <1>3 DEF Tag

\* The answer comes later, and the ticket is given back.
Deferring(u, s, t, keep, k) ==
  [ReleaseSendTicket(u, t) EXCEPT !.conn[s].deferred = TRUE, !.conn[s].deferredKeepAlive = keep,
                                  !.tokens = @ \cup {k}]

LEMMA DeferLine ==
  ASSUME NEW u \in States, NEW s \in Slots, NEW w \in Worlds, NEW D, AtRest(u, s, w),
         Unsaid(u, D), NEW t \in Tickets, u.ticket[t].slot = NoSlot, NEW keep \in BOOLEAN,
         NEW g, g = u.conn[s].generation, NEW in, in = u.conn[s].in, g < TagWidth,
         Len(in) + Len(w.rest) <= API_MAX_REQUEST_SIZE,
         InLine(in \o w.rest, s, g, w.turn + 1),
         NEW k, k = [slot |-> s, req |-> << s, g, w.turn >>, generation |-> Tag(g)],
         NEW v, v = Deferring(u, s, t, keep, k)
  PROVE  Line(v, s, w, D) /\ Alone(u, v, s) /\ Unsaid(v, D) /\ ~v.conn[s].batched
<1>1. PICK e : e = [u.conn[s] EXCEPT !.deferred = TRUE, !.deferredKeepAlive = keep]
  BY SMTT(30)
<1>2. /\ v.conn = [u.conn EXCEPT ![s] = e]
      /\ v.ticket = [u.ticket EXCEPT ![t] = FreeTicket]
      /\ v.tokens = u.tokens \cup {k}
      /\ v.batch = u.batch /\ v.closes = u.closes /\ v.recvs = u.recvs
  <2>1. PICK y : y = ReleaseSendTicket(u, t)
    OBVIOUS
  <2>2. /\ y.conn = u.conn /\ y.ticket = [u.ticket EXCEPT ![t] = FreeTicket]
        /\ y.tokens = u.tokens /\ y.batch = u.batch /\ y.closes = u.closes
        /\ y.recvs = u.recvs
        /\ DOMAIN y = DOMAIN u
    BY <2>1 DEF States, ReleaseSendTicket
  <2>3. v = [y EXCEPT !.conn[s].deferred = TRUE, !.conn[s].deferredKeepAlive = keep,
                      !.tokens = @ \cup {k}]
    BY <2>1 DEF Deferring
  <2>4. v.conn = [y.conn EXCEPT ![s].deferred = TRUE, ![s].deferredKeepAlive = keep]
    BY <2>2, <2>3 DEF States
  <2>5. [u.conn EXCEPT ![s].deferred = TRUE, ![s].deferredKeepAlive = keep]
          = [u.conn EXCEPT ![s] = e]
    BY <1>1, StatesAre
  <2>6. /\ v.ticket = y.ticket /\ v.tokens = y.tokens \cup {k}
        /\ v.batch = y.batch /\ v.closes = y.closes /\ v.recvs = y.recvs
    BY <2>2, <2>3, ZenonT(30) DEF States
  <2> QED
    BY <2>2, <2>4, <2>6, <2>5
<1>3. /\ v.conn[s] = e
      /\ \A r \in Slots : r # s => v.conn[r] = u.conn[r]
  <2>1. u.conn \in [Slots -> Connections]
    BY StatesAre
  <2>2. v.conn = [u.conn EXCEPT ![s] = e]
    BY <1>2
  <2> QED
    BY <2>1, <2>2
<1>4. /\ v.ticket[t] = FreeTicket
      /\ \A y \in Tickets : y # t => v.ticket[y] = u.ticket[y]
  <2>1. u.ticket \in [Tickets -> TicketStates]
    BY StatesAre
  <2>2. v.ticket = [u.ticket EXCEPT ![t] = FreeTicket]
    BY <1>2
  <2> QED
    BY <2>1, <2>2
<1>5. FreeTicket.slot = NoSlot /\ s # NoSlot /\ t \notin D
  BY SlotsAre DEF FreeTicket, Unsaid
<1>6. u.conn[s] \in Connections
  BY ConnIs
<1>7. PICK c : c = u.conn[s]
  OBVIOUS
<1>8. PICK d : d = v.conn[s]
  OBVIOUS
<1>9. /\ d.inUse = c.inUse /\ d.generation = g /\ d.in = in
      /\ d.sendInFlight = c.sendInFlight /\ d.batched = c.batched
      /\ d.deferred = TRUE
  BY <1>1, <1>3, <1>6, <1>7, <1>8 DEF Connections
<1>10. /\ c.inUse /\ w.live /\ ~w.over /\ s \notin u.closes /\ Past(u, s) /\ Mine(u, s) = {}
      /\ ~c.sendInFlight /\ ~c.batched /\ g >= 1 /\ g \in Nat
      /\ \A x \in u.tokens : x.slot = s => x.generation # g
  BY <1>6, <1>7 DEF AtRest, Connections
<1>11. k.slot = s /\ k.generation = g /\ k.req = << s, g, w.turn >>
  BY <1>10, TagOf
<1>12. Mine(v, s) = {}
  <2> SUFFICES ASSUME NEW x \in Mine(v, s) PROVE FALSE
    BY SMTT(30)
  <2>1. x \in Tickets /\ v.ticket[x].slot = s /\ v.ticket[x].generation = g
    BY <1>8, <1>9 DEF Mine
  <2>2. x # t
    BY <1>4, <1>5, <2>1, SMTT(30)
  <2>3. x \in Mine(u, s)
    BY <1>4, <2>1, <2>2, ZenonT(30) DEF Mine
  <2> QED
    BY <1>10, <2>3
<1>13. Past(v, s)
  <2>1. \A x \in Tickets : v.ticket[x].slot = s => v.ticket[x].generation <= g
    BY <1>4, <1>5, <1>10 DEF Past
  <2>2. \A x \in v.tokens : x.slot = s => x.generation <= g
    BY <1>2, <1>10, <1>11, SMTT(30) DEF Past
  <2> QED
    BY <1>8, <1>9, <1>12, <2>1, <2>2, ZenonT(30) DEF Past
<1>14. Owned(v, s, w, D)
  BY <1>10, <1>12, <1>13, ZenonT(30) DEF Owned
<1>15. Start(v, s, w, D) = w.turn + 1
  BY <1>8, <1>9 DEF Start
<1>16. InStep(d)
  BY <1>9, <1>10, SMTT(30) DEF InStep
<1>17. Served(v, s, w, D)
  <2>1. Mine(v, s) # {} <=> d.sendInFlight
    BY <1>9, <1>10, <1>12
  <2>2. \A x \in v.tokens : x.slot = s /\ x.generation = d.generation =>
                            d.deferred /\ x.req = << s, d.generation, w.turn >>
    BY <1>2, <1>9, <1>10, <1>11
  <2>3. Len(d.in) + Len(w.rest) <= API_MAX_REQUEST_SIZE
    BY <1>9
  <2>4. InLine(d.in \o w.rest, s, d.generation, Start(v, s, w, D))
    BY <1>9, <1>15
  <2> QED
    BY <1>8, <1>10, <1>16, <2>1, <2>2, <2>3, <2>4, ZenonT(30) DEF Served
<1>18. Line(v, s, w, D)
  BY <1>2, <1>8, <1>9, <1>10, <1>14, <1>17 DEF Line
<1>19. Elsewhere(u, v, s)
  <2>1. \A x \in Tickets : \/ v.ticket[x] = u.ticket[x]
                           \/ u.ticket[x].slot \in {s, NoSlot} /\ v.ticket[x].slot \in {s, NoSlot}
    BY <1>4, <1>5, SMTT(30)
  <2> QED
    BY <1>2, <1>3, <1>11, <2>1, ElsewhereIs
<1>20. Unsaid(v, D)
  <2>1. ASSUME NEW x \in Tickets, ~v.ticket[x].busy PROVE v.ticket[x].slot = NoSlot
    BY <1>4, <1>5, <2>1 DEF Unsaid
  <2>2. ASSUME NEW x \in D PROVE x \in Tickets /\ v.ticket[x].slot \in Slots
    BY <1>4, <1>5 DEF Unsaid
  <2> QED
    BY <2>1, <2>2 DEF Unsaid
<1>21. \A r \in Slots : v.conn[r].generation = u.conn[r].generation
  BY <1>3, <1>8, <1>9
<1>22. Tagged(u) => Tagged(v)
  BY <1>2, <1>21, TaggedStays
<1> QED
  BY <1>2, <1>7, <1>8, <1>9, <1>10, <1>18, <1>19, <1>20, <1>22 DEF Alone

\* What follows a handler's call for the request at the start of buf, on a ticket that
\* has been acquired for it.
LEMMA FinishLine ==
  ASSUME NEW u, NEW A, NEW P, NEW F, NEW b, Fine(u, A, P, F, b), NEW s \in Slots,
         NEW w \in Worlds, NEW D, AtRest(u, s, w), Unsaid(u, D),
         NEW t \in A, u.ticket[t].slot = NoSlot,
         NEW buf \in Bytes, NextFrame(buf) = "ready", Ready(buf, s, u.conn[s].generation, w),
         NEW outcome, NEW v, v = Finish(u, s, t, buf, outcome)
  PROVE  Line(v, s, w, D) /\ Alone(u, v, s) /\ Unsaid(v, D) /\ ~v.conn[s].batched
<1>1. u \in States /\ u.conn[s] \in Connections
  BY FineIs, ConnIs
<1>2. PICK g \in Nat : g = u.conn[s].generation
  BY <1>1 DEF Connections
<1>3. t \in Tickets
  BY DEF Fine, Accounted
<1>4. buf # << >> /\ g < TagWidth
  BY <1>2, BytesAre DEF Ready
<1>5. PICK tail \in Bytes : tail = KeepTail(buf, TotalLength(buf))
  BY BytesAre
<1>6. w.rest \in Bytes /\ w.turn \in Nat
  BY DEF Worlds
<1>7. PICK rest \in Bytes, k \in Nat : rest = w.rest /\ k = w.turn
  BY <1>6
<1>8. InLine(buf \o rest, s, g, k)
  BY <1>2, <1>4, <1>7 DEF Ready
<1>9. Head(buf).req = << s, g, k >> /\ Len(tail) <= Len(buf) /\ InLine(tail \o rest, s, g, k + 1)
  <2>1. Head(buf).req = << s, g, k >>
    <3>1. PICK z \in Bytes : z = buf \o rest
      BY BothBytes
    <3>2. Head(buf) = buf[1] /\ Len(buf) \in Nat /\ Len(buf) >= 1
      BY <1>4, BytesTyped
    <3>3. z[1] = buf[1] /\ Len(z) >= 1
      <4>1. Len(z) = Len(buf) + Len(rest) /\ \A i \in 1 .. Len(buf) : z[i] = buf[i]
        BY <3>1, Concats
      <4>2. Len(rest) \in Nat
        BY BytesTyped
      <4> QED
        BY <3>2, <4>1, <4>2
    <3>4. z # << >> => z[1].req = << s, g, k >>
      BY <1>8, <3>1 DEF InLine
    <3> QED
      BY <3>2, <3>3, <3>4
  <2>2. Len(KeepTail(buf, TotalLength(buf))) <= Len(buf)
    BY <1>8, BufferInLine
  <2>3. InLine(KeepTail(buf, TotalLength(buf)) \o rest, s, g, k + 1)
    BY <1>8, BufferInLine
  <2> QED
    BY <1>5, <2>1, <2>2, <2>3
<1>10. Len(tail) + Len(rest) <= API_MAX_REQUEST_SIZE
  <2>1. Len(tail) \in Nat /\ Len(buf) \in Nat /\ Len(rest) \in Nat
    BY BytesTyped
  <2>2. Len(buf) + Len(rest) <= API_MAX_REQUEST_SIZE
    BY <1>7 DEF Ready
  <2>3. API_MAX_REQUEST_SIZE \in Nat
    BY RingAssumption DEF RingAssumption
  <2> QED
    BY <1>9, <2>1, <2>2, <2>3
<1>11. PICK x : x = Hold(u, s, tail)
  OBVIOUS
<1>12. x \in States
  <2>1. Fine(x, A, P, F \cup {s}, b)
    BY <1>11, HoldsNow DEF Hold
  <2> QED
    BY <2>1, FineIs
<1>13. /\ AtRest(x, s, w) /\ x.conn[s].in = tail /\ Alone(u, x, s) /\ Unsaid(x, D)
       /\ x.ticket = u.ticket /\ x.conn[s].generation = g
  <2>1. /\ AtRest(x, s, w) /\ x.conn[s].in = tail /\ Alone(u, x, s) /\ Unsaid(x, D)
        /\ x.ticket = u.ticket
    BY <1>1, <1>11, HoldRests
  <2> QED
    BY <1>2, <2>1 DEF Alone
<1>14. CASE outcome = "defer"
  <2>1. PICK keep \in BOOLEAN : keep = KeepAlive(buf)
    BY BytesAre
  <2>2. PICK y : y = [slot |-> s, req |-> << s, g, k >>, generation |-> Tag(g)]
    OBVIOUS
  <2>3. v = Deferring(x, s, t, keep, y)
    BY <1>2, <1>5, <1>9, <1>11, <1>14, <2>1, <2>2 DEF Finish, Deferring, Hold
  <2>4. Line(v, s, w, D) /\ Alone(x, v, s) /\ Unsaid(v, D) /\ ~v.conn[s].batched
    <3>1. /\ AtRest(x, s, w) /\ Unsaid(x, D) /\ x.ticket[t].slot = NoSlot
          /\ g = x.conn[s].generation /\ tail = x.conn[s].in
      BY <1>13
    <3>2. Len(tail) + Len(w.rest) <= API_MAX_REQUEST_SIZE
      BY <1>7, <1>10
    <3>3. InLine(tail \o w.rest, s, g, w.turn + 1)
      BY <1>7, <1>9
    <3>4. y = [slot |-> s, req |-> << s, g, w.turn >>, generation |-> Tag(g)]
      BY <1>7, <2>2
    <3> QED
      BY <1>3, <1>4, <1>12, <2>3, <3>1, <3>2, <3>3, <3>4, DeferLine, ZenonT(30)
  <2> QED
    BY <1>13, <2>4, AloneTwice
<1>15. CASE outcome = "fail"
  <2>1. PICK y : y = ReleaseSendTicket(u, t)
    OBVIOUS
  <2>2. Fine(y, A \ {t}, P \ {t}, F, b) /\ y \in States
    <3>1. Fine(y, A \ {t}, P \ {t}, F, b)
      BY <2>1, ReleaseDoes
    <3> QED
      BY <3>1, FineIs
  <2>3. /\ y.conn = u.conn /\ y.tokens = u.tokens /\ y.closes = u.closes /\ y.batch = u.batch
        /\ y.ticket = [u.ticket EXCEPT ![t] = FreeTicket] /\ y.recvs = u.recvs
    BY <1>1, <2>1 DEF States, ReleaseSendTicket
  <2>4. /\ y.ticket[t].slot = NoSlot
        /\ \A r \in Tickets : r # t => y.ticket[r] = u.ticket[r]
    BY <1>1, <1>3, <2>3, StatesAre DEF FreeTicket
  <2>5. Mine(y, s) = Mine(u, s) /\ (Past(u, s) => Past(y, s))
    <3>1. s # NoSlot
      BY SlotsAre
    <3>2. Mine(y, s) = Mine(u, s)
      BY <2>3, <2>4, <3>1 DEF Mine
    <3> QED
      BY <2>3, <2>4, <3>1, <3>2 DEF Past
  <2>6. AtRest(y, s, w)
    BY <2>3, <2>5 DEF AtRest
  <2>7. t \notin D
    BY SlotsAre DEF Unsaid
  <2>8. Unsaid(y, D)
    BY <2>4, <2>7 DEF Unsaid
  <2>9. Alone(u, y, s)
    <3>1. Elsewhere(u, y, s)
      BY <2>3, <2>4, ElsewhereIs
    <3>2. Tagged(u) => Tagged(y)
      BY <2>3, TaggedStays
    <3> QED
      BY <2>3, <3>1, <3>2 DEF Alone
  <2>10. PICK z : z = DropRest(y, s)
    OBVIOUS
  <2>11. z \in States
    <3>1. Fine(z, A \ {t}, P \ {t}, F \ {s}, b)
      BY <2>2, <2>10, DropRestDoes
    <3> QED
      BY <3>1, FineIs
  <2>12. z = Hold(y, s, << >>)
    BY <2>10 DEF DropRest, Hold
  <2>13. AtRest(z, s, w) /\ z.conn[s].in = << >> /\ Alone(y, z, s) /\ Unsaid(z, D)
    BY <2>2, <2>6, <2>8, <2>12, HoldRests
  <2>14. v = SendStatusAndClose(z, s)
    BY <1>15, <2>1, <2>10 DEF Finish
  <2>15. Len(<< >>) + Len(w.rest) <= API_MAX_REQUEST_SIZE
    <3>1. Len(buf) \in Nat /\ Len(rest) \in Nat /\ Len(<< >>) = 0
      BY BytesTyped
    <3>2. Len(buf) + Len(rest) <= API_MAX_REQUEST_SIZE
      BY <1>7 DEF Ready
    <3>3. API_MAX_REQUEST_SIZE \in Nat
      BY RingAssumption DEF RingAssumption
    <3> QED
      BY <1>7, <3>1, <3>2, <3>3
  <2>16. Line(v, s, w, D) /\ Alone(z, v, s) /\ Unsaid(v, D) /\ ~v.conn[s].batched
    BY <2>11, <2>13, <2>14, <2>15, StatusLine
  <2>17. Alone(u, z, s)
    BY <2>9, <2>13, AloneTwice
  <2> QED
    BY <2>16, <2>17, AloneTwice
<1>16. CASE outcome # "defer" /\ outcome # "fail"
  <2>1. PICK last \in BOOLEAN : last = ~KeepAlive(buf)
    BY BytesAre
  <2>2. PICK req : req = << s, g, k >>
    OBVIOUS
  <2>3. v = Respond(x, s, t, req, last)
    BY <1>5, <1>9, <1>11, <1>16, <2>1, <2>2 DEF Finish, Hold
  <2>4. Line(v, s, w, D) /\ Alone(x, v, s) /\ Unsaid(v, D) /\ ~v.conn[s].batched
    BY <1>3, <1>4, <1>7, <1>9, <1>10, <1>12, <1>13, <2>2, <2>3, RespondLine
  <2> QED
    BY <1>13, <2>4, AloneTwice
<1> QED
  BY <1>14, <1>15, <1>16

\* Only places in the queues, and what is armed, are touched.
Still(u, v) ==
  /\ \A s \in Slots : SameWork(u.conn[s], v.conn[s])
  /\ v.ticket = u.ticket /\ v.tokens = u.tokens /\ v.closes = u.closes /\ v.batch = u.batch
  /\ v.recvs = u.recvs

LEMMA StillEverywhere ==
  ASSUME NEW u, NEW v, Still(u, v)
  PROVE  Everywhere(u, v)
<1>1. \A s \in Slots : v.conn[s].generation = u.conn[s].generation
  BY DEF Still, SameWork
<1>2. Tagged(u) => Tagged(v)
  BY <1>1, TaggedStays DEF Still
<1> QED
  BY <1>2 DEF Still, Everywhere

LEMMA EverywhereSelf ==
  ASSUME NEW u
  PROVE  Everywhere(u, u)
  BY DEF Everywhere, SameWork

LEMMA QueueForTicketStill ==
  ASSUME NEW u \in States, NEW s \in Slots, NEW v, v = QueueForTicket(u, s)
  PROVE  Still(u, v)
<1>1. u.conn \in [Slots -> Connections]
  BY StatesAre
<1>2. CASE u.conn[s].waitingForTicket
  BY <1>2 DEF QueueForTicket, Still, SameWork
<1>3. CASE ~u.conn[s].waitingForTicket
  <2>1. PICK x : x = [u EXCEPT !.conn[s].waitingForTicket = TRUE,
                        !.conn[s].nextWaiting = NoSlot, !.waitingTail = s]
    OBVIOUS
  <2>2. Still(u, x) /\ DOMAIN x = DOMAIN u /\ x.conn \in [Slots -> Connections]
    <3>1. PICK d : d = [u.conn[s] EXCEPT !.waitingForTicket = TRUE, !.nextWaiting = NoSlot]
      OBVIOUS
    <3>2. d \in Connections /\ SameWork(u.conn[s], d)
      BY <1>1, <3>1, ZenonT(30) DEF Connections, Links, SameWork
    <3>3. x.conn = [u.conn EXCEPT ![s] = d]
      BY <1>1, <2>1, <3>1 DEF States
    <3>4. DOMAIN x = DOMAIN u /\ x.ticket = u.ticket /\ x.tokens = u.tokens
          /\ x.closes = u.closes /\ x.batch = u.batch /\ x.recvs = u.recvs
      BY <2>1 DEF States
    <3> QED
      BY <1>1, <3>2, <3>3, <3>4 DEF Still, SameWork
  <2>3. v = IF u.waitingTail = NoSlot THEN [x EXCEPT !.waitingHead = s]
            ELSE [x EXCEPT !.conn[u.waitingTail].nextWaiting = s]
    BY <1>3, <2>1 DEF QueueForTicket
  <2>4. Still(x, v)
    BY <2>2, <2>3, SMTT(30) DEF Still, SameWork, States, Connections, Links
  <2> QED
    BY <2>2, <2>4 DEF Still, SameWork
<1> QED
  BY <1>2, <1>3

LEMMA QueueForRearmStill ==
  ASSUME NEW u \in States, NEW s \in Slots, NEW v, v = QueueForRearm(u, s)
  PROVE  Still(u, v)
<1>1. u.conn \in [Slots -> Connections]
  BY StatesAre
<1>2. CASE u.conn[s].waitingForRearm
  BY <1>2 DEF QueueForRearm, Still, SameWork
<1>3. CASE ~u.conn[s].waitingForRearm
  <2>1. PICK x : x = [u EXCEPT !.conn[s].waitingForRearm = TRUE,
                        !.conn[s].nextRearm = NoSlot, !.rearmTail = s]
    OBVIOUS
  <2>2. Still(u, x) /\ DOMAIN x = DOMAIN u /\ x.conn \in [Slots -> Connections]
    <3>1. PICK d : d = [u.conn[s] EXCEPT !.waitingForRearm = TRUE, !.nextRearm = NoSlot]
      OBVIOUS
    <3>2. d \in Connections /\ SameWork(u.conn[s], d)
      BY <1>1, <3>1, ZenonT(30) DEF Connections, Links, SameWork
    <3>3. x.conn = [u.conn EXCEPT ![s] = d]
      BY <1>1, <2>1, <3>1 DEF States
    <3>4. DOMAIN x = DOMAIN u /\ x.ticket = u.ticket /\ x.tokens = u.tokens
          /\ x.closes = u.closes /\ x.batch = u.batch /\ x.recvs = u.recvs
      BY <2>1 DEF States
    <3> QED
      BY <1>1, <3>2, <3>3, <3>4 DEF Still, SameWork
  <2>3. v = IF u.rearmTail = NoSlot THEN [x EXCEPT !.rearmHead = s]
            ELSE [x EXCEPT !.conn[u.rearmTail].nextRearm = s]
    BY <1>3, <2>1 DEF QueueForRearm
  <2>4. Still(x, v)
    BY <2>2, <2>3 DEF Still, SameWork, States, Connections, Links
  <2> QED
    BY <2>2, <2>4 DEF Still, SameWork
<1> QED
  BY <1>2, <1>3

LEMMA PopWaitingStill ==
  ASSUME NEW u \in States, NEW v, v = PopWaiting(u)
  PROVE  Still(u, v)
<1>1. u.conn \in [Slots -> Connections]
  BY StatesAre
<1> QED
  BY <1>1 DEF PopWaiting, Still, SameWork, States, Connections

LEMMA PopRearmStill ==
  ASSUME NEW u \in States, NEW v, v = PopRearm(u)
  PROVE  Still(u, v)
<1>1. u.conn \in [Slots -> Connections]
  BY StatesAre
<1> QED
  BY <1>1 DEF PopRearm, Still, SameWork, States, Connections

LEMMA DisarmStill ==
  ASSUME NEW u \in States, NEW s \in Slots, NEW v, v = [u EXCEPT !.conn[s].recvArmed = FALSE]
  PROVE  Still(u, v)
<1>1. u.conn \in [Slots -> Connections]
  BY StatesAre
<1> QED
  BY <1>1 DEF Still, SameWork, States, Connections

LEMMA ArmRecvEverywhere ==
  ASSUME NEW u \in States, NEW s \in Slots, NEW v, v = ArmRecv(u, s)
  PROVE  Everywhere(u, v)
<1>1. u.conn \in [Slots -> Connections] /\ u.recvs \in [Slots -> Seq(Nat)]
  BY StatesAre
<1>2. CASE u.conn[s].deferred
  <2>1. v = [u EXCEPT !.conn[s].recvArmed = FALSE]
    BY <1>2 DEF ArmRecv
  <2>2. Still(u, v)
    BY <2>1, DisarmStill
  <2> QED
    BY <2>2, StillEverywhere
<1>3. CASE ~u.conn[s].deferred
  <2>1. PICK g \in Nat : g = u.conn[s].generation
    BY ConnIs
  <2>2. Tag(g) \in Nat /\ Tag(g) < TagWidth /\ (g < TagWidth => Tag(g) = g)
    BY TagOf
  <2>3. PICK tag \in Nat : tag = Tag(g)
    BY <2>2
  <2>4. PICK more : more = Append(u.recvs[s], tag)
    OBVIOUS
  <2>5. v = [u EXCEPT !.conn[s].recvArmed = TRUE, !.recvs[s] = more]
    BY <1>3, <2>1, <2>3, <2>4 DEF ArmRecv
  <2>6. /\ \A r \in Slots : SameWork(u.conn[r], v.conn[r])
        /\ v.ticket = u.ticket /\ v.tokens = u.tokens /\ v.closes = u.closes
        /\ v.batch = u.batch
        /\ v.recvs[s] = more /\ \A r \in Slots : r # s => v.recvs[r] = u.recvs[r]
    BY <1>1, <2>5 DEF SameWork, States, Connections
  <2>7. \A r \in Slots : v.conn[r].generation = u.conn[r].generation
    BY <2>6 DEF SameWork
  <2>8. Tagged(u) => Tagged(v)
    <3> SUFFICES ASSUME Tagged(u), NEW r \in Slots, NEW i \in DOMAIN v.recvs[r]
                 PROVE  /\ v.recvs[r][i] < TagWidth
                        /\ u.conn[r].generation < TagWidth =>
                             v.recvs[r][i] <= u.conn[r].generation
      BY <2>7 DEF Tagged
    <3>1. CASE i \in DOMAIN u.recvs[r] /\ v.recvs[r][i] = u.recvs[r][i]
      BY <3>1 DEF Tagged
    <3>2. CASE r = s /\ v.recvs[r][i] = tag
      BY <2>1, <2>2, <2>3, <3>2
    <3>3. \/ i \in DOMAIN u.recvs[r] /\ v.recvs[r][i] = u.recvs[r][i]
          \/ r = s /\ v.recvs[r][i] = tag
      <4>1. PICK q \in Seq(Nat) : q = u.recvs[s]
        BY <1>1
      <4>2. \A j \in DOMAIN Append(q, tag) :
              \/ j \in DOMAIN q /\ Append(q, tag)[j] = q[j]
              \/ Append(q, tag)[j] = tag
        BY AppendProperties, LenProperties
      <4> QED
        BY <2>4, <2>6, <4>1, <4>2
    <3> QED
      BY <3>1, <3>2, <3>3
  <2> QED
    BY <2>6, <2>8 DEF Everywhere
<1> QED
  BY <1>2, <1>3

LEMMA StillTwice ==
  ASSUME NEW u, NEW v, NEW x, Still(u, v), Still(v, x)
  PROVE  Still(u, x)
  BY DEF Still, SameWork

\* The connection that is taken off the queue for a ticket is the same as before.
LEMMA TakeNextStill ==
  ASSUME NEW u, NEW A, NEW P, NEW F, NEW b, Fine(u, A, P, F, b),
         NEW v, v = TakeNextWaiting(u).u
  PROVE  Still(u, v)
<1> DEFINE U == {x \in States : Fine(x, A, P, F, b) /\ Still(u, x)}
<1>1. u \in U
  BY FineIs DEF Still, SameWork
<1>2. ASSUME NEW x \in U PROVE PassWaiting(x) \in U
  <2>1. PICK y : y = PassWaiting(x)
    OBVIOUS
  <2>2. Fine(y, A, P, F, b) /\ y \in States
    <3>1. Fine(y, A, P, F, b)
      BY <2>1, PassWaitingDoes
    <3> QED
      BY <3>1, FineIs
  <2>3. y = x \/ y = PopWaiting(x)
    BY <2>1 DEF PassWaiting
  <2>4. Still(u, y)
    <3>1. CASE y = x
      BY <3>1
    <3>2. CASE y = PopWaiting(x)
      <4>1. x \in States /\ Still(u, x)
        OBVIOUS
      <4>2. Still(x, y)
        BY <3>2, <4>1, PopWaitingStill
      <4> QED
        BY <4>1, <4>2, StillTwice
    <3> QED
      BY <2>3, <3>1, <3>2
  <2> QED
    BY <2>1, <2>2, <2>4
<1> HIDE DEF U
<1>3. PICK w \in U : TakeNextWaiting(u) =
        [u    |-> IF w.waitingHead = NoSlot THEN w ELSE PopWaiting(w),
         slot |-> w.waitingHead]
  BY <1>1, <1>2, TakeNextSteps
<1>4. w \in States /\ Still(u, w)
  BY DEF U
<1>5. v = w \/ v = PopWaiting(w)
  BY <1>3
<1>6. CASE v = PopWaiting(w)
  <2>1. Still(w, v)
    BY <1>4, <1>6, PopWaitingStill
  <2> QED
    BY <1>4, <2>1, StillTwice
<1> QED
  BY <1>4, <1>5, <1>6

LEMMA RearmOneEverywhere ==
  ASSUME NEW u, NEW A, NEW P, NEW F, NEW b, Fine(u, A, P, F, b),
         NEW v, v = RearmOneWaiting(u)
  PROVE  Everywhere(u, v)
<1> DEFINE U == {x \in States : Fine(x, A, P, F, b) /\ Still(u, x)}
<1>1. u \in U
  BY FineIs DEF Still, SameWork
<1>2. ASSUME NEW x \in U PROVE PassRearm(x) \in U
  <2>1. PICK y : y = PassRearm(x)
    OBVIOUS
  <2>2. Fine(y, A, P, F, b) /\ y \in States
    <3>1. Fine(y, A, P, F, b)
      BY <2>1, PassRearmDoes
    <3> QED
      BY <3>1, FineIs
  <2>3. y = x \/ y = PopRearm(x)
    BY <2>1 DEF PassRearm
  <2>4. Still(u, y)
    <3>1. CASE y = x
      BY <3>1
    <3>2. CASE y = PopRearm(x)
      <4>1. x \in States /\ Still(u, x)
        OBVIOUS
      <4>2. Still(x, y)
        BY <3>2, <4>1, PopRearmStill
      <4> QED
        BY <4>1, <4>2, StillTwice
    <3> QED
      BY <2>3, <3>1, <3>2
  <2> QED
    BY <2>1, <2>2, <2>4
<1> HIDE DEF U
<1>3. PICK w \in U : RearmOneWaiting(u) = IF w.rearmHead = NoSlot THEN w
                                          ELSE ArmRecv(PopRearm(w), w.rearmHead)
  BY <1>1, <1>2, RearmOneSteps
<1>4. w \in States /\ Still(u, w) /\ Fine(w, A, P, F, b)
  BY DEF U
<1>5. CASE w.rearmHead = NoSlot
  BY <1>3, <1>4, <1>5, StillEverywhere
<1>6. CASE w.rearmHead # NoSlot
  <2>1. PICK x : x = PopRearm(w)
    OBVIOUS
  <2>2. w.rearmHead \in Slots /\ Fine(PopRearm(w), A, P, F, b)
    BY <1>4, <1>6, PopRearmDoes
  <2>3. x \in States
    BY <2>1, <2>2, FineIs
  <2>4. Still(w, x)
    BY <1>4, <2>1, PopRearmStill
  <2>5. PICK s \in Slots : s = w.rearmHead
    BY <2>2
  <2>6. v = ArmRecv(x, s)
    BY <1>3, <1>6, <2>1, <2>5
  <2>7. Everywhere(x, v)
    BY <2>3, <2>6, ArmRecvEverywhere
  <2>8. Still(u, x)
    BY <1>4, <2>4, StillTwice
  <2>9. Everywhere(u, x)
    BY <2>8, StillEverywhere
  <2> QED
    BY <2>7, <2>9, EverywhereTwice
<1> QED
  BY <1>5, <1>6

LEMMA RecycleEverywhere ==
  ASSUME NEW u, NEW A, NEW P, NEW F, NEW b, Fine(u, A, P, F, b),
         NEW v, v = RecycleRecvBuffer(u)
  PROVE  Everywhere(u, v)
<1>1. u \in States /\ Tidy(u, F, b) /\ Accounted(u, A, P) /\ u.buffers = b
  BY FineIs DEF Fine, Tidy
<1>2. PICK n \in Nat : n = u.buffers + 1
  BY <1>1, StatesAre
<1>3. PICK x : x = [u EXCEPT !.buffers = n]
  OBVIOUS
<1>4. /\ x \in States /\ x.conn = u.conn /\ SameQueues(u, x) /\ x.buffers = n
      /\ SameTickets(u, x)
  BY <1>1, <1>3, StatesAre DEF States, SameQueues, SameTickets
<1>5. Fine(x, A, P, F, n)
  BY <1>1, <1>4, RestStep, AccountKept DEF Fine
<1>6. v = RearmOneWaiting(x)
  BY <1>1, <1>2, <1>3 DEF RecycleRecvBuffer, States
<1>7. Everywhere(x, v)
  BY <1>5, <1>6, RearmOneEverywhere
<1>8. Still(u, x)
  <2>1. x.ticket = u.ticket /\ x.tokens = u.tokens /\ x.closes = u.closes /\ x.batch = u.batch
        /\ x.recvs = u.recvs
    BY <1>1, <1>3 DEF States
  <2> QED
    BY <1>4, <2>1 DEF Still, SameWork
<1>9. Everywhere(u, x)
  BY <1>8, StillEverywhere
<1> QED
  BY <1>7, <1>9, EverywhereTwice

LEMMA RearmAfterEverywhere ==
  ASSUME NEW u \in States, NEW s \in Slots, NEW v, v = RearmAfter(u, s)
  PROVE  Everywhere(u, v)
<1>1. CASE v = u
  BY <1>1, EverywhereSelf
<1>2. CASE v = ArmRecv(u, s)
  BY <1>2, ArmRecvEverywhere
<1> QED
  BY <1>1, <1>2 DEF RearmAfter

-----------------------------------------------------------------------------
(* A batch in line *)

LEMMA SameRests ==
  ASSUME NEW u, NEW v, NEW s, NEW w, AtRest(u, s, w), Same(u, v, s)
  PROVE  AtRest(v, s, w)
<1>1. Mine(v, s) = Mine(u, s) /\ Past(v, s)
  BY SameIs DEF AtRest
<1> QED
  BY <1>1 DEF AtRest, Same, SameWork

\* A connection leaves the batch.
Unset(u, s) == [u EXCEPT !.conn[s].batched = FALSE]

LEMMA UnsetRests ==
  ASSUME NEW u \in States, NEW s \in Slots, NEW w \in Worlds, NEW D, Line(u, s, w, D),
         Unsaid(u, D), u.conn[s].inUse, u.conn[s].batched, NEW v, v = Unset(u, s)
  PROVE  /\ AtRest(v, s, w) /\ v.conn[s].in = u.conn[s].in
         /\ Ready(v.conn[s].in, s, v.conn[s].generation, w)
         /\ Alone(u, v, s) /\ Unsaid(v, D) /\ v.ticket = u.ticket
<1>1. /\ v.conn = [u.conn EXCEPT ![s].batched = FALSE] /\ v.ticket = u.ticket
      /\ v.tokens = u.tokens /\ v.closes = u.closes /\ v.recvs = u.recvs
      /\ v.batch = u.batch
  BY DEF States, Unset
<1>2. /\ v.conn[s] = [u.conn[s] EXCEPT !.batched = FALSE]
      /\ \A r \in Slots : r # s => v.conn[r] = u.conn[r]
  BY <1>1, StatesAre
<1>3. u.conn[s] \in Connections
  BY ConnIs
<1>4. PICK c : c = u.conn[s]
  OBVIOUS
<1>5. PICK d : d = v.conn[s]
  OBVIOUS
<1>6. /\ d.inUse = c.inUse /\ d.generation = c.generation /\ d.in = c.in
      /\ d.sendInFlight = c.sendInFlight /\ d.batched = FALSE
      /\ d.deferred = c.deferred
  BY <1>2, <1>3, <1>4, <1>5 DEF Connections
<1>7. Mine(v, s) = Mine(u, s) /\ (Past(u, s) => Past(v, s))
  BY <1>1, <1>4, <1>5, <1>6 DEF Mine, Past
<1>8. Served(u, s, w, D) /\ Owned(u, s, w, D) /\ w.live /\ s \notin u.closes
  BY DEF Line
<1>9. ~c.sendInFlight /\ ~c.deferred /\ c.generation >= 1 /\ c.in # << >>
      /\ c.generation < TagWidth
  BY <1>4, <1>8 DEF Served, InStep
<1>10. Mine(u, s) = {} /\ ~w.over
  BY <1>4, <1>8, <1>9 DEF Served
<1>11. \A k \in u.tokens : k.slot = s => k.generation # c.generation
  BY <1>4, <1>8, <1>9 DEF Served
<1>12. Start(u, s, w, D) = w.turn /\ ~Ending(u, s)
  BY <1>4, <1>9, <1>10 DEF Start, Ending
<1>13. AtRest(v, s, w)
  BY <1>1, <1>4, <1>5, <1>6, <1>7, <1>8, <1>9, <1>10, <1>11 DEF AtRest, Owned
<1>14. Ready(d.in, s, d.generation, w)
  BY <1>4, <1>6, <1>8, <1>9, <1>12 DEF Served, Ready
<1>15. Elsewhere(u, v, s)
  BY <1>1, <1>2, ElsewhereIs
<1>16. Unsaid(v, D)
  BY <1>1 DEF Unsaid
<1>17. \A r \in Slots : v.conn[r].generation = u.conn[r].generation
  BY <1>2, <1>4, <1>5, <1>6
<1>18. Tagged(u) => Tagged(v)
  <2>1. v.recvs = u.recvs
    BY <1>1
  <2> QED
    BY <1>17, <2>1, TaggedStays
<1> QED
  BY <1>1, <1>4, <1>5, <1>6, <1>13, <1>14, <1>15, <1>16, <1>18 DEF Alone

\* A ticket is acquired, and is nobody's yet.
LEMMA AcquireSame ==
  ASSUME NEW u \in States, NEW D, Unsaid(u, D), NEW t \in FreeTickets(u), NEW v, v = Acquire(u, t)
  PROVE  /\ \A s \in Slots : Same(u, v, s)
         /\ Unsaid(v, D) /\ v.batch = u.batch /\ v.recvs = u.recvs
         /\ \A x \in Tickets : v.ticket[x].slot = u.ticket[x].slot
         /\ u.ticket[t].slot = NoSlot /\ t \in Tickets
<1>1. t \in Tickets /\ ~u.ticket[t].busy
  BY FreeAre
<1>2. u.ticket[t].slot = NoSlot
  BY <1>1 DEF Unsaid
<1>3. /\ v.conn = u.conn /\ v.tokens = u.tokens /\ v.closes = u.closes /\ v.recvs = u.recvs
      /\ v.batch = u.batch /\ v.ticket = [u.ticket EXCEPT ![t].busy = TRUE]
  BY DEF Acquire, States
<1>4. u.ticket \in [Tickets -> TicketStates]
  BY StatesAre
<1>5. /\ \A x \in Tickets : x # t => v.ticket[x] = u.ticket[x]
      /\ v.ticket[t].slot = NoSlot /\ v.ticket[t].busy
  BY <1>1, <1>2, <1>3, <1>4 DEF TicketStates
<1>6. \A x \in Tickets : v.ticket[x].slot = u.ticket[x].slot
  BY <1>2, <1>5
<1>7. Unsaid(v, D)
  BY <1>1, <1>5, <1>6 DEF Unsaid
<1>8. ASSUME NEW s \in Slots PROVE Same(u, v, s)
  <2>1. s # NoSlot
    BY SlotsAre
  <2>2. \A x \in Tickets : u.ticket[x].slot = s \/ v.ticket[x].slot = s => v.ticket[x] = u.ticket[x]
    BY <1>2, <1>5, <1>6, <2>1
  <2> QED
    BY <1>3, <2>2 DEF Same, SameWork
<1> QED
  BY <1>1, <1>2, <1>3, <1>6, <1>7, <1>8

\* The tickets of others are left alone.
LEMMA StatusTickets ==
  ASSUME NEW u \in States, NEW s \in Slots, NEW v, v = SendStatusAndClose(u, s),
         NEW x \in Tickets, u.ticket[x].busy
  PROVE  v.ticket[x] = u.ticket[x]
<1>1. CASE FreeTickets(u) = {}
  <2>1. v = CloseConnection(u, s)
    BY <1>1 DEF SendStatusAndClose
  <2> QED
    BY <2>1 DEF CloseConnection, States
<1>2. CASE FreeTickets(u) # {}
  <2>1. PICK t : t = CHOOSE y \in FreeTickets(u) : TRUE
    OBVIOUS
  <2>2. t \in FreeTickets(u)
    BY <1>2, <2>1
  <2>3. t # x
    BY <2>2 DEF FreeTickets
  <2>4. PICK req : req = RequestOf(s, u.conn[s].generation, StatusOnly)
    OBVIOUS
  <2>5. v = Respond(u, s, t, req, TRUE)
    BY <1>2, <2>1, <2>4 DEF SendStatusAndClose
  <2>6. PICK k : k = [busy |-> TRUE, slot |-> s, req |-> req,
                      generation |-> u.conn[s].generation, closeWhenWritten |-> TRUE]
    OBVIOUS
  <2>7. v.ticket = [u.ticket EXCEPT ![t] = k]
    BY <2>5, <2>6 DEF Respond, States
  <2> QED
    BY <2>3, <2>7, StatesAre
<1> QED
  BY <1>1, <1>2

LEMMA FinishTickets ==
  ASSUME NEW u, NEW A, NEW P, NEW F, NEW b, Fine(u, A, P, F, b), NEW s \in Slots,
         NEW t \in A, NEW buf \in Bytes, NEW outcome, NEW v, v = Finish(u, s, t, buf, outcome),
         NEW x \in Tickets, x # t, u.ticket[x].busy
  PROVE  v.ticket[x] = u.ticket[x]
<1>1. u \in States /\ t \in Tickets
  BY FineIs DEF Fine, Accounted
<1>2. PICK tail \in Bytes : tail = KeepTail(buf, TotalLength(buf))
  BY BytesAre
<1>3. PICK y : y = Hold(u, s, tail)
  OBVIOUS
<1>4. y.ticket = u.ticket /\ DOMAIN y = DOMAIN u
  BY <1>1, <1>3 DEF Hold, States
<1>5. CASE outcome = "defer"
  <2>1. PICK keep : keep = KeepAlive(buf)
    OBVIOUS
  <2>2. PICK k : k = [slot |-> s, req |-> Head(buf).req,
                      generation |-> Tag(u.conn[s].generation)]
    OBVIOUS
  <2>3. v = Deferring(y, s, t, keep, k)
    BY <1>2, <1>3, <1>5, <2>1, <2>2 DEF Finish, Deferring, Hold
  <2>4. v.ticket = [u.ticket EXCEPT ![t] = FreeTicket]
    <3>1. PICK z : z = ReleaseSendTicket(y, t)
      OBVIOUS
    <3>2. z.ticket = [u.ticket EXCEPT ![t] = FreeTicket] /\ DOMAIN z = DOMAIN u
      BY <1>1, <1>4, <3>1 DEF ReleaseSendTicket, States
    <3>3. v = [z EXCEPT !.conn[s].deferred = TRUE, !.conn[s].deferredKeepAlive = keep,
                        !.tokens = @ \cup {k}]
      BY <2>3, <3>1 DEF Deferring
    <3>4. v.ticket = z.ticket
      BY <1>1, <3>2, <3>3 DEF States
    <3> QED
      BY <3>2, <3>4
  <2> QED
    BY <1>1, <2>4, StatesAre
<1>6. CASE outcome = "fail"
  <2>1. PICK z : z = ReleaseSendTicket(u, t)
    OBVIOUS
  <2>2. Fine(z, A \ {t}, P \ {t}, F, b)
    BY <2>1, ReleaseDoes
  <2>3. z.ticket = [u.ticket EXCEPT ![t] = FreeTicket]
    BY <1>1, <2>1 DEF ReleaseSendTicket, States
  <2>4. z.ticket[x] = u.ticket[x]
    BY <1>1, <2>3, StatesAre
  <2>5. PICK d : d = DropRest(z, s)
    OBVIOUS
  <2>6. d \in States
    <3>1. Fine(d, A \ {t}, P \ {t}, F \ {s}, b)
      BY <2>2, <2>5, DropRestDoes
    <3> QED
      BY <3>1, FineIs
  <2>7. d.ticket = z.ticket
    <3>1. z \in States
      BY <2>2, FineIs
    <3> QED
      BY <2>5, <3>1 DEF DropRest, States
  <2>8. v = SendStatusAndClose(d, s)
    BY <1>6, <2>1, <2>5 DEF Finish
  <2>9. d.ticket[x].busy
    BY <2>4, <2>7
  <2>10. v.ticket[x] = d.ticket[x]
    BY <2>6, <2>8, <2>9, StatusTickets
  <2> QED
    BY <2>4, <2>7, <2>10
<1>7. CASE outcome # "defer" /\ outcome # "fail"
  <2>1. PICK last : last = ~KeepAlive(buf)
    OBVIOUS
  <2>2. PICK req : req = Head(buf).req
    OBVIOUS
  <2>3. v = Respond(y, s, t, req, last)
    BY <1>2, <1>3, <1>7, <2>1, <2>2 DEF Finish, Hold
  <2>4. PICK k : k = [busy |-> TRUE, slot |-> s, req |-> req,
                      generation |-> y.conn[s].generation, closeWhenWritten |-> last]
    OBVIOUS
  <2>5. v.ticket = [u.ticket EXCEPT ![t] = k]
    BY <1>1, <1>4, <2>3, <2>4 DEF Respond, States
  <2> QED
    BY <1>1, <2>5, StatesAre
<1> QED
  BY <1>5, <1>6, <1>7

\* What a batch leaves alone: generations, and whoever is not in it.
Unharmed(u, x) ==
  /\ Tagged(u) => Tagged(x)
  /\ x.batch = << >>
  /\ \A s \in Slots : x.conn[s].generation = u.conn[s].generation
  /\ \A s \in Slots : ~u.conn[s].batched => Same(u, x, s)

\* A request that was taken from the batch, and is not answered yet.
InServing(x, e, W) ==
  /\ AtRest(x, e.slot, W[e.slot])
  /\ Ready(e.buf, e.slot, x.conn[e.slot].generation, W[e.slot])
  /\ NextFrame(e.buf) = "ready"
  /\ x.ticket[e.ticket].slot = NoSlot

OncePerSlot(q) == \A i, j \in DOMAIN q : q[i].slot = q[j].slot => i = j

\* Of the batch that began in state u, the requests of q from the k-th on are left.
HalfDone(u, x, q, k, W, D) ==
  /\ \A s \in Slots \ SlotsOf(q, k) : Line(x, s, W[s], D)
  /\ \A i \in k .. Len(q) : InServing(x, q[i], W)
  /\ Unsaid(x, D)
  /\ Unharmed(u, x)

LEMMA UnharmedStep ==
  ASSUME NEW u, NEW x, NEW y, NEW s \in Slots, Unharmed(u, x), u.conn[s].batched, Alone(x, y, s)
  PROVE  Unharmed(u, y)
<1>1. (Tagged(u) => Tagged(y)) /\ y.batch = << >>
  BY DEF Unharmed, Alone
<1>2. ASSUME NEW r \in Slots PROVE y.conn[r].generation = u.conn[r].generation
  <2>1. y.conn[r].generation = x.conn[r].generation
    BY DEF Alone, Elsewhere, Same, SameWork
  <2> QED
    BY <2>1 DEF Unharmed
<1>3. ASSUME NEW r \in Slots, ~u.conn[r].batched PROVE Same(u, y, r)
  <2>1. r # s
    BY <1>3
  <2>2. Same(u, x, r) /\ Same(x, y, r)
    BY <1>3, <2>1 DEF Unharmed, Alone, Elsewhere
  <2> QED
    BY <2>2, SameTwice
<1> QED
  BY <1>1, <1>2, <1>3 DEF Unharmed

LEMMA InServingSame ==
  ASSUME NEW x, NEW y, NEW e, NEW W, InServing(x, e, W), Same(x, y, e.slot),
         y.ticket[e.ticket].slot = x.ticket[e.ticket].slot
  PROVE  InServing(y, e, W)
<1>1. PICK s : s = e.slot
  OBVIOUS
<1>2. PICK w : w = W[s]
  OBVIOUS
<1>3. AtRest(y, s, w)
  BY <1>1, <1>2, SameRests DEF InServing
<1>4. y.conn[s].generation = x.conn[s].generation
  BY <1>1 DEF Same, SameWork
<1> QED
  BY <1>1, <1>2, <1>3, <1>4 DEF InServing

\* Only the request of slot s, if any, is answered between x and y.
Passes(x, y, q, k, j, s) ==
  /\ \A i \in j .. Len(q) :
       /\ q[i].slot # s /\ q[i].slot \in Slots
       /\ y.ticket[q[i].ticket].slot = x.ticket[q[i].ticket].slot
  /\ \A i \in k .. Len(q) : i \in j .. Len(q) \/ q[i].slot = s

LEMMA HalfDoneStep ==
  ASSUME NEW u, NEW x, NEW y, NEW q \in Servings, NEW k \in Nat, NEW j \in Nat, NEW W, NEW D,
         HalfDone(u, x, q, k, W, D), NEW s \in Slots, u.conn[s].batched, Alone(x, y, s),
         Line(y, s, W[s], D), Unsaid(y, D), k <= j, Passes(x, y, q, k, j, s)
  PROVE  HalfDone(u, y, q, j, W, D)
<1>1. PICK N \in Nat : N = Len(q)
  BY LenProperties DEF Servings
<1>2. \A i \in j .. N : i \in k .. N
  OBVIOUS
<1>3. ASSUME NEW r \in Slots, r \notin SlotsOf(q, j) PROVE Line(y, r, W[r], D)
  <2>1. CASE r = s
    BY <2>1
  <2>2. CASE r # s
    <3>1. r \notin SlotsOf(q, k)
      BY <1>1, <1>3, <2>2 DEF SlotsOf, Passes
    <3>2. Line(x, r, W[r], D) /\ Same(x, y, r)
      BY <2>2, <3>1 DEF HalfDone, Alone, Elsewhere
    <3> QED
      BY <3>2, SameLine
  <2> QED
    BY <2>1, <2>2
<1>4. ASSUME NEW i \in j .. N PROVE InServing(y, q[i], W)
  <2>1. PICK e : e = q[i]
    OBVIOUS
  <2>2. InServing(x, e, W) /\ e.slot # s /\ y.ticket[e.ticket].slot = x.ticket[e.ticket].slot
        /\ e.slot \in Slots
    BY <1>1, <1>2, <2>1 DEF HalfDone, Passes
  <2>3. Same(x, y, e.slot)
    BY <2>2 DEF Alone, Elsewhere
  <2>4. InServing(y, e, W)
    BY <2>2, <2>3, InServingSame
  <2> QED
    BY <2>1, <2>4
<1>5. Unharmed(u, y)
  BY UnharmedStep DEF HalfDone
<1> QED
  BY <1>1, <1>3, <1>4, <1>5 DEF HalfDone

LEMMA UnsetDoes ==
  ASSUME NEW u, NEW A, NEW P, NEW F, NEW b, Fine(u, A, P, F, b), NEW s \in Slots,
         NEW v, v = Unset(u, s)
  PROVE  Fine(v, A, P, F \cup {s}, b) /\ v \in States
<1>1. PICK c \in Connections : c = u.conn[s]
  BY FineIs, ConnIs
<1>2. PICK d : d = [c EXCEPT !.batched = FALSE]
  OBVIOUS
<1>3. d \in Connections /\ SamePlace(c, d)
  BY <1>2 DEF Connections, SamePlace
<1>4. v = Put(u, s, d)
  BY <1>1, <1>2, FineIs, StatesAre DEF Put, Unset, States
<1>5. Fine(v, A, P, F \cup {s}, b)
  BY <1>1, <1>3, <1>4, PutDoes
<1> QED
  BY <1>5, FineIs

\* The first n entries of the batch are taken.
HalfTaken(u, acc, batch, n, W, D) ==
  /\ HalfDone(u, acc.u, acc.serving, 1, W, D)
  /\ OncePerSlot(acc.serving)
  /\ \A i \in DOMAIN acc.serving : u.conn[acc.serving[i].slot].batched
  /\ \A s \in Slots : InBatch(acc.u, batch, n + 1, s)

LEMMA BatchPassed ==
  ASSUME NEW x, NEW batch, NEW n \in Nat, NEW s, InBatch(x, batch, n, s), Len(batch) \in Nat
  PROVE  InBatch(x, batch, n + 1, s)
<1>1. \A i \in n + 1 .. Len(batch) : i \in n .. Len(batch)
  OBVIOUS
<1> QED
  BY <1>1 DEF InBatch

\* The entry of a connection that is there was its only one.
LEMMA BatchTaken ==
  ASSUME NEW x, NEW y, NEW batch \in Seq(BatchEntries), NEW n \in 1 .. Len(batch),
         NEW s, s = batch[n].slot, x.conn[s].generation = batch[n].generation,
         NEW r, InBatch(x, batch, n, r),
         r # s => InBatch(y, batch, n, r),
         y.conn[r].generation = x.conn[r].generation
  PROVE  InBatch(y, batch, n + 1, r)
<1>1. PICK N \in Nat : N = Len(batch)
  BY LenProperties
<1>2. CASE r # s
  BY <1>1, <1>2, BatchPassed
<1>3. CASE r = s
  <2>1. ASSUME NEW i \in n + 1 .. N, batch[i].slot = s
        PROVE  /\ batch[i].generation <= x.conn[s].generation
               /\ batch[i].generation # x.conn[s].generation
    <3>1. i \in n .. N /\ n \in n .. N /\ i # n /\ i \in 1 .. N /\ n \in 1 .. N
      BY <1>1
    <3>2. PICK e \in BatchEntries, h \in BatchEntries : e = batch[n] /\ h = batch[i]
      BY <1>1, <3>1, LenProperties
    <3>3. h.generation <= x.conn[s].generation
      BY <1>1, <1>3, <2>1, <3>1, <3>2 DEF InBatch
    <3>4. \A j \in n .. N : batch[j] = batch[n] => j = n
      BY <1>1, <1>3, <3>1 DEF InBatch
    <3>5. h # e
      BY <3>1, <3>2, <3>4
    <3>6. h.slot = e.slot
      BY <2>1, <3>2
    <3>7. h.generation # e.generation
      BY <3>5, <3>6 DEF BatchEntries
    <3> QED
      BY <3>2, <3>3, <3>7
  <2> QED
    BY <1>1, <1>3, <2>1 DEF InBatch
<1> QED
  BY <1>2, <1>3

LEMMA AloneBatch ==
  ASSUME NEW x, NEW y, NEW s, NEW r \in Slots, r # s, Alone(x, y, s), NEW batch, NEW n,
         InBatch(x, batch, n, r)
  PROVE  InBatch(y, batch, n, r)
<1>1. y.conn[r].generation = x.conn[r].generation /\ y.conn[r].batched = x.conn[r].batched
  BY DEF Alone, Elsewhere, Same, SameWork
<1> QED
  BY <1>1, SameBatch

LEMMA AloneGeneration ==
  ASSUME NEW x, NEW y, NEW s, NEW r \in Slots, Alone(x, y, s)
  PROVE  y.conn[r].generation = x.conn[r].generation
  BY DEF Alone, Elsewhere, Same, SameWork

LEMMA EverywhereAlone ==
  ASSUME NEW x, NEW y, NEW s \in Slots, Everywhere(x, y)
  PROVE  Alone(x, y, s)
<1>1. \A r \in Slots : Same(x, y, r)
  BY SameEverywhere
<1> QED
  BY <1>1 DEF Alone, Elsewhere, Everywhere, SameWork

SameSlots(x, y, A) == \A t \in A : y.ticket[t].slot = x.ticket[t].slot

\* An entry whose connection is not answered in this batch.
LEMMA LeavesBatch ==
  ASSUME NEW u, NEW x, NEW y, NEW q \in Servings, NEW batch \in Seq(BatchEntries),
         NEW n \in 1 .. Len(batch), NEW W, NEW D,
         NEW acc, acc.u = x, acc.serving = q, HalfTaken(u, acc, batch, n - 1, W, D),
         NEW s \in Slots, s = batch[n].slot, x.conn[s].generation = batch[n].generation,
         s \notin SlotsOf(q, 1), u.conn[s].batched,
         Alone(x, y, s), Line(y, s, W[s], D), Unsaid(y, D),
         SameSlots(x, y, TicketsOf(q, 1)),
         NEW new, new.u = y, new.serving = q
  PROVE  HalfTaken(u, new, batch, n, W, D)
<1>1. PICK N \in Nat : N = Len(q) /\ DOMAIN q = 1 .. N
  BY LenProperties DEF Servings
<1>2. (n - 1) + 1 = n
  BY LenProperties
<1>3. HalfDone(u, x, q, 1, W, D)
  BY DEF HalfTaken
<1>4. \A i \in 1 .. N : q[i] \in Entries
  BY <1>1 DEF Servings
<1>5. HalfDone(u, y, q, 1, W, D)
  <2>1. \A i \in 1 .. Len(q) : q[i].slot # s /\ y.ticket[q[i].ticket].slot = x.ticket[q[i].ticket].slot
    BY <1>1 DEF SlotsOf, TicketsOf, SameSlots
  <2>2. \A i \in 1 .. Len(q) : q[i].slot \in Slots
    BY <1>1, <1>4 DEF Entries
  <2>3. PICK k \in Nat : k = 1 /\ k <= k
    OBVIOUS
  <2>4. HalfDone(u, x, q, k, W, D)
    BY <1>3, <2>3
  <2>5. Passes(x, y, q, k, k, s)
    BY <2>1, <2>2, <2>3 DEF Passes
  <2>6. HalfDone(u, y, q, k, W, D)
    BY <2>3, <2>4, <2>5, HalfDoneStep
  <2> QED
    BY <2>3, <2>6
<1>6. ASSUME NEW r \in Slots PROVE InBatch(y, batch, n + 1, r)
  <2>1. InBatch(x, batch, n, r)
    BY <1>2 DEF HalfTaken
  <2>2. r # s => InBatch(y, batch, n, r)
    BY <2>1, AloneBatch
  <2>3. y.conn[r].generation = x.conn[r].generation
    BY AloneGeneration
  <2> QED
    BY <2>1, <2>2, <2>3, BatchTaken
<1> QED
  BY <1>5, <1>6 DEF HalfTaken

\* An entry that is answered.
LEMMA JoinsServing ==
  ASSUME NEW u, NEW x, NEW y, NEW q \in Servings, NEW batch \in Seq(BatchEntries),
         NEW n \in 1 .. Len(batch), NEW W, NEW D,
         NEW acc, acc.u = x, acc.serving = q, HalfTaken(u, acc, batch, n - 1, W, D),
         NEW o \in Entries, NEW s \in Slots, s = o.slot, s = batch[n].slot,
         x.conn[s].generation = batch[n].generation,
         s \notin SlotsOf(q, 1), u.conn[s].batched,
         Alone(x, y, s), Unsaid(y, D), InServing(y, o, W),
         SameSlots(x, y, TicketsOf(q, 1)),
         NEW p \in Servings, p = Append(q, o), SlotsOf(p, 1) = SlotsOf(q, 1) \cup {s},
         NEW new, new.u = y, new.serving = p
  PROVE  HalfTaken(u, new, batch, n, W, D)
<1>1. PICK N \in Nat : N = Len(q) /\ DOMAIN q = 1 .. N
  BY LenProperties DEF Servings
<1>2. /\ DOMAIN p = 1 .. N + 1 /\ Len(p) = N + 1
      /\ p[N + 1] = o /\ \A i \in 1 .. N : p[i] = q[i]
  BY <1>1, AppendProperties DEF Servings
<1>3. HalfDone(u, x, q, 1, W, D) /\ (n - 1) + 1 = n
  BY LenProperties DEF HalfTaken
<1>4. \A i \in 1 .. N : q[i] \in Entries /\ q[i].slot # s /\ q[i].ticket \in TicketsOf(q, 1)
  BY <1>1 DEF Servings, SlotsOf, TicketsOf
<1>5. ASSUME NEW r \in Slots, r \notin SlotsOf(p, 1) PROVE Line(y, r, W[r], D)
  <2>1. r # s /\ r \notin SlotsOf(q, 1)
    BY <1>5
  <2>2. Line(x, r, W[r], D) /\ Same(x, y, r)
    BY <1>3, <2>1 DEF HalfDone, Alone, Elsewhere
  <2> QED
    BY <2>2, SameLine
<1>6. ASSUME NEW i \in 1 .. N + 1 PROVE InServing(y, p[i], W)
  <2>1. CASE i = N + 1
    BY <1>2, <2>1
  <2>2. CASE i # N + 1
    <3>1. i \in 1 .. N
      BY <2>2
    <3>2. PICK e \in Entries : e = q[i]
      BY <1>4, <3>1
    <3>3. InServing(x, e, W) /\ e.slot # s /\ e.ticket \in TicketsOf(q, 1) /\ e.slot \in Slots
      BY <1>1, <1>3, <1>4, <3>1, <3>2 DEF HalfDone, Entries
    <3>4. Same(x, y, e.slot) /\ y.ticket[e.ticket].slot = x.ticket[e.ticket].slot
      BY <3>3 DEF Alone, Elsewhere, SameSlots
    <3>5. InServing(y, e, W)
      BY <3>3, <3>4, InServingSame
    <3> QED
      BY <1>2, <3>1, <3>2, <3>5
  <2> QED
    BY <2>1, <2>2
<1>7. Unharmed(u, y)
  BY <1>3, UnharmedStep DEF HalfDone
<1>8. HalfDone(u, y, p, 1, W, D)
  BY <1>2, <1>5, <1>6, <1>7 DEF HalfDone
<1>9. OncePerSlot(p)
  <2> SUFFICES ASSUME NEW i \in 1 .. N + 1, NEW j \in 1 .. N + 1, p[i].slot = p[j].slot
               PROVE  i = j
    BY <1>2 DEF OncePerSlot
  <2>1. \A k \in 1 .. N + 1 : k # N + 1 => k \in 1 .. N
    OBVIOUS
  <2>2. \A k \in 1 .. N + 1 : k # N + 1 => p[k].slot # s
    BY <1>2, <1>4, <2>1
  <2>3. CASE i = N + 1
    BY <1>2, <2>2, <2>3
  <2>4. CASE j = N + 1
    BY <1>2, <2>2, <2>4
  <2>5. CASE i # N + 1 /\ j # N + 1
    <3>1. i \in 1 .. N /\ j \in 1 .. N
      BY <2>5
    <3>2. q[i].slot = q[j].slot
      BY <1>2, <3>1
    <3> QED
      BY <1>1, <3>1, <3>2 DEF HalfTaken, OncePerSlot
  <2> QED
    BY <2>3, <2>4, <2>5
<1>10. \A i \in DOMAIN p : u.conn[p[i].slot].batched
  <2>1. \A k \in 1 .. N + 1 : k # N + 1 => k \in 1 .. N
    OBVIOUS
  <2> QED
    BY <1>1, <1>2, <2>1 DEF HalfTaken
<1>11. ASSUME NEW r \in Slots PROVE InBatch(y, batch, n + 1, r)
  <2>1. InBatch(x, batch, n, r)
    BY <1>3 DEF HalfTaken
  <2>2. r # s => InBatch(y, batch, n, r)
    BY <2>1, AloneBatch
  <2>3. y.conn[r].generation = x.conn[r].generation
    BY AloneGeneration
  <2> QED
    BY <2>1, <2>2, <2>3, BatchTaken
<1> QED
  BY <1>8, <1>9, <1>10, <1>11 DEF HalfTaken

LEMMA BusyAre ==
  ASSUME NEW u, NEW A, NEW P, NEW F, NEW b, Fine(u, A, P, F, b), NEW t \in A \cup P
  PROVE  t \in Tickets /\ u.ticket[t].busy
  BY DEF Fine, Accounted

LEMMA TakeBatchedLine ==
  ASSUME NEW u, NEW P, NEW F, NEW b, NEW W \in [Slots -> Worlds], NEW D,
         NEW batch \in Seq(BatchEntries), NEW n \in 1 .. Len(batch),
         NEW acc \in Takings(P, F, b), HalfTaken(u, acc, batch, n - 1, W, D),
         NEW new, new = TakeBatched(acc, batch[n])
  PROVE  HalfTaken(u, new, batch, n, W, D)
<1>1. PICK x \in States, q \in Servings : x = acc.u /\ q = acc.serving
  BY DEF Takings
<1>2. acc = [u |-> x, serving |-> q]
  BY <1>1 DEF Takings
<1>3. PICK A, G : A = TicketsOf(q, 1) /\ G = F \cup SlotsOf(q, 1)
  OBVIOUS
<1>4. Fine(x, A, P, G, b)
  BY <1>1, <1>3 DEF Takings
<1>5. PICK e \in BatchEntries : e = batch[n]
  BY LenProperties
<1>6. PICK s \in Slots : s = e.slot
  BY DEF BatchEntries
<1>7. PICK c \in Connections : c = x.conn[s]
  BY ConnIs
<1>8. PICK w \in Worlds : w = W[s]
  OBVIOUS
<1>9. HalfDone(u, x, q, 1, W, D) /\ (n - 1) + 1 = n /\ Unsaid(x, D) /\ InBatch(x, batch, n, s)
  BY <1>1, LenProperties DEF HalfTaken, HalfDone
<1>10. CASE ~c.inUse \/ c.generation # e.generation
  <2>1. new = acc
    BY <1>1, <1>5, <1>6, <1>7, <1>10 DEF TakeBatched
  <2>2. ASSUME NEW r \in Slots PROVE InBatch(x, batch, n + 1, r)
    <3>1. InBatch(x, batch, n, r) /\ n \in Nat /\ Len(batch) \in Nat
      BY <1>1, <1>9, LenProperties DEF HalfTaken
    <3> QED
      BY <3>1, BatchPassed
  <2>3. HalfDone(u, acc.u, acc.serving, 1, W, D) /\ OncePerSlot(acc.serving)
        /\ \A i \in DOMAIN acc.serving : u.conn[acc.serving[i].slot].batched
    BY DEF HalfTaken
  <2> QED
    BY <1>1, <2>1, <2>2, <2>3, SMTT(30) DEF HalfTaken
<1>11. CASE ~(~c.inUse \/ c.generation # e.generation)
  <2>1. c.batched
    <3>1. n \in n .. Len(batch)
      BY LenProperties
    <3> QED
      BY <1>5, <1>6, <1>7, <1>9, <1>11, <3>1 DEF InBatch
  <2>2. s \notin SlotsOf(q, 1)
    <3> SUFFICES ASSUME NEW i \in 1 .. Len(q), q[i].slot = s PROVE FALSE
      BY DEF SlotsOf
    <3>1. InServing(x, q[i], W)
      BY <1>9 DEF HalfDone
    <3> QED
      BY <1>7, <2>1, <3>1 DEF InServing, AtRest
  <2>3. Line(x, s, w, D)
    BY <1>8, <1>9, <2>2 DEF HalfDone
  <2>4. u.conn[s].batched
    <3> SUFFICES ASSUME ~u.conn[s].batched PROVE FALSE
      OBVIOUS
    <3>1. Same(u, x, s)
      BY <1>9 DEF HalfDone, Unharmed
    <3> QED
      BY <1>7, <2>1, <3>1 DEF Same, SameWork
  <2>5. PICK v : v = Unset(x, s)
    OBVIOUS
  <2>6. v \in States /\ Fine(v, A, P, G \cup {s}, b)
    BY <1>4, <2>5, UnsetDoes
  <2>7. /\ AtRest(v, s, w) /\ v.conn[s].in = c.in
        /\ Ready(v.conn[s].in, s, v.conn[s].generation, w)
        /\ Alone(x, v, s) /\ Unsaid(v, D) /\ v.ticket = x.ticket
    BY <1>7, <1>9, <1>11, <2>1, <2>3, <2>5, UnsetRests
  <2>8. c.in \in Bytes /\ v.conn[s].generation = c.generation
    BY <1>7, <2>7 DEF Connections, Alone
  <2>9. \A t \in A : t \in Tickets /\ v.ticket[t].busy
    BY <2>6, BusyAre
  <2>10. FreeTickets(v) = FreeTickets(x)
    BY <2>7 DEF FreeTickets
  <2>11. ASSUME NEW y, new = [acc EXCEPT !.u = y], Alone(v, y, s), Line(y, s, w, D),
                Unsaid(y, D), \A t \in A : y.ticket[t].slot = v.ticket[t].slot
         PROVE  HalfTaken(u, new, batch, n, W, D)
    <3>1. new.u = y /\ new.serving = q
      BY <1>2, <2>11
    <3>2. Alone(x, y, s)
      BY <2>7, <2>11, AloneTwice
    <3>3. SameSlots(x, y, TicketsOf(q, 1))
      BY <1>3, <2>7, <2>11 DEF SameSlots
    <3>4. s = batch[n].slot /\ x.conn[s].generation = batch[n].generation
      BY <1>5, <1>6, <1>7, <1>11
    <3> QED
      BY <1>1, <1>8, <2>2, <2>4, <2>11, <3>1, <3>2, <3>3, <3>4, LeavesBatch, ZenonT(30)
  <2>12. CASE NextFrame(c.in) # "ready"
    <3>1. PICK y : y = CloseConnection(v, s)
      OBVIOUS
    <3>2. new = [acc EXCEPT !.u = y]
      BY <1>1, <1>5, <1>6, <1>7, <1>11, <2>5, <2>12, <3>1 DEF TakeBatched, Unset
    <3>3. Owned(v, s, w, D) /\ v.conn[s].inUse /\ w.live
      BY <2>7 DEF AtRest, Owned
    <3>4. Line(y, s, w, D) /\ Alone(v, y, s) /\ Unsaid(y, D)
      BY <2>6, <2>7, <3>1, <3>3, CloseLine
    <3>5. y.ticket = v.ticket
      BY <2>6, <3>1 DEF CloseConnection, States
    <3> QED
      BY <2>11, <3>2, <3>4, <3>5
  <2>13. CASE NextFrame(c.in) = "ready" /\ FreeTickets(x) = {}
    <3>1. PICK y : y = QueueForTicket(v, s)
      OBVIOUS
    <3>2. new = [acc EXCEPT !.u = y]
      BY <1>1, <1>5, <1>6, <1>7, <1>11, <2>5, <2>13, <3>1 DEF TakeBatched, Unset
    <3>3. Everywhere(v, y)
      BY <2>6, <3>1, QueueForTicketStill, StillEverywhere
    <3>4. Line(v, s, w, D)
      BY <2>6, <2>7, RestsInLine
    <3>5. Alone(v, y, s) /\ Same(v, y, s) /\ Unsaid(y, D) /\ y.ticket = v.ticket
      <4>1. Same(v, y, s) /\ Unsaid(y, D)
        BY <2>7, <3>3, SameEverywhere
      <4> QED
        BY <3>3, <4>1, EverywhereAlone DEF Everywhere
    <3>6. Line(y, s, w, D)
      BY <3>4, <3>5, SameLine
    <3> QED
      BY <2>11, <3>2, <3>5, <3>6
  <2>14. CASE NextFrame(c.in) = "ready" /\ FreeTickets(x) # {} /\ ~Prepared(c.in)
    <3>1. PICK z : z = DropRest(v, s)
      OBVIOUS
    <3>2. PICK y : y = SendStatusAndClose(z, s)
      OBVIOUS
    <3>3. new = [acc EXCEPT !.u = y]
      BY <1>1, <1>5, <1>6, <1>7, <1>11, <2>5, <2>14, <3>1, <3>2 DEF TakeBatched, Unset
    <3>4. z \in States
      <4>1. Fine(z, A, P, (G \cup {s}) \ {s}, b)
        BY <2>6, <3>1, DropRestDoes
      <4> QED
        BY <4>1, FineIs
    <3>5. z = Hold(v, s, << >>)
      BY <3>1 DEF DropRest, Hold
    <3>6. /\ AtRest(z, s, w) /\ z.conn[s].in = << >> /\ Alone(v, z, s) /\ Unsaid(z, D)
          /\ z.ticket = v.ticket
      BY <2>6, <2>7, <3>5, HoldRests
    <3>7. Len(<< >>) + Len(w.rest) <= API_MAX_REQUEST_SIZE
      <4>1. PICK in \in Bytes, rest \in Bytes : in = v.conn[s].in /\ rest = w.rest
        BY <2>7, <2>8 DEF Worlds
      <4>2. Len(in) \in Nat /\ Len(rest) \in Nat /\ Len(<< >>) = 0
        BY BytesTyped
      <4>3. Len(in) + Len(rest) <= API_MAX_REQUEST_SIZE
        BY <2>7, <4>1 DEF Ready
      <4>4. API_MAX_REQUEST_SIZE \in Nat
        BY RingAssumption DEF RingAssumption
      <4>5. Len(<< >>) + Len(rest) <= API_MAX_REQUEST_SIZE
        BY <4>2, <4>3, <4>4
      <4> QED
        BY <4>1, <4>5
    <3>8. Line(y, s, w, D) /\ Alone(z, y, s) /\ Unsaid(y, D)
      BY <3>2, <3>4, <3>6, <3>7, StatusLine
    <3>9. \A t \in A : y.ticket[t].slot = v.ticket[t].slot
      BY <2>9, <3>2, <3>4, <3>6, StatusTickets
    <3>10. Alone(v, y, s)
      BY <3>6, <3>8, AloneTwice
    <3> QED
      BY <2>11, <3>3, <3>8, <3>9, <3>10, SMTT(30)
  <2>15. CASE NextFrame(c.in) = "ready" /\ FreeTickets(x) # {} /\ Prepared(c.in)
    <3>1. PICK t \in FreeTickets(v) : t = CHOOSE z \in FreeTickets(x) : TRUE
      BY <2>10, <2>15
    <3>2. PICK y : y = Acquire(v, t)
      OBVIOUS
    <3>3. PICK o : o = [slot |-> s, ticket |-> t, buf |-> c.in]
      BY ZenonT(30)
    <3>4. new = [u |-> y, serving |-> Append(q, o)]
      BY <1>1, <1>5, <1>6, <1>7, <1>11, <2>5, <2>15, <3>1, <3>2, <3>3, ZenonT(30) DEF TakeBatched, Unset
    <3>5. /\ \A r \in Slots : Same(v, y, r)
          /\ Unsaid(y, D) /\ y.batch = v.batch /\ y.recvs = v.recvs
          /\ \A z \in Tickets : y.ticket[z].slot = v.ticket[z].slot
          /\ v.ticket[t].slot = NoSlot /\ t \in Tickets
      BY <2>6, <2>7, <3>2, AcquireSame
    <3>6. Alone(v, y, s)
      <4>1. \A r \in Slots : y.conn[r].generation = v.conn[r].generation
        BY <3>5 DEF Same, SameWork
      <4>2. y.recvs = v.recvs
        BY <3>5
      <4>3. Tagged(v) => Tagged(y)
        BY <4>1, <4>2, TaggedStays
      <4> QED
        BY <3>5, <4>1, <4>3 DEF Alone, Elsewhere
    <3>7. Alone(x, y, s)
      BY <2>7, <3>6, AloneTwice
    <3>8. o \in Entries /\ o.buf # << >> /\ o.ticket = t /\ o.slot = s /\ o.buf = c.in
      <4>1. c.in # << >>
        BY <2>8, <2>15, BytesAre
      <4> QED
        BY <2>8, <3>3, <3>5, <4>1 DEF Entries
    <3>9. InServing(y, o, W)
      <4>1. AtRest(y, s, w)
        BY <2>7, <3>5, SameRests
      <4>2. y.conn[s].generation = v.conn[s].generation
        BY <3>5 DEF Same, SameWork
      <4> QED
        BY <1>8, <2>7, <2>15, <3>5, <3>8, <4>1, <4>2 DEF InServing
    <3>10. t \notin A
      BY <2>9, FreeAre, <2>6
    <3>11. PICK p \in Servings : p = Append(q, o) /\ SlotsOf(p, 1) = SlotsOf(q, 1) \cup {s}
      BY <1>3, <3>8, <3>10, OneMore
    <3>12. new.u = y /\ new.serving = p
      BY <3>4, <3>11
    <3>13. SameSlots(x, y, TicketsOf(q, 1))
      BY <1>3, <2>7, <2>9, <3>5 DEF SameSlots
    <3>14. s = o.slot /\ s = batch[n].slot /\ x.conn[s].generation = batch[n].generation
      BY <1>5, <1>6, <1>7, <1>11, <3>8
    <3>15. Unsaid(y, D) /\ o \in Entries
      BY <3>5, <3>8
    <3>16. acc.u = x /\ acc.serving = q
      BY <1>1
    <3>17. HalfTaken(u, acc, batch, n - 1, W, D)
      OBVIOUS
    <3> QED
      BY <2>2, <2>4, <3>7, <3>9, <3>11, <3>12, <3>13, <3>14, <3>15, <3>16, <3>17, JoinsServing
  <2> QED
    BY <2>12, <2>13, <2>14, <2>15
<1> QED
  BY <1>10, <1>11

LEMMA TakenLined ==
  ASSUME NEW u, NEW P, NEW F, NEW b, Fine(u, {}, P, F, b), NEW W \in [Slots -> Worlds], NEW D,
         NEW batch \in Seq(BatchEntries), batch = u.batch, Lined(u, W, D, batch, 1),
         NEW acc, acc = Takes(Unbatched(u), batch)[Len(batch)]
  PROVE  acc \in Takings(P, F, b) /\ HalfTaken(u, acc, batch, Len(batch), W, D)
<1>1. PICK N \in Nat : N = Len(batch)
  BY LenProperties
<1> DEFINE U == Takings(P, F, b)
           E == [n \in 0 .. N |-> {x \in U : HalfTaken(u, x, batch, n, W, D)}]
<1>2. PICK base : base = Unbatched(u)
  OBVIOUS
<1>3. PICK v : v = [u EXCEPT !.batch = << >>]
  OBVIOUS
<1>4. base = [u |-> v, serving |-> << >>]
  BY <1>2, <1>3 DEF Unbatched
<1>5. u \in States
  BY FineIs
<1>6. /\ v \in States /\ v.conn = u.conn /\ SameQueues(u, v) /\ SameTickets(u, v)
      /\ v.buffers = u.buffers /\ v.batch = << >> /\ v.tokens = u.tokens
      /\ v.closes = u.closes /\ v.recvs = u.recvs
  <2>1. << >> \in Seq(BatchEntries)
    OBVIOUS
  <2> QED
    BY <1>3, <1>5, <2>1, StatesAre DEF States, SameQueues, SameTickets
<1>7. Fine(v, {}, P, F, b)
  BY <1>6, NothingDoes
<1>8. << >> \in Servings /\ TicketsOf(<< >>, 1) = {} /\ SlotsOf(<< >>, 1) = {}
  BY DEF Servings, TicketsOf, SlotsOf
<1>9. base \in U
  <2>1. Fine(v, TicketsOf(<< >>, 1), P, F \cup SlotsOf(<< >>, 1), b)
    <3>1. F \cup {} = F
      OBVIOUS
    <3> QED
      BY <1>7, <1>8, <3>1
  <2> QED
    BY <1>4, <1>6, <1>8, <2>1 DEF Takings
<1>10. \A s \in Slots : Same(u, v, s)
  BY <1>6 DEF Same, SameWork, SameTickets
<1>11. Unsaid(v, D)
  BY <1>6 DEF Unsaid, Lined, SameTickets
<1>12. Unharmed(u, v)
  <2>1. \A s \in Slots : v.conn[s].generation = u.conn[s].generation
    BY <1>6
  <2>2. v.recvs = u.recvs
    BY <1>6
  <2>3. Tagged(u) => Tagged(v)
    BY <2>1, <2>2, TaggedStays
  <2> QED
    BY <1>6, <1>10, <2>1, <2>3 DEF Unharmed
<1>13. HalfDone(u, v, << >>, 1, W, D)
  <2>1. ASSUME NEW s \in Slots PROVE Line(v, s, W[s], D)
    <3>1. Line(u, s, W[s], D) /\ Same(u, v, s)
      BY <1>10 DEF Lined
    <3> QED
      BY <3>1, SameLine
  <2> QED
    BY <1>11, <1>12, <2>1 DEF HalfDone
<1>14. ASSUME NEW s \in Slots PROVE InBatch(v, batch, 0 + 1, s)
  <2>1. InBatch(u, batch, 1, s)
    BY DEF Lined
  <2>2. InBatch(v, batch, 1, s)
    BY <1>6, <2>1, SameBatch
  <2> QED
    BY <2>2
<1>15. HalfTaken(u, base, batch, 0, W, D)
  <2>1. base.u = v /\ base.serving = << >>
    BY <1>4
  <2>2. OncePerSlot(<< >>) /\ \A i \in DOMAIN << >> : FALSE
    BY DEF OncePerSlot
  <2> QED
    BY <1>13, <1>14, <2>1, <2>2 DEF HalfTaken
<1>16. base \in E[0]
  BY <1>9, <1>15
<1>17. \A n \in 0 .. N : E[n] \subseteq U
  OBVIOUS
<1>18. ASSUME NEW n \in 1 .. N, NEW x \in E[n - 1] PROVE TakeBatched(x, batch[n]) \in E[n]
  <2>1. n - 1 \in 0 .. N /\ n \in 0 .. N /\ n \in 1 .. Len(batch)
    BY <1>1
  <2>2. x \in Takings(P, F, b) /\ HalfTaken(u, x, batch, n - 1, W, D)
    BY <2>1
  <2>3. PICK new : new = TakeBatched(x, batch[n])
    OBVIOUS
  <2>4. new \in Takings(P, F, b)
    <3>1. batch[n] \in BatchEntries
      BY <2>1, LenProperties
    <3> QED
      BY <2>2, <2>3, <3>1, TakeBatchedDoes
  <2>5. HalfTaken(u, new, batch, n, W, D)
    BY <2>1, <2>2, <2>3, TakeBatchedLine
  <2> QED
    BY <2>1, <2>3, <2>4, <2>5
<1>19. PICK taken : taken = Takes(base, batch)
  OBVIOUS
<1> HIDE DEF U, E
<1>20. taken[N] \in E[N]
  BY <1>1, <1>16, <1>17, <1>18, <1>19, TakenSteps
<1>21. acc = taken[N]
  BY <1>1, <1>2, <1>19
<1> QED
  BY <1>1, <1>20, <1>21 DEF E, U

LEMMA FinishedLined ==
  ASSUME NEW u, NEW x, NEW q \in Servings, NEW P, NEW F, NEW b, NEW handler,
         Fine(x, TicketsOf(q, 1), P, F \cup SlotsOf(q, 1), b),
         NEW W \in [Slots -> Worlds], NEW D, HalfDone(u, x, q, 1, W, D), OncePerSlot(q),
         \A i \in DOMAIN q : u.conn[q[i].slot].batched,
         NEW N, N = Len(q), NEW v, v = Finishes(x, q, handler)[N]
  PROVE  HalfDone(u, v, q, N + 1, W, D)
<1> DEFINE Left(y, k) == /\ Fine(y, TicketsOf(q, k), P, F \cup SlotsOf(q, k), b)
                         /\ HalfDone(u, y, q, k, W, D)
           U == States
           E == [n \in 0 .. N |-> {y \in U : Left(y, n + 1)}]
<1>1. N \in Nat /\ q \in Seq(Entries) /\ DOMAIN q = 1 .. N
  BY LenProperties DEF Servings
<1>2. x \in E[0]
  BY <1>1, FineIs
<1>3. ASSUME NEW n \in 1 .. N, NEW y \in E[n - 1] PROVE FinishEntry(y, q[n], handler) \in E[n]
  <2>1. n - 1 \in 0 .. N /\ n \in 0 .. N /\ (n - 1) + 1 = n /\ n \in Nat /\ n + 1 \in Nat
        /\ n <= n + 1
    BY <1>1
  <2>2. Left(y, n)
    BY <2>1
  <2>3. PICK A, S : A = TicketsOf(q, n) /\ S = SlotsOf(q, n)
    OBVIOUS
  <2>4. Fine(y, A, P, F \cup S, b)
    BY <2>2, <2>3
  <2>5. PICK e \in Entries : e = q[n]
    BY <1>1
  <2>6. PICK s \in Slots, t \in Tickets, buf \in Bytes :
          s = e.slot /\ t = e.ticket /\ buf = e.buf
    BY DEF Entries
  <2>7. t \in A
    BY <1>1, <2>3, <2>5, <2>6 DEF TicketsOf
  <2>8. PICK w \in Worlds : w = W[s]
    OBVIOUS
  <2>9. PICK outcome : outcome = handler[s]
    OBVIOUS
  <2>10. PICK z : z = Finish(y, s, t, buf, outcome)
    OBVIOUS
  <2>11. InServing(y, e, W) /\ Unsaid(y, D)
    BY <1>1, <2>2, <2>5 DEF HalfDone
  <2>12. /\ AtRest(y, s, w) /\ Ready(buf, s, y.conn[s].generation, w)
         /\ NextFrame(buf) = "ready" /\ y.ticket[t].slot = NoSlot
    BY <2>6, <2>8, <2>11 DEF InServing
  <2>13. Line(z, s, w, D) /\ Alone(y, z, s) /\ Unsaid(z, D)
    BY <2>4, <2>7, <2>10, <2>11, <2>12, FinishLine
  <2>14. z = FinishEntry(y, q[n], handler)
    BY <2>5, <2>6, <2>9, <2>10 DEF FinishEntry
  <2>15. Fine(z, TicketsOf(q, n + 1), P, F \cup SlotsOf(q, n + 1), b)
    <3>1. buf # << >>
      BY <2>12, BytesAre
    <3>2. Fine(z, A \ {t}, P, (F \cup S) \ {s}, b)
      BY <2>4, <2>7, <2>10, <3>1, FinishDoes
    <3>3. A \ {t} = TicketsOf(q, n + 1)
      <4>1. \A i \in n .. N : q[i].ticket = t => i = n
        BY <1>1, <2>5, <2>6 DEF Servings
      <4> QED
        BY <1>1, <2>3, <2>5, <2>6, <4>1 DEF TicketsOf
    <3>4. (F \cup S) \ {s} \subseteq F \cup SlotsOf(q, n + 1)
      BY <1>1, <2>3, <2>5, <2>6 DEF SlotsOf
    <3> QED
      BY <3>2, <3>3, <3>4, FineMore
  <2>16. Passes(y, z, q, n, n + 1, s)
    <3>1. ASSUME NEW i \in n + 1 .. N
          PROVE  /\ q[i].slot # s /\ q[i].slot \in Slots
                 /\ z.ticket[q[i].ticket].slot = y.ticket[q[i].ticket].slot
      <4>1. i \in 1 .. N /\ i # n /\ i \in n .. N /\ n \in 1 .. N
        BY <1>1
      <4>2. PICK h \in Entries : h = q[i]
        BY <1>1, <4>1
      <4>3. h.slot # s
        BY <1>1, <2>5, <2>6, <4>1, <4>2 DEF OncePerSlot
      <4>4. h.ticket # t /\ h.ticket \in A
        BY <1>1, <2>3, <2>5, <2>6, <4>1, <4>2 DEF Servings, TicketsOf
      <4>5. PICK r \in Tickets : r = h.ticket
        BY DEF Entries
      <4>6. y.ticket[r].busy
        BY <2>4, <4>4, <4>5, BusyAre
      <4>7. z.ticket[r] = y.ticket[r]
        BY <2>4, <2>7, <2>10, <4>4, <4>5, <4>6, FinishTickets
      <4> QED
        BY <4>2, <4>3, <4>5, <4>7 DEF Entries
    <3>2. ASSUME NEW i \in n .. N PROVE i \in n + 1 .. N \/ q[i].slot = s
      BY <1>1, <2>5, <2>6
    <3> QED
      BY <3>1, <3>2 DEF Passes
  <2>17. HalfDone(u, z, q, n + 1, W, D)
    <3>1. u.conn[s].batched
      BY <1>1, <2>5, <2>6
    <3>2. Line(z, s, W[s], D) /\ Alone(y, z, s) /\ Unsaid(z, D)
      BY <2>8, <2>13
    <3>3. HalfDone(u, y, q, n, W, D)
      BY <2>2
    <3>4. PICK m \in Nat : m = n + 1
      BY <2>1
    <3>5. n <= m /\ Passes(y, z, q, n, m, s) /\ n \in Nat
      BY <2>1, <2>16, <3>4
    <3>6. HalfDone(u, z, q, m, W, D)
      BY <3>1, <3>2, <3>3, <3>5, HalfDoneStep
    <3> QED
      BY <3>4, <3>6
  <2>18. z \in U
    BY <2>15, FineIs
  <2> QED
    BY <2>1, <2>14, <2>15, <2>17, <2>18
<1>4. \A n \in 0 .. N : E[n] \subseteq U
  OBVIOUS
<1>5. PICK finished : finished = Finishes(x, q, handler)
  OBVIOUS
<1> HIDE DEF E, U, Left
<1>6. finished[N] \in E[N]
  BY <1>1, <1>2, <1>3, <1>4, <1>5, FinishedSteps
<1>7. N \in 0 .. N
  BY <1>1
<1> QED
  BY <1>5, <1>6, <1>7 DEF E, Left

\* What is ready is answered together.
LEMMA FlushLined ==
  ASSUME NEW u, NEW P, NEW F, NEW b, Fine(u, {}, P, F, b), NEW W \in [Slots -> Worlds], NEW D,
         Lined(u, W, D, u.batch, 1), NEW handler, NEW v, v = FlushBatch(u, handler)
  PROVE  Lined(v, W, D, << >>, 1) /\ Unharmed(u, v)
<1>1. PICK batch \in Seq(BatchEntries) : batch = u.batch
  BY FineIs, StatesAre
<1>2. PICK acc : acc = Takes(Unbatched(u), batch)[Len(batch)]
  OBVIOUS
<1>3. acc \in Takings(P, F, b) /\ HalfTaken(u, acc, batch, Len(batch), W, D)
  BY <1>1, <1>2, TakenLined
<1>4. PICK x \in States, q \in Servings : x = acc.u /\ q = acc.serving
  BY <1>3 DEF Takings
<1>5. PICK N \in Nat : N = Len(q)
  BY LenProperties DEF Servings
<1>6. v = Finishes(x, q, handler)[N]
  <2>1. acc = Takes(Unbatched(u), u.batch)[Len(u.batch)]
    BY <1>1, <1>2
  <2>2. FlushBatch(u, handler) = Finishes(acc.u, acc.serving, handler)[Len(acc.serving)]
    BY <2>1, FlushIs
  <2> QED
    BY <1>4, <1>5, <2>2
<1>7. HalfDone(u, v, q, N + 1, W, D)
  <2>1. Fine(x, TicketsOf(q, 1), P, F \cup SlotsOf(q, 1), b)
    BY <1>3, <1>4 DEF Takings
  <2>2. /\ HalfDone(u, x, q, 1, W, D) /\ OncePerSlot(q)
        /\ \A i \in DOMAIN q : u.conn[q[i].slot].batched
    BY <1>3, <1>4 DEF HalfTaken
  <2> QED
    BY <1>5, <1>6, <2>1, <2>2, FinishedLined
<1>8. SlotsOf(q, N + 1) = {}
  BY <1>5 DEF SlotsOf
<1>9. \A s \in Slots : Line(v, s, W[s], D) /\ InBatch(v, << >>, 1, s)
  BY <1>7, <1>8 DEF HalfDone, InBatch
<1> QED
  BY <1>7, <1>9 DEF HalfDone, Lined

-----------------------------------------------------------------------------
(* The ring thread in line *)

\* The generations stay, and what is to be received is of them as before.
Kept(u, v) ==
  /\ Tagged(u) => Tagged(v)
  /\ \A s \in Slots : v.conn[s].generation = u.conn[s].generation

LEMMA KeptTwice ==
  ASSUME NEW u, NEW v, NEW x, Kept(u, v), Kept(v, x)
  PROVE  Kept(u, x)
  BY DEF Kept

LEMMA KeptSelf ==
  ASSUME NEW u
  PROVE  Kept(u, u)
  BY DEF Kept

LEMMA AloneKept ==
  ASSUME NEW u, NEW v, NEW s \in Slots, Alone(u, v, s)
  PROVE  Kept(u, v)
  BY DEF Alone, Elsewhere, Same, SameWork, Kept

LEMMA EverywhereKept ==
  ASSUME NEW u, NEW v, Everywhere(u, v)
  PROVE  Kept(u, v)
  BY DEF Everywhere, SameWork, Kept

LEMMA NotInBatch ==
  ASSUME NEW u, NEW v, NEW q, NEW n, NEW s, InBatch(u, q, n, s), ~u.conn[s].batched,
         v.conn[s].generation = u.conn[s].generation
  PROVE  InBatch(v, q, n, s)
  BY DEF InBatch

\* A connection that is not in the batch changes.
LEMMA AloneLined ==
  ASSUME NEW u, NEW v, NEW W \in [Slots -> Worlds], NEW D, NEW s \in Slots,
         Lined(u, W, D, u.batch, 1), ~u.conn[s].batched, Alone(u, v, s), Unsaid(v, D),
         NEW w \in Worlds, Line(v, s, w, D), NEW X, X = [W EXCEPT ![s] = w]
  PROVE  Lined(v, X, D, v.batch, 1) /\ Kept(u, v)
<1>1. PICK q : q = u.batch
  OBVIOUS
<1>2. Lined(u, W, D, q, 1) /\ InBatch(u, q, 1, s)
  BY <1>1 DEF Lined
<1>3. /\ Elsewhere(u, v, s) /\ v.batch = q /\ Kept(u, v)
      /\ v.conn[s].generation = u.conn[s].generation
  BY <1>1, AloneKept DEF Alone
<1>4. InBatch(v, q, 1, s)
  BY <1>2, <1>3, NotInBatch
<1>5. Lined(v, X, D, q, 1)
  BY <1>2, <1>3, <1>4, SlotStep
<1> QED
  BY <1>3, <1>5

\* A request joins the batch.
LEMMA JoinsBatch ==
  ASSUME NEW u, NEW v, NEW q \in Seq(BatchEntries), NEW s \in Slots,
         NEW g \in Nat, g = u.conn[s].generation, NEW e, e = [slot |-> s, generation |-> g],
         ~u.conn[s].batched, v.conn[s].batched, Elsewhere(u, v, s), v.conn[s].generation = g,
         NEW r \in Slots, InBatch(u, q, 1, r)
  PROVE  InBatch(v, Append(q, e), 1, r)
<1>1. PICK N \in Nat : N = Len(q)
  BY LenProperties
<1>2. PICK p : p = Append(q, e)
  OBVIOUS
<1>3. Len(p) = N + 1 /\ p[N + 1] = e /\ \A i \in 1 .. N : p[i] = q[i]
  BY <1>1, <1>2, AppendProperties
<1>4. \A i \in 1 .. N + 1 : i = N + 1 \/ i \in 1 .. N
  OBVIOUS
<1>5. CASE r # s
  <2>1. v.conn[r].generation = u.conn[r].generation /\ v.conn[r].batched = u.conn[r].batched
    BY <1>5 DEF Elsewhere, Same, SameWork
  <2>2. ASSUME NEW i \in 1 .. N + 1, p[i].slot = r
        PROVE  /\ p[i].generation <= v.conn[r].generation
               /\ p[i].generation = v.conn[r].generation =>
                    v.conn[r].batched /\ \A j \in 1 .. N + 1 : p[j] = p[i] => j = i
    <3>1. i \in 1 .. N /\ p[i] = q[i]
      BY <1>3, <1>4, <1>5, <2>2
    <3>2. /\ q[i].generation <= u.conn[r].generation
          /\ q[i].generation = u.conn[r].generation =>
               u.conn[r].batched /\ \A j \in 1 .. N : q[j] = q[i] => j = i
      BY <1>1, <2>2, <3>1 DEF InBatch
    <3>3. \A j \in 1 .. N + 1 : p[j] = p[i] => j \in 1 .. N
      BY <1>3, <1>4, <1>5, <2>2
    <3> QED
      BY <1>3, <2>1, <3>1, <3>2, <3>3
  <2> QED
    BY <1>2, <1>3, <2>2 DEF InBatch
<1>6. CASE r = s
  <2>1. \A i \in 1 .. N : q[i].slot = s => q[i].generation <= g /\ q[i].generation # g
    BY <1>1, <1>6 DEF InBatch
  <2>2. g <= g
    OBVIOUS
  <2>3. ASSUME NEW i \in 1 .. N + 1, p[i].slot = s
        PROVE  /\ p[i].generation <= g
               /\ p[i].generation = g => \A j \in 1 .. N + 1 : p[j] = p[i] => j = i
    <3>1. CASE i = N + 1
      <4>1. \A j \in 1 .. N : p[j] # e
        BY <1>3, <2>1
      <4> QED
        BY <1>3, <1>4, <2>2, <3>1, <4>1
    <3>2. CASE i # N + 1
      BY <1>3, <1>4, <2>1, <2>3, <3>2
    <3> QED
      BY <3>1, <3>2
  <2> QED
    BY <1>2, <1>3, <1>6, <2>3 DEF InBatch
<1> QED
  BY <1>2, <1>5, <1>6

\* Nothing but the rest of what its client has sent becomes different.
SameClient(w, x) == x.turn = w.turn /\ x.over = w.over /\ x.live = w.live

LEMMA SameClientRests ==
  ASSUME NEW u, NEW s, NEW w, NEW x, AtRest(u, s, w), SameClient(w, x)
  PROVE  AtRest(u, s, x)
  BY DEF AtRest, SameClient

LEMMA AnyLess ==
  ASSUME NEW buf \in Bytes, NEW w \in Worlds, Len(buf) + Len(w.rest) <= API_MAX_REQUEST_SIZE
  PROVE  Len(<< >>) + Len(w.rest) <= API_MAX_REQUEST_SIZE
<1>1. PICK rest \in Bytes : rest = w.rest
  BY DEF Worlds
<1>2. Len(buf) \in Nat /\ Len(rest) \in Nat /\ Len(<< >>) = 0
  BY BytesTyped
<1>3. API_MAX_REQUEST_SIZE \in Nat
  BY RingAssumption DEF RingAssumption
<1>4. Len(buf) + Len(rest) <= API_MAX_REQUEST_SIZE
  BY <1>1
<1>5. Len(<< >>) + Len(rest) <= API_MAX_REQUEST_SIZE
  BY <1>2, <1>3, <1>4
<1> QED
  BY <1>1, <1>5

\* A connection whose request is in hand.
LEMMA ServeLined ==
  ASSUME NEW u, NEW P, NEW F, NEW b, Fine(u, {}, P, F, b), NEW W \in [Slots -> Worlds], NEW D,
         Lined(u, W, D, u.batch, 1), NEW s \in Slots, NEW buf \in Bytes, NEW handler,
         NEW w \in Worlds, SameClient(W[s], w), AtRest(u, s, W[s]),
         Ready(buf, s, u.conn[s].generation, w),
         NEW v, v = ServeNextRequest(u, s, buf, handler), NEW X, X = [W EXCEPT ![s] = w]
  PROVE  Lined(v, X, D, v.batch, 1) /\ Kept(u, v)
<1>1. u \in States
  BY FineIs
<1>2. PICK c \in Connections : c = u.conn[s]
  BY <1>1, ConnIs
<1>3. ~c.batched /\ ~c.deferred /\ AtRest(u, s, w)
  <2>1. AtRest(u, s, w)
    BY SameClientRests
  <2> QED
    BY <1>2, <2>1 DEF AtRest
<1>4. PICK g \in Nat : g = c.generation /\ g = u.conn[s].generation
  BY <1>2 DEF Connections
<1>5. Unsaid(u, D) /\ Ready(buf, s, g, w)
  BY <1>4 DEF Lined
<1>6. ASSUME NEW y, v = y, Line(y, s, w, D), Alone(u, y, s), Unsaid(y, D)
      PROVE  Lined(v, X, D, v.batch, 1) /\ Kept(u, v)
  BY <1>2, <1>3, <1>6, AloneLined
<1>7. PICK x : x = Hold(u, s, buf)
  OBVIOUS
<1>8. x \in States
  <2>1. Fine(x, {}, P, F \cup {s}, b)
    BY <1>7, HoldsNow DEF Hold
  <2> QED
    BY <2>1, FineIs
<1>9. AtRest(x, s, w) /\ x.conn[s].in = buf /\ Alone(u, x, s) /\ Unsaid(x, D)
  BY <1>1, <1>3, <1>5, <1>7, HoldRests
<1>10. Line(x, s, w, D)
  <2>1. x.conn[s].generation = g
    BY <1>4, <1>9 DEF Alone
  <2> QED
    BY <1>5, <1>8, <1>9, <2>1, RestsInLine
<1>11. CASE NextFrame(buf) = "incomplete"
  <2>1. v = x
    BY <1>2, <1>3, <1>7, <1>11 DEF ServeNextRequest, Hold
  <2> QED
    BY <1>6, <1>9, <1>10, <2>1
<1>12. ASSUME v = SendStatusAndClose(DropRest(u, s), s)
       PROVE  Lined(v, X, D, v.batch, 1) /\ Kept(u, v)
  <2>1. PICK z : z = DropRest(u, s)
    OBVIOUS
  <2>2. z \in States
    <3>1. Fine(z, {}, P, F \ {s}, b)
      BY <2>1, DropRestDoes
    <3> QED
      BY <3>1, FineIs
  <2>3. z = Hold(u, s, << >>)
    BY <2>1 DEF DropRest, Hold
  <2>4. AtRest(z, s, w) /\ z.conn[s].in = << >> /\ Alone(u, z, s) /\ Unsaid(z, D)
    BY <1>1, <1>3, <1>5, <2>3, HoldRests
  <2>5. Len(<< >>) + Len(w.rest) <= API_MAX_REQUEST_SIZE
    BY <1>5, AnyLess DEF Ready
  <2>6. v = SendStatusAndClose(z, s)
    BY <1>12, <2>1
  <2>7. Line(v, s, w, D) /\ Alone(z, v, s) /\ Unsaid(v, D)
    BY <2>2, <2>4, <2>5, <2>6, StatusLine
  <2>8. Alone(u, v, s)
    BY <2>4, <2>7, AloneTwice
  <2> QED
    BY <1>6, <2>7, <2>8
<1>13. CASE NextFrame(buf) = "refused"
  <2>1. v = SendStatusAndClose(DropRest(u, s), s)
    BY <1>2, <1>3, <1>13 DEF ServeNextRequest
  <2> QED
    BY <1>12, <2>1
<1> DEFINE Split == NextFrame(buf) # "incomplete" /\ NextFrame(buf) # "refused"
<1>14. Split => NextFrame(buf) = "ready" /\ buf # << >>
  <2>1. Split => NextFrame(buf) = "ready"
    BY DEF NextFrame
  <2> QED
    BY <2>1, BytesAre
<1>15. CASE Split /\ batching
  <2>1. PICK y : y = IF Len(u.batch) >= AMMSERVER_API_MAX_BATCH
                     THEN FlushBatch(u, handler) ELSE u
    OBVIOUS
  <2>2. y \in States
    BY <2>1, FlushBatchDoes, FineIs
  <2>3. Lined(y, W, D, y.batch, 1) /\ Same(u, y, s) /\ Kept(u, y)
    <3>1. CASE y = u
      BY <3>1, KeptSelf DEF Same, SameWork
    <3>2. CASE y = FlushBatch(u, handler)
      <4>1. Lined(y, W, D, << >>, 1) /\ Unharmed(u, y)
        BY <3>2, FlushLined
      <4> QED
        BY <1>2, <1>3, <4>1 DEF Unharmed, Kept
    <3> QED
      BY <2>1, <3>1, <3>2
  <2>4. PICK q \in Seq(BatchEntries) : q = y.batch
    BY <2>2, StatesAre
  <2>5. y.conn[s].generation = g /\ ~y.conn[s].batched /\ AtRest(y, s, w)
    <3>1. AtRest(y, s, w)
      BY <1>3, <2>3, SameRests
    <3> QED
      BY <1>4, <2>3, <3>1 DEF Same, SameWork, AtRest
  <2>6. PICK e : e = [slot |-> s, generation |-> g]
    OBVIOUS
  <2>7. PICK d : d = [y.conn[s] EXCEPT !.in = buf, !.batched = TRUE]
    OBVIOUS
  <2>8. PICK conn : conn = [y.conn EXCEPT ![s] = d]
    OBVIOUS
  <2>9. v = [y EXCEPT !.conn = conn, !.batch = Append(q, e)]
    <3>1. v = [y EXCEPT !.conn[s].in = buf, !.conn[s].batched = TRUE, !.batch = Append(@, e)]
      BY <1>2, <1>3, <1>4, <1>15, <2>1, <2>6 DEF ServeNextRequest
    <3>2. [y EXCEPT !.conn[s].in = buf, !.conn[s].batched = TRUE] = [y EXCEPT !.conn = conn]
      BY <2>2, <2>7, <2>8, StatesAre DEF States
    <3>3. v = [[y EXCEPT !.conn = conn] EXCEPT !.batch = Append(@, e)]
      BY <3>1, <3>2
    <3> QED
      BY <2>2, <2>4, <3>3 DEF States
  <2>10. /\ v.conn = [y.conn EXCEPT ![s] = [@ EXCEPT !.in = buf, !.batched = TRUE]]
         /\ v.ticket = y.ticket /\ v.tokens = y.tokens /\ v.closes = y.closes
         /\ v.recvs = y.recvs /\ v.batch = Append(q, e)
    BY <2>2, <2>7, <2>8, <2>9 DEF States
  <2>11. Line(v, s, w, D) /\ Elsewhere(y, v, s)
    BY <1>5, <1>14, <1>15, <2>2, <2>5, <2>10, BatchedLine
  <2>12. v.conn[s].generation = g /\ v.conn[s].batched
    <3>1. y.conn[s] \in Connections
      BY <2>2, ConnIs
    <3>2. v.conn[s] = [y.conn[s] EXCEPT !.in = buf, !.batched = TRUE]
      BY <2>2, <2>10, StatesAre
    <3> QED
      BY <2>5, <3>1, <3>2 DEF Connections
  <2>13. ASSUME NEW r \in Slots PROVE InBatch(v, Append(q, e), 1, r)
    <3>1. InBatch(y, q, 1, r)
      BY <2>3, <2>4 DEF Lined
    <3>2. g = y.conn[s].generation /\ ~y.conn[s].batched
      BY <2>5
    <3> QED
      BY <2>6, <2>11, <2>12, <3>1, <3>2, JoinsBatch
  <2>14. X[s] = w /\ \A r \in Slots : r # s => X[r] = W[r]
    OBVIOUS
  <2>15. ASSUME NEW r \in Slots PROVE Line(v, r, X[r], D)
    <3>1. CASE r = s
      BY <2>11, <2>14, <3>1
    <3>2. CASE r # s
      <4>1. Same(y, v, r) /\ Line(y, r, W[r], D)
        BY <2>3, <2>11, <3>2 DEF Elsewhere, Lined
      <4> QED
        BY <2>14, <3>2, <4>1, SameLine
    <3> QED
      BY <3>1, <3>2
  <2>16. Unsaid(v, D)
    BY <2>3, <2>10 DEF Unsaid, Lined
  <2>17. Kept(y, v)
    <3>1. ASSUME NEW r \in Slots PROVE v.conn[r].generation = y.conn[r].generation
      BY <2>5, <2>11, <2>12 DEF Elsewhere, Same, SameWork
    <3>2. v.recvs = y.recvs
      BY <2>10
    <3> QED
      BY <3>1, <3>2, TaggedStays DEF Kept
  <2>18. Kept(u, v)
    BY <2>3, <2>17, KeptTwice
  <2> QED
    BY <2>3, <2>10, <2>13, <2>15, <2>16, <2>18 DEF Lined
<1>16. CASE Split /\ ~batching /\ FreeTickets(u) = {}
  <2>1. v = QueueForTicket(x, s)
    BY <1>2, <1>3, <1>7, <1>16 DEF ServeNextRequest, Hold
  <2>2. Everywhere(x, v)
    BY <1>8, <2>1, QueueForTicketStill, StillEverywhere
  <2>3. Same(x, v, s) /\ Unsaid(v, D)
    BY <1>9, <2>2, SameEverywhere
  <2>4. Line(v, s, w, D)
    BY <1>10, <2>3, SameLine
  <2>5. Alone(x, v, s)
    BY <2>2, EverywhereAlone
  <2>6. Alone(u, v, s)
    BY <1>9, <2>5, AloneTwice
  <2> QED
    BY <1>6, <2>3, <2>4, <2>6
<1>17. CASE Split /\ ~batching /\ FreeTickets(u) # {} /\ ~Prepared(buf)
  <2>1. v = SendStatusAndClose(DropRest(u, s), s)
    BY <1>2, <1>3, <1>17 DEF ServeNextRequest
  <2> QED
    BY <1>12, <2>1
<1>18. CASE Split /\ ~batching /\ FreeTickets(u) # {} /\ Prepared(buf)
  <2>1. PICK t \in FreeTickets(u) : t = CHOOSE z \in FreeTickets(u) : TRUE
    BY <1>18
  <2>2. PICK y : y = Acquire(u, t)
    OBVIOUS
  <2>3. PICK outcome : outcome = handler[s]
    OBVIOUS
  <2>4. v = Finish(y, s, t, buf, outcome)
    BY <1>2, <1>3, <1>18, <2>1, <2>2, <2>3 DEF ServeNextRequest
  <2>5. Fine(y, {} \cup {t}, P, F, b)
    BY <2>2, AcquireDoes
  <2>6. /\ \A r \in Slots : Same(u, y, r)
        /\ Unsaid(y, D) /\ y.batch = u.batch /\ y.recvs = u.recvs
        /\ \A z \in Tickets : y.ticket[z].slot = u.ticket[z].slot
        /\ u.ticket[t].slot = NoSlot /\ t \in Tickets
    BY <1>1, <1>5, <2>2, AcquireSame
  <2>7. AtRest(y, s, w)
    BY <1>3, <2>6, SameRests
  <2>8. Alone(u, y, s)
    <3>1. \A r \in Slots : y.conn[r].generation = u.conn[r].generation
      BY <2>6 DEF Same, SameWork
    <3>2. y.recvs = u.recvs
      BY <2>6
    <3>3. Tagged(u) => Tagged(y)
      BY <3>1, <3>2, TaggedStays
    <3> QED
      BY <2>6, <3>1, <3>3 DEF Alone, Elsewhere
  <2>9. Ready(buf, s, y.conn[s].generation, w)
    BY <1>4, <1>5, <2>8 DEF Alone
  <2>10. t \in {} \cup {t} /\ y.ticket[t].slot = NoSlot /\ Unsaid(y, D)
    BY <2>6
  <2>11. Line(v, s, w, D) /\ Alone(y, v, s) /\ Unsaid(v, D)
    BY <1>14, <1>18, <2>4, <2>5, <2>7, <2>9, <2>10, FinishLine
  <2>12. Alone(u, v, s)
    BY <2>8, <2>11, AloneTwice
  <2> QED
    BY <1>6, <2>11, <2>12
<1> QED
  BY <1>11, <1>13, <1>15, <1>16, <1>17, <1>18

\* What the next step needs, after one that touches no connection.
LEMMA LinedOn ==
  ASSUME NEW u, NEW v, NEW W, NEW D, Lined(u, W, D, u.batch, 1), Everywhere(u, v)
  PROVE  Lined(v, W, D, v.batch, 1) /\ Kept(u, v)
<1>1. Lined(v, W, D, u.batch, 1)
  BY NoneSteps
<1> QED
  BY <1>1, EverywhereKept DEF Everywhere

LEMMA PutIs ==
  ASSUME NEW u \in States, NEW s \in Slots, NEW d \in Connections, NEW v, v = Put(u, s, d)
  PROVE  v \in States /\ v.conn[s] = d
<1> HIDE DEF Connections
<1> QED
  BY StatesAre DEF Put, States

\* A slot is another client's.
Succeeds(u, v, s) ==
  /\ Tagged(u) => Tagged(v)
  /\ v.conn[s].generation = u.conn[s].generation + 1
  /\ \A r \in Slots : r # s => v.conn[r].generation = u.conn[r].generation

LEMMA AcceptLined ==
  ASSUME NEW u, NEW P, NEW F, NEW b, Fine(u, {}, P, F, b), NEW W \in [Slots -> Worlds], NEW D,
         Lined(u, W, D, u.batch, 1), NEW e, NEW s \in Slots, s = e.slot, ~W[s].live,
         NEW g \in Nat, g = u.conn[s].generation,
         NEW w \in Worlds, w.live, ~w.over, Ready(<< >>, s, g + 1, w),
         NEW v, v = HandleAcceptCompletion(u, e), NEW X, X = [W EXCEPT ![s] = w]
  PROVE  Lined(v, X, D, v.batch, 1) /\ Succeeds(u, v, s)
<1>1. u \in States
  BY FineIs
<1>2. PICK c \in Connections : c = u.conn[s]
  BY <1>1, ConnIs
<1>3. PICK n \in Nat : n = g + 1 /\ n = c.generation + 1 /\ g < n
  BY <1>2
<1>4. PICK d : d = [FreeConnection EXCEPT !.inUse = TRUE,
                                          !.generation = n,
                                          !.waitingForTicket = c.waitingForTicket,
                                          !.nextWaiting = c.nextWaiting,
                                          !.waitingForRearm = c.waitingForRearm,
                                          !.nextRearm = c.nextRearm]
  OBVIOUS
<1>5. d = [ inUse |-> TRUE, generation |-> n, in |-> << >>, recvArmed |-> FALSE,
            sendInFlight |-> FALSE, batched |-> FALSE,
            deferred |-> FALSE, deferredKeepAlive |-> TRUE,
            waitingForTicket |-> c.waitingForTicket, nextWaiting |-> c.nextWaiting,
            waitingForRearm |-> c.waitingForRearm, nextRearm |-> c.nextRearm ]
  BY <1>4 DEF FreeConnection
<1>6. d \in Connections
  <2>1. << >> \in Bytes
    BY NothingJoined
  <2>2. c.waitingForTicket \in BOOLEAN /\ c.nextWaiting \in Links
        /\ c.waitingForRearm \in BOOLEAN /\ c.nextRearm \in Links
    BY DEF Connections
  <2> HIDE DEF Bytes, Links
  <2> QED
    BY <1>5, <2>1, <2>2 DEF Connections
<1>7. SamePlace(c, d) /\ CaredFor(d)
  BY <1>5 DEF SamePlace, CaredFor, NextFrame
<1>8. PICK y : y = Put(u, s, d)
  OBVIOUS
<1>9. y \in States /\ y.conn[s] = d
  BY <1>1, <1>6, <1>8, PutIs
<1>10. v = ArmRecv(y, s)
  BY <1>2, <1>3, <1>4, <1>8 DEF HandleAcceptCompletion, Put
<1>11. /\ y.ticket = u.ticket /\ y.tokens = u.tokens /\ y.closes = u.closes
       /\ y.batch = u.batch /\ y.recvs = u.recvs
       /\ \A r \in Slots : r # s => y.conn[r] = u.conn[r]
  BY <1>1, <1>8, StatesAre DEF Put, States
<1>12. /\ y.conn[s].inUse /\ y.conn[s].generation = n /\ y.conn[s].in = << >>
       /\ ~y.conn[s].sendInFlight /\ ~y.conn[s].batched /\ ~y.conn[s].deferred
  BY <1>5, <1>9
<1>13. PICK q : q = u.batch
  OBVIOUS
<1>14. Lined(u, W, D, q, 1) /\ Line(u, s, W[s], D) /\ InBatch(u, q, 1, s)
  BY <1>13 DEF Lined
<1>15. /\ \A t \in Tickets : u.ticket[t].slot = s => u.ticket[t].generation <= g
       /\ \A k \in u.tokens : k.slot = s => k.generation <= g
       /\ s \notin u.closes
  BY <1>14 DEF Line, Owned, Past
<1>16. /\ \A t \in Tickets : u.ticket[t].generation \in Nat
       /\ \A k \in u.tokens : k.generation \in Nat
       /\ \A i \in DOMAIN q : q[i].generation \in Nat
       /\ DOMAIN q = 1 .. Len(q)
  <2>1. u.ticket \in [Tickets -> TicketStates]
    BY <1>1, StatesAre
  <2>2. \A t \in Tickets : u.ticket[t].generation \in Nat
    BY <2>1 DEF TicketStates
  <2>3. u.tokens \subseteq Tokens
    BY <1>1, StatesAre
  <2>4. \A k \in u.tokens : k.generation \in Nat
    BY <2>3 DEF Tokens
  <2>5. q \in Seq(BatchEntries)
    BY <1>1, <1>13, StatesAre
  <2>6. DOMAIN q = 1 .. Len(q) /\ \A i \in DOMAIN q : q[i] \in BatchEntries
    BY <2>5, LenProperties, ElementOfSeq
  <2>7. \A i \in DOMAIN q : q[i].generation \in Nat
    BY <2>6 DEF BatchEntries
  <2> QED
    BY <2>2, <2>4, <2>6, <2>7
<1>17. /\ \A t \in Tickets : u.ticket[t].slot = s =>
            u.ticket[t].generation <= n /\ u.ticket[t].generation # n
       /\ \A k \in u.tokens : k.slot = s => k.generation <= n /\ k.generation # n
  BY <1>3, <1>15, <1>16
<1>18. Mine(y, s) = {}
  BY <1>11, <1>12, <1>17 DEF Mine
<1>19. Past(y, s)
  BY <1>11, <1>12, <1>17, <1>18 DEF Past
<1>20. AtRest(y, s, w)
  BY <1>3, <1>11, <1>12, <1>15, <1>17, <1>18, <1>19 DEF AtRest
<1>21. Line(y, s, w, D)
  <2>1. Ready(y.conn[s].in, s, y.conn[s].generation, w)
    BY <1>3, <1>12
  <2> QED
    BY <1>9, <1>20, <2>1, RestsInLine
<1>22. Elsewhere(u, y, s)
  BY <1>11, ElsewhereIs
<1>23. Unsaid(y, D)
  BY <1>11 DEF Unsaid, Lined
<1>24. InBatch(y, q, 1, s)
  <2>1. \A i \in 1 .. Len(q) : q[i].slot = s => q[i].generation <= g
    BY <1>14 DEF InBatch
  <2>2. \A i \in 1 .. Len(q) : q[i].slot = s =>
          q[i].generation <= n /\ q[i].generation # n
    BY <1>3, <1>16, <2>1
  <2> QED
    BY <1>12, <2>2 DEF InBatch
<1>25. Lined(y, X, D, q, 1)
  BY <1>14, <1>21, <1>22, <1>23, <1>24, SlotStep
<1>26. Tagged(u) => Tagged(y)
  <2> SUFFICES ASSUME Tagged(u), NEW r \in Slots, NEW i \in DOMAIN u.recvs[r]
               PROVE  /\ u.recvs[r][i] < TagWidth
                      /\ y.conn[r].generation < TagWidth =>
                           u.recvs[r][i] <= y.conn[r].generation
    BY <1>11 DEF Tagged
  <2>1. CASE r # s
    BY <1>11, <2>1 DEF Tagged
  <2>2. CASE r = s
    <3>1. PICK m \in Nat : m = TagWidth
      BY RingAssumption DEF RingAssumption
    <3>2. PICK tag \in Nat : tag = u.recvs[r][i]
      BY <1>1, StatesAre, LenProperties
    <3>3. tag < m /\ (g < m => tag <= g)
      BY <2>2, <3>1, <3>2 DEF Tagged
    <3>4. n < m => tag <= n
      BY <1>3, <3>3
    <3> QED
      BY <1>12, <2>2, <3>1, <3>2, <3>3, <3>4
  <2> QED
    BY <2>1, <2>2
<1>27. Everywhere(y, v)
  BY <1>9, <1>10, ArmRecvEverywhere
<1>28. Lined(v, X, D, v.batch, 1) /\ Kept(y, v)
  <2>1. Lined(y, X, D, y.batch, 1)
    BY <1>11, <1>13, <1>25
  <2> QED
    BY <1>27, <2>1, LinedOn
<1>29. Succeeds(u, v, s)
  BY <1>2, <1>3, <1>11, <1>12, <1>26, <1>28 DEF Kept, Succeeds
<1> QED
  BY <1>28, <1>29

\* A connection changes and keeps its place in the batch.
LEMMA StaysLined ==
  ASSUME NEW u, NEW v, NEW W \in [Slots -> Worlds], NEW D, NEW s \in Slots,
         Lined(u, W, D, u.batch, 1), v.conn[s].batched = u.conn[s].batched,
         Alone(u, v, s), Unsaid(v, D),
         NEW w \in Worlds, Line(v, s, w, D), NEW X, X = [W EXCEPT ![s] = w]
  PROVE  Lined(v, X, D, v.batch, 1) /\ Kept(u, v)
<1>1. PICK q : q = u.batch
  OBVIOUS
<1>2. Lined(u, W, D, q, 1) /\ InBatch(u, q, 1, s)
  BY <1>1 DEF Lined
<1>3. /\ Elsewhere(u, v, s) /\ v.batch = q /\ Kept(u, v)
      /\ v.conn[s].generation = u.conn[s].generation
  BY <1>1, AloneKept DEF Alone
<1>4. InBatch(v, q, 1, s)
  BY <1>2, <1>3, SameBatch
<1>5. Lined(v, X, D, q, 1)
  BY <1>2, <1>3, <1>4, SlotStep
<1> QED
  BY <1>3, <1>5

LEMMA AloneSelf ==
  ASSUME NEW u, NEW s
  PROVE  Alone(u, u, s)
  BY DEF Alone, Elsewhere, Same, SameWork

\* What is to come for a connection that is gone makes no difference to it.
LEMMA SameClientLine ==
  ASSUME NEW u, NEW s, NEW w, NEW x, NEW D, Line(u, s, w, D), SameClient(w, x),
         ~u.conn[s].inUse \/ x.rest = w.rest
  PROVE  Line(u, s, x, D)
<1>1. Owned(u, s, x, D)
  BY DEF Line, Owned, SameClient
<1>2. Start(u, s, x, D) = Start(u, s, w, D)
  BY DEF Start, SameClient
<1>3. u.conn[s].inUse => Served(u, s, x, D)
  BY <1>2 DEF Line, Served, SameClient
<1> QED
  BY <1>1, <1>3 DEF Line, SameClient

LEMMA SameClientLined ==
  ASSUME NEW u, NEW W \in [Slots -> Worlds], NEW D, NEW s \in Slots,
         Lined(u, W, D, u.batch, 1), NEW w \in Worlds, SameClient(W[s], w),
         ~u.conn[s].inUse \/ w.rest = W[s].rest, NEW X, X = [W EXCEPT ![s] = w]
  PROVE  Lined(u, X, D, u.batch, 1)
<1>1. Line(u, s, w, D)
  BY SameClientLine DEF Lined
<1>2. Alone(u, u, s) /\ Unsaid(u, D)
  BY AloneSelf DEF Lined
<1> QED
  BY <1>1, <1>2, StaysLined

GoesOn(u, s, handler) == ServeNextRequest(u, s, u.conn[s].in, handler)

\* A connection with a response on its way waits; any other is served from what it holds.
LEMMA GoesOnLined ==
  ASSUME NEW u, NEW P, NEW F, NEW b, Fine(u, {}, P, F, b), NEW W \in [Slots -> Worlds], NEW D,
         Lined(u, W, D, u.batch, 1), NEW s \in Slots, u.conn[s].inUse, ~u.conn[s].sendInFlight,
         NEW handler, NEW v, v = GoesOn(u, s, handler)
  PROVE  Lined(v, W, D, v.batch, 1) /\ Kept(u, v)
<1>1. CASE u.conn[s].batched \/ u.conn[s].deferred
  <2>1. v = u
    BY <1>1 DEF ServeNextRequest, GoesOn
  <2> QED
    BY <2>1, KeptSelf
<1>2. CASE ~(u.conn[s].batched \/ u.conn[s].deferred)
  <2>1. PICK w \in Worlds : w = W[s]
    OBVIOUS
  <2>2. u \in States /\ Line(u, s, w, D)
    BY <2>1, FineIs DEF Lined
  <2>3. PICK buf \in Bytes : buf = u.conn[s].in
    BY <2>2, ConnIs DEF Connections
  <2>4. v = ServeNextRequest(u, s, buf, handler)
    BY <2>3 DEF GoesOn
  <2>5. AtRest(u, s, w) /\ Ready(buf, s, u.conn[s].generation, w)
    BY <1>2, <2>2, <2>3, RestOf
  <2>6. PICK X : X = [W EXCEPT ![s] = w]
    OBVIOUS
  <2>7. X = W
    BY <2>1, <2>6
  <2>8. SameClient(W[s], w) /\ AtRest(u, s, W[s])
        /\ Ready(buf, s, u.conn[s].generation, w)
    BY <2>1, <2>5 DEF SameClient
  <2>9. Lined(v, X, D, v.batch, 1) /\ Kept(u, v)
    BY <2>6, <2>8, <2>4, ServeLined
  <2> QED
    BY <2>7, <2>9
<1> QED
  BY <1>1, <1>2

\* The next that the client has sent is read.
Reads(w, x, data) == SameClient(w, x) /\ w.rest = data \o x.rest

More(u, s, data) == Hold(u, s, u.conn[s].in \o data)

\* What arrives goes behind what a connection holds that waits for something.
LEMMA JoinsLine ==
  ASSUME NEW u \in States, NEW s \in Slots, NEW w \in Worlds, NEW x \in Worlds, NEW D,
         Line(u, s, w, D), Unsaid(u, D), u.conn[s].inUse, u.conn[s].generation < TagWidth,
         NEW data \in Bytes, data # << >>, Reads(w, x, data),
         NEW v, v = More(u, s, data)
  PROVE  /\ Line(v, s, x, D) /\ Alone(u, v, s) /\ Unsaid(v, D)
         /\ v.conn[s].batched = u.conn[s].batched
         /\ v.conn[s].in = u.conn[s].in \o data /\ v.conn[s].inUse
         /\ v.conn[s].sendInFlight = u.conn[s].sendInFlight
         /\ Len(v.conn[s].in) <= API_MAX_REQUEST_SIZE
<1>1. PICK in : in = u.conn[s].in \o data
  OBVIOUS
<1>2. /\ v.conn = [u.conn EXCEPT ![s].in = in] /\ v.ticket = u.ticket /\ v.batch = u.batch
      /\ v.tokens = u.tokens /\ v.closes = u.closes /\ v.recvs = u.recvs
  BY <1>1 DEF States, Hold, More
<1>3. /\ v.conn[s] = [u.conn[s] EXCEPT !.in = in]
      /\ \A r \in Slots : r # s => v.conn[r] = u.conn[r]
  BY <1>2, StatesAre
<1>4. u.conn[s] \in Connections
  BY ConnIs
<1>5. PICK c : c = u.conn[s]
  OBVIOUS
<1>6. PICK d : d = v.conn[s]
  OBVIOUS
<1>7. /\ d.inUse = c.inUse /\ d.generation = c.generation /\ d.in = in
      /\ d.sendInFlight = c.sendInFlight /\ d.batched = c.batched
      /\ d.deferred = c.deferred /\ d.deferredKeepAlive = c.deferredKeepAlive
  BY <1>3, <1>4, <1>5, <1>6 DEF Connections
<1>8. Mine(v, s) = Mine(u, s) /\ (Past(u, s) => Past(v, s))
  <2>1. v.ticket = u.ticket /\ v.tokens = u.tokens
        /\ v.conn[s].generation = u.conn[s].generation
    BY <1>2, <1>5, <1>6, <1>7
  <2> QED
    BY <2>1 DEF Mine, Past
<1>9. Ending(v, s) = Ending(u, s)
  BY <1>2, <1>5, <1>6, <1>7, <1>8 DEF Ending
<1>10. Start(v, s, x, D) = Start(u, s, w, D)
  BY <1>5, <1>6, <1>7, <1>8 DEF Start, SameClient, Reads
<1>11. Owned(v, s, x, D)
  <2>1. Owned(u, s, w, D)
    BY DEF Line
  <2>2. v.ticket = u.ticket /\ v.conn[s].generation = u.conn[s].generation
    BY <1>2, <1>5, <1>6, <1>7
  <2> QED
    BY <1>8, <2>1, <2>2 DEF Owned, SameClient, Reads
<1>12. PICK held \in Bytes, rest \in Bytes : held = c.in /\ rest = x.rest
  BY <1>4, <1>5 DEF Connections, Worlds
<1>13. PICK k \in Bytes : k = data \o rest
  BY BothBytes
<1>14. /\ in \in Bytes /\ in # << >>
       /\ Len(in) = Len(held) + Len(data) /\ Len(k) = Len(data) + Len(rest)
       /\ in \o rest = held \o k
  <2>1. in = held \o data
    BY <1>1, <1>5, <1>12
  <2>2. /\ in \in Bytes /\ Len(in) = Len(held) + Len(data)
    BY <2>1, Concats
  <2>3. Len(k) = Len(data) + Len(rest)
    BY <1>13, Concats
  <2>4. Len(held) \in Nat /\ Len(data) \in Nat /\ Len(data) >= 1
    BY BytesTyped
  <2>5. Len(in) # 0
    BY <2>2, <2>4
  <2>6. in # << >>
    BY <2>2, <2>5, BytesTyped
  <2>7. (held \o data) \o rest = held \o (data \o rest)
    BY Joined
  <2> QED
    BY <1>13, <2>1, <2>2, <2>3, <2>6, <2>7
<1>15. Served(u, s, w, D) /\ w.rest = k
  BY <1>12, <1>13 DEF Line, Reads
<1>16. InStep(c) /\ c.generation < TagWidth
  BY <1>5, <1>15 DEF Served
<1>17. InStep(d)
  BY <1>7, <1>14, <1>16 DEF InStep
<1>18. Len(held) + Len(k) <= API_MAX_REQUEST_SIZE
  BY <1>5, <1>12, <1>15 DEF Served
<1>19. Len(in) + Len(rest) <= API_MAX_REQUEST_SIZE /\ Len(in) <= API_MAX_REQUEST_SIZE
  <2>1. /\ Len(held) \in Nat /\ Len(data) \in Nat /\ Len(rest) \in Nat
        /\ API_MAX_REQUEST_SIZE \in Nat
    BY BytesTyped, RingAssumption DEF RingAssumption
  <2> QED
    BY <1>14, <1>18, <2>1
<1>20. Served(v, s, x, D)
  <2>1. Mine(v, s) # {} <=> d.sendInFlight
    BY <1>5, <1>7, <1>8, <1>15 DEF Served
  <2>2. x.over => d.sendInFlight /\ Ending(v, s)
    BY <1>5, <1>7, <1>9, <1>15 DEF Served, SameClient, Reads
  <2>3. \A t \in v.tokens : t.slot = s /\ t.generation = d.generation =>
          d.deferred /\ t.req = << s, d.generation, x.turn >>
    BY <1>2, <1>5, <1>7, <1>15 DEF Served, SameClient, Reads
  <2>4. Len(d.in) + Len(x.rest) <= API_MAX_REQUEST_SIZE
    BY <1>7, <1>12, <1>19
  <2>5. d.generation < TagWidth /\ ~Ending(v, s) =>
          InLine(d.in \o x.rest, s, d.generation, Start(v, s, x, D))
    <3>1. c.generation < TagWidth /\ ~Ending(u, s) =>
            InLine(held \o k, s, c.generation, Start(u, s, w, D))
      BY <1>5, <1>12, <1>15 DEF Served
    <3> QED
      BY <1>7, <1>9, <1>10, <1>12, <1>14, <3>1
  <2> QED
    BY <1>6, <1>17, <2>1, <2>2, <2>3, <2>4, <2>5 DEF Served
<1>21. Line(v, s, x, D)
  BY <1>2, <1>5, <1>6, <1>7, <1>11, <1>20 DEF Line, SameClient, Reads
<1>22. Elsewhere(u, v, s)
  BY <1>2, <1>3, ElsewhereIs
<1>23. Unsaid(v, D)
  BY <1>2 DEF Unsaid
<1>24. \A r \in Slots : v.conn[r].generation = u.conn[r].generation
  BY <1>3, <1>5, <1>6, <1>7
<1>25. Tagged(u) => Tagged(v)
  <2>1. v.recvs = u.recvs
    BY <1>2
  <2> QED
    BY <1>24, <2>1, TaggedStays
<1>26. Alone(u, v, s)
  BY <1>2, <1>22, <1>24, <1>25 DEF Alone
<1> QED
  BY <1>1, <1>5, <1>6, <1>7, <1>19, <1>21, <1>23, <1>26

LEMMA LinedTwice ==
  ASSUME NEW u, NEW v, NEW x, NEW W, NEW D, Lined(v, W, D, v.batch, 1), Kept(u, v),
         Everywhere(v, x)
  PROVE  Lined(x, W, D, x.batch, 1) /\ Kept(u, x)
<1>1. Lined(x, W, D, x.batch, 1) /\ Kept(v, x)
  BY LinedOn
<1> QED
  BY <1>1, KeptTwice

Turned(W, s, w, X) == X = [W EXCEPT ![s] = w]

Brings(e, s, data) == e.slot = s /\ e.data = data

\* The bytes of a completion are the next that the client has sent.
LEMMA ReceivedLined ==
  ASSUME NEW u, NEW P, NEW b, Fine(u, {}, P, {}, b), NEW W \in [Slots -> Worlds], NEW D,
         Lined(u, W, D, u.batch, 1), NEW e, NEW s \in Slots, u.conn[s].inUse,
         u.conn[s].generation < TagWidth,
         NEW data \in Bytes, Brings(e, s, data), data # << >>, NEW handler,
         NEW x \in Worlds, Reads(W[s], x, data),
         NEW v, v = Received(u, e, handler), NEW X, Turned(W, s, x, X)
  PROVE  Lined(v, X, D, v.batch, 1) /\ Kept(u, v)
<1>1. u \in States
  BY FineIs
<1>2. PICK c \in Connections : c = u.conn[s]
  BY <1>1, ConnIs
<1>3. PICK w \in Worlds : w = W[s]
  OBVIOUS
<1>4. Line(u, s, w, D) /\ Unsaid(u, D) /\ Reads(w, x, data)
  BY <1>3 DEF Lined
<1>5. SameClient(W[s], x)
  BY DEF Reads
<1>6. PICK more \in Bytes : more = c.in \o data
  BY BothBytes DEF Connections
<1>7. PICK h : h = More(u, s, data)
  OBVIOUS
<1>8. /\ Line(h, s, x, D) /\ Alone(u, h, s) /\ Unsaid(h, D)
      /\ h.conn[s].batched = u.conn[s].batched
      /\ h.conn[s].in = more /\ h.conn[s].inUse
      /\ h.conn[s].sendInFlight = u.conn[s].sendInFlight
      /\ Len(more) <= API_MAX_REQUEST_SIZE
  <2>1. /\ Line(h, s, x, D) /\ Alone(u, h, s) /\ Unsaid(h, D)
        /\ h.conn[s].batched = u.conn[s].batched
        /\ h.conn[s].in = u.conn[s].in \o data /\ h.conn[s].inUse
        /\ h.conn[s].sendInFlight = u.conn[s].sendInFlight
        /\ Len(h.conn[s].in) <= API_MAX_REQUEST_SIZE
    BY <1>1, <1>4, <1>7, JoinsLine, SMTT(30)
  <2> QED
    BY <1>2, <1>6, <2>1
<1>9. X = [W EXCEPT ![s] = x]
  BY DEF Turned
<1>10. Lined(h, X, D, h.batch, 1) /\ Kept(u, h)
  BY <1>8, <1>9, StaysLined
<1>11. PICK y : y = RecycleRecvBuffer(h)
  OBVIOUS
<1>12. PartialFits(Len(more))
  BY <1>8 DEF PartialFits
<1>13. h = [u EXCEPT !.conn[s].in = more]
  BY <1>2, <1>6, <1>7 DEF Hold, More
<1>14. Fine(h, {}, P, {s}, b)
  <2>1. Fine(h, {}, P, {} \cup {s}, b)
    BY <1>13, HoldsNow
  <2> QED
    BY <2>1, FineMore
<1>15. Fine(y, {}, P, {s}, b + 1) /\ Everywhere(h, y)
  BY <1>11, <1>14, RecycleDoes, RecycleEverywhere
<1>16. Lined(y, X, D, y.batch, 1) /\ Kept(u, y)
  BY <1>10, <1>15, LinedTwice
<1>17. y.conn[s].inUse /\ y.conn[s].in = more /\ y.conn[s].sendInFlight = c.sendInFlight
  <2>1. SameWork(h.conn[s], y.conn[s])
    BY <1>15 DEF Everywhere
  <2> QED
    BY <1>2, <1>8, <2>1 DEF SameWork
<1>18. X \in [Slots -> Worlds]
  BY <1>9
<1>19. CASE c.sendInFlight
  <2>1. v = RearmAfter(y, s)
    BY <1>2, <1>6, <1>11, <1>12, <1>13, <1>19 DEF Received, Brings
  <2>2. Everywhere(y, v)
    BY <1>15, <2>1, FineIs, RearmAfterEverywhere
  <2> QED
    BY <1>16, <2>2, LinedTwice
<1>20. CASE ~c.sendInFlight /\ (c.in # << >> \/ c.deferred)
  <2>1. PICK z : z = ServeNextRequest(y, s, more, handler)
    OBVIOUS
  <2>2. v = RearmAfter(z, s)
    BY <1>2, <1>6, <1>11, <1>12, <1>13, <1>20, <2>1 DEF Received, Brings
  <2>3. z = GoesOn(y, s, handler)
    BY <1>17, <2>1 DEF GoesOn
  <2>4. Lined(z, X, D, z.batch, 1) /\ Kept(y, z)
    <3>1. Lined(y, X, D, y.batch, 1) /\ y.conn[s].inUse /\ ~y.conn[s].sendInFlight
      BY <1>16, <1>17, <1>20
    <3>2. PICK F, n : F = {s} /\ n = b + 1
      OBVIOUS
    <3>3. Fine(y, {}, P, F, n)
      BY <1>15, <3>2
    <3> QED
      BY <1>18, <2>3, <3>1, <3>3, GoesOnLined
  <2>5. Fine(z, {}, P, {s} \ {s}, b + 1)
    BY <1>15, <2>1, ServeNextRequestDoes
  <2>6. Everywhere(z, v)
    BY <2>2, <2>5, FineIs, RearmAfterEverywhere
  <2> QED
    BY <1>16, <2>4, <2>6, KeptTwice, LinedTwice
<1>21. CASE ~c.sendInFlight /\ ~(c.in # << >> \/ c.deferred)
  <2>1. ~c.batched
    BY <1>2, <1>4, <1>21 DEF Line, Served, InStep
  <2>2. AtRest(u, s, w) /\ Ready(u.conn[s].in, s, u.conn[s].generation, w)
    BY <1>1, <1>2, <1>4, <1>21, <2>1, RestOf
  <2>3. AtRest(u, s, W[s])
    BY <1>3, <2>2
  <2>4. Ready(data, s, u.conn[s].generation, x)
    <3>1. Ready(<< >>, s, u.conn[s].generation, w)
      BY <1>2, <1>21, <2>2
    <3>2. PICK rest \in Bytes, k \in Bytes : rest = x.rest /\ k = data \o rest
      BY BothBytes DEF Worlds
    <3>3. w.rest = k /\ << >> \o k = k /\ x.turn = w.turn
      BY <1>4, <3>2, NothingJoined DEF SameClient, Reads
    <3>4. Len(k) = Len(data) + Len(rest) /\ Len(k) \in Nat
      <4>1. Len(k) = Len(data) + Len(rest)
        BY <3>2, Concats
      <4> QED
        BY <4>1, BytesTyped
    <3>5. Len(<< >>) + Len(k) <= API_MAX_REQUEST_SIZE
      BY <3>1, <3>3 DEF Ready
    <3>6. Len(data) + Len(rest) <= API_MAX_REQUEST_SIZE
      <4>1. Len(<< >>) = 0
        OBVIOUS
      <4> QED
        BY <3>4, <3>5, <4>1
    <3>7. u.conn[s].generation < TagWidth =>
            InLine(k, s, u.conn[s].generation, x.turn)
      BY <3>1, <3>3 DEF Ready
    <3> QED
      BY <3>2, <3>6, <3>7 DEF Ready
  <2>5. PICK z : z = ServeNextRequest(u, s, data, handler)
    OBVIOUS
  <2>6. Lined(z, X, D, z.batch, 1) /\ Kept(u, z)
    BY <1>5, <1>9, <2>3, <2>4, <2>5, ServeLined
  <2>7. PICK r : r = RecycleRecvBuffer(z)
    OBVIOUS
  <2>8. v = RearmAfter(r, s)
    BY <1>2, <1>21, <2>5, <2>7 DEF Received, Brings
  <2>9. Fine(z, {}, P, {} \ {s}, b)
    BY <2>5, ServeNextRequestDoes
  <2>10. Fine(r, {}, P, {} \ {s}, b + 1) /\ Everywhere(z, r)
    BY <2>7, <2>9, RecycleDoes, RecycleEverywhere
  <2>11. Everywhere(r, v)
    BY <2>8, <2>10, FineIs, RearmAfterEverywhere
  <2>12. Lined(r, X, D, r.batch, 1) /\ Kept(u, r)
    BY <2>6, <2>10, LinedTwice
  <2> QED
    BY <2>11, <2>12, LinedTwice
<1> QED
  BY <1>19, <1>20, <1>21

LEMMA CloseLined ==
  ASSUME NEW u \in States, NEW W \in [Slots -> Worlds], NEW D, Lined(u, W, D, u.batch, 1),
         NEW s \in Slots, u.conn[s].inUse, NEW v, v = CloseConnection(u, s)
  PROVE  Lined(v, W, D, v.batch, 1) /\ Kept(u, v)
<1>1. PICK w \in Worlds : w = W[s]
  OBVIOUS
<1>2. Line(u, s, w, D) /\ Unsaid(u, D)
  BY <1>1 DEF Lined
<1>3. w.live /\ Owned(u, s, w, D)
  BY <1>2 DEF Line
<1>4. /\ Line(v, s, w, D) /\ Alone(u, v, s)
      /\ \A E : Unsaid(u, E) => Unsaid(v, E)
      /\ v.conn[s].batched = u.conn[s].batched
  BY <1>3, CloseLine
<1>5. Unsaid(v, D)
  BY <1>2, <1>4
<1>6. PICK X : X = [W EXCEPT ![s] = w]
  OBVIOUS
<1>7. Lined(v, X, D, v.batch, 1) /\ Kept(u, v)
  BY <1>4, <1>5, <1>6, StaysLined
<1>8. X = W
  BY <1>1, <1>6
<1> QED
  BY <1>7, <1>8

\* Bytes are received by the connection they were sent to, and no other.
LEMMA RecvLined ==
  ASSUME NEW u, NEW P, NEW b, Fine(u, {}, P, {}, b), NEW W \in [Slots -> Worlds], NEW D,
         Lined(u, W, D, u.batch, 1), NEW e \in Recvs, e.tag < TagWidth, NEW s \in Slots,
         NEW data \in Bytes, Brings(e, s, data), NEW handler,
         NEW x \in Worlds, Reads(W[s], x, Carries(e, s, u.conn[s].generation)),
         NEW v, v = HandleRecvCompletion(u, e, handler), NEW X, Turned(W, s, x, X)
  PROVE  Lined(v, X, D, v.batch, 1) /\ Kept(u, v)
<1>1. u \in States
  BY FineIs
<1>2. PICK c \in Connections : c = u.conn[s]
  BY <1>1, ConnIs
<1>3. PICK y : y = IF e.more THEN u ELSE [u EXCEPT !.conn[s].recvArmed = FALSE]
  OBVIOUS
<1>4. Fine(y, {}, P, {}, b) /\ Everywhere(u, y)
  <2>1. CASE e.more
    BY <1>3, <2>1, EverywhereSelf
  <2>2. CASE ~e.more
    <3>1. y = [u EXCEPT !.conn[s].recvArmed = FALSE]
      BY <1>3, <2>2
    <3> QED
      BY <1>1, <3>1, DisarmDoes, DisarmStill, StillEverywhere
  <2> QED
    BY <2>1, <2>2
<1>5. /\ e.op = "recv" /\ e.slot = s /\ e.data = data
      /\ e.res \in {"data", "ENOBUFS", "end", "canceled"}
      /\ (data # << >> <=> e.res = "data")
  BY DEF Recvs, Brings
<1>6. X \in [Slots -> Worlds] /\ X = [W EXCEPT ![s] = x]
  BY DEF Turned
<1>7. PICK read \in Bytes : read = Carries(e, s, u.conn[s].generation)
  <2>1. Carries(e, s, u.conn[s].generation) = data
        \/ Carries(e, s, u.conn[s].generation) = << >>
    BY <1>5 DEF Carries
  <2> QED
    BY <2>1, NothingJoined
<1>8. SameClient(W[s], x) /\ (read = << >> => x.rest = W[s].rest)
  <2>1. SameClient(W[s], x) /\ W[s].rest = read \o x.rest
    BY <1>7 DEF Reads
  <2>2. x.rest \in Bytes
    BY DEF Worlds
  <2> QED
    BY <2>1, <2>2, NothingJoined
<1>9. ~c.inUse \/ read = << >> => Lined(u, X, D, u.batch, 1)
  BY <1>2, <1>6, <1>8, SameClientLined
<1>10. CASE ~c.inUse \/ c.generation # e.tag
  <2>1. v = IF data # << >> THEN RecycleRecvBuffer(u) ELSE u
    BY <1>2, <1>5, <1>10 DEF HandleRecvCompletion
  <2>2. Lined(u, X, D, u.batch, 1)
    BY <1>2, <1>7, <1>9, <1>10 DEF Carries
  <2>3. Everywhere(u, v)
    BY <2>1, EverywhereSelf, RecycleEverywhere
  <2> QED
    BY <2>2, <2>3, LinedOn
<1> DEFINE Theirs == ~(~c.inUse \/ c.generation # e.tag)
<1>11. Theirs => /\ read = data /\ y.conn[s].inUse /\ y.conn[s].generation < TagWidth
  <2>1. SameWork(u.conn[s], y.conn[s])
    BY <1>4 DEF Everywhere
  <2> QED
    BY <1>2, <1>5, <1>7, <2>1 DEF Carries, SameWork
<1>12. read = << >> => Lined(y, X, D, y.batch, 1) /\ Kept(u, y)
  BY <1>4, <1>9, LinedOn
<1>13. CASE Theirs /\ e.res = "data"
  <2>1. v = Received(y, e, handler)
    BY <1>2, <1>3, <1>5, <1>13 DEF HandleRecvCompletion
  <2>2. Lined(y, W, D, y.batch, 1) /\ Kept(u, y)
    BY <1>4, LinedOn
  <2>3. Reads(W[s], x, data) /\ data # << >>
        /\ y.conn[s].inUse /\ y.conn[s].generation < TagWidth
    BY <1>5, <1>7, <1>11, <1>13
  <2>4. Lined(v, X, D, v.batch, 1) /\ Kept(y, v)
    BY <1>4, <2>1, <2>2, <2>3, ReceivedLined
  <2> QED
    BY <2>2, <2>4, KeptTwice
<1>14. CASE Theirs /\ e.res = "ENOBUFS"
  <2>1. PICK z : z = [y EXCEPT !.conn[s].recvArmed = FALSE]
    OBVIOUS
  <2>2. v = QueueForRearm(z, s)
    BY <1>2, <1>3, <1>5, <1>14, <2>1 DEF HandleRecvCompletion
  <2>3. y \in States /\ Fine(z, {}, P, {}, b)
    BY <1>4, <2>1, FineIs, DisarmDoes
  <2>4. Still(y, z) /\ z \in States
    BY <2>1, <2>3, FineIs, DisarmStill
  <2>5. Still(z, v)
    BY <2>2, <2>4, QueueForRearmStill
  <2>6. Everywhere(y, v)
    BY <2>4, <2>5, StillTwice, StillEverywhere
  <2>7. Lined(y, X, D, y.batch, 1) /\ Kept(u, y)
    BY <1>5, <1>11, <1>12, <1>14
  <2> QED
    BY <2>6, <2>7, LinedTwice
<1>15. CASE Theirs /\ e.res = "end"
  <2>1. v = CloseConnection(y, s)
    BY <1>2, <1>3, <1>5, <1>15 DEF HandleRecvCompletion
  <2>2. Lined(y, X, D, y.batch, 1) /\ Kept(u, y) /\ y.conn[s].inUse
    BY <1>5, <1>11, <1>12, <1>15
  <2>3. Lined(v, X, D, v.batch, 1) /\ Kept(y, v)
    BY <1>4, <1>6, <2>1, <2>2, FineIs, CloseLined
  <2> QED
    BY <2>2, <2>3, KeptTwice
<1>16. CASE Theirs /\ e.res = "canceled"
  <2>1. v = y
    BY <1>2, <1>3, <1>5, <1>16 DEF HandleRecvCompletion
  <2> QED
    BY <1>5, <1>11, <1>12, <1>16, <2>1
<1> QED
  BY <1>5, <1>10, <1>13, <1>14, <1>15, <1>16

\* What is done elsewhere makes no difference to a connection.
LEMMA LineDone ==
  ASSUME NEW u, NEW s, NEW w, NEW D, NEW E, Line(u, s, w, D),
         Mine(u, s) \ D = Mine(u, s) \ E
  PROVE  Line(u, s, w, E)
<1>1. Owned(u, s, w, E)
  BY DEF Line, Owned
<1>2. Start(u, s, w, E) = Start(u, s, w, D)
  BY DEF Start
<1>3. u.conn[s].inUse => Served(u, s, w, E)
  BY <1>2 DEF Line, Served
<1> QED
  BY <1>1, <1>3 DEF Line

Without(D, t) == D \ {t}
For(u, t, s) == u.ticket[t].slot = s

\* A ticket that was a slot's comes back.
LEMMA TicketStep ==
  ASSUME NEW u, NEW v, NEW W \in [Slots -> Worlds], NEW D, NEW s \in Slots,
         Lined(u, W, D, u.batch, 1), NEW t, For(u, t, s), NEW E, E = Without(D, t),
         v.conn[s].batched = u.conn[s].batched, Alone(u, v, s), Unsaid(v, E),
         Line(v, s, W[s], E)
  PROVE  Lined(v, W, E, v.batch, 1) /\ Kept(u, v)
<1>1. PICK q : q = u.batch
  OBVIOUS
<1>2. /\ Elsewhere(u, v, s) /\ v.batch = q /\ Kept(u, v)
      /\ v.conn[s].generation = u.conn[s].generation
  BY <1>1, AloneKept DEF Alone
<1>3. ASSUME NEW r \in Slots PROVE Line(v, r, W[r], E) /\ InBatch(v, q, 1, r)
  <2>1. Line(u, r, W[r], D) /\ InBatch(u, q, 1, r)
    BY <1>1 DEF Lined
  <2>2. CASE r = s
    BY <1>2, <2>1, <2>2, SameBatch
  <2>3. CASE r # s
    <3>1. t \notin Mine(u, r)
      BY <2>3 DEF Mine, For
    <3>2. Mine(u, r) \ D = Mine(u, r) \ E
      BY <3>1 DEF Without
    <3>3. Line(u, r, W[r], E) /\ Same(u, v, r)
      BY <1>2, <2>1, <2>3, <3>2, LineDone DEF Elsewhere
    <3>4. Line(v, r, W[r], E)
      BY <3>3, SameLine
    <3>5. v.conn[r].generation = u.conn[r].generation
          /\ v.conn[r].batched = u.conn[r].batched
      BY <3>3 DEF Same, SameWork
    <3> QED
      BY <2>1, <3>4, <3>5, SameBatch
  <2> QED
    BY <2>2, <2>3
<1>4. Lined(v, W, E, q, 1)
  BY <1>3 DEF Lined
<1> QED
  BY <1>2, <1>4

\* A ticket is nobody's any more.
LEMMA ReleaseAlone ==
  ASSUME NEW u \in States, NEW t \in Tickets, NEW s \in Slots, For(u, t, s),
         NEW v, v = ReleaseSendTicket(u, t)
  PROVE  /\ v \in States /\ v.conn = u.conn /\ v.closes = u.closes /\ v.tokens = u.tokens
         /\ \A x \in Tickets : x # t => v.ticket[x] = u.ticket[x]
         /\ v.ticket[t].slot = NoSlot
         /\ Alone(u, v, s)
         /\ \A D : Unsaid(u, D) => Unsaid(v, Without(D, t))
<1>1. FreeTicket \in TicketStates /\ FreeTicket.slot = NoSlot
  BY FreeTicketTyped DEF FreeTicket
<1>2. /\ v.ticket = [u.ticket EXCEPT ![t] = FreeTicket] /\ v.conn = u.conn
      /\ v.closes = u.closes /\ v.tokens = u.tokens /\ v.batch = u.batch
      /\ v.recvs = u.recvs /\ v \in States
  BY <1>1 DEF States, ReleaseSendTicket
<1>3. /\ \A x \in Tickets : x # t => v.ticket[x] = u.ticket[x]
      /\ v.ticket[t] = FreeTicket
  BY <1>2, StatesAre
<1>4. Elsewhere(u, v, s)
  BY <1>1, <1>2, <1>3, ElsewhereIs DEF For
<1>5. Tagged(u) => Tagged(v)
  BY <1>2, TaggedStays
<1>6. \A D : Unsaid(u, D) => Unsaid(v, Without(D, t))
  BY <1>1, <1>3 DEF Unsaid, Without
<1> QED
  BY <1>1, <1>2, <1>3, <1>4, <1>5, <1>6 DEF Alone

\* The connection that a ticket was for is gone, or is another by now.
LEMMA GoneLine ==
  ASSUME NEW u \in States, NEW t \in Tickets, NEW s \in Slots, For(u, t, s),
         NEW w \in Worlds, NEW D, Line(u, s, w, D),
         ~u.conn[s].inUse \/ u.conn[s].generation # u.ticket[t].generation,
         NEW v, v = ReleaseSendTicket(u, t), NEW E, E = Without(D, t)
  PROVE  Line(v, s, w, E)
<1>1. /\ v.conn = u.conn /\ v.closes = u.closes /\ v.tokens = u.tokens
      /\ \A x \in Tickets : x # t => v.ticket[x] = u.ticket[x]
      /\ v.ticket[t].slot = NoSlot /\ s # NoSlot
  BY ReleaseAlone, SlotsAre
<1>2. Mine(v, s) = Mine(u, s) \ {t} /\ \A x \in Mine(v, s) : v.ticket[x] = u.ticket[x]
  BY <1>1 DEF Mine
<1>3. Past(v, s)
  <2>1. Past(u, s)
    BY DEF Line, Owned
  <2>2. \A x, y \in Mine(v, s) : x = y
    BY <1>2, <2>1 DEF Past
  <2> QED
    BY <1>1, <2>1, <2>2 DEF Past
<1>4. Owned(v, s, w, E)
  <2>1. Owned(u, s, w, D) /\ v.conn[s].generation = u.conn[s].generation
    BY <1>1 DEF Line
  <2>2. Mine(v, s) \ E = Mine(v, s) \ D /\ Mine(v, s) \subseteq Mine(u, s)
    BY <1>2 DEF Without
  <2>3. w.over => Mine(v, s) \subseteq E
    BY <1>2, <2>1 DEF Owned, Without
  <2>4. w.live => \A x \in Mine(v, s) \ E :
                    \/ v.ticket[x].req = << s, v.conn[s].generation, w.turn >>
                    \/ /\ v.ticket[x].req = << s, v.conn[s].generation, StatusOnly >>
                       /\ v.ticket[x].closeWhenWritten
    BY <1>2, <2>1, <2>2 DEF Owned
  <2> QED
    BY <1>3, <2>3, <2>4 DEF Owned
<1>5. u.conn[s].inUse => Served(v, s, w, E)
  <2> SUFFICES ASSUME u.conn[s].inUse PROVE Served(v, s, w, E)
    OBVIOUS
  <2>1. t \notin Mine(u, s) /\ Served(u, s, w, D)
    BY DEF Mine, Line
  <2>2. Mine(v, s) = Mine(u, s) /\ Mine(v, s) \ E = Mine(u, s) \ D
    BY <1>2, <2>1 DEF Without
  <2>3. Start(v, s, w, E) = Start(u, s, w, D)
    BY <1>1, <2>2 DEF Start
  <2>4. Ending(v, s) = Ending(u, s)
    BY <1>1, <1>2, <2>2 DEF Ending
  <2> QED
    BY <1>1, <2>1, <2>2, <2>3, <2>4 DEF Served
<1> QED
  BY <1>1, <1>4, <1>5 DEF Line

Written(u, s) == [u EXCEPT !.conn[s].sendInFlight = FALSE]

\* A response has been written, or can not be.
LEMMA WrittenRests ==
  ASSUME NEW u \in States, NEW t \in Tickets, NEW s \in Slots, NEW w \in Worlds, NEW D,
         Line(u, s, w, D), Unsaid(u, D), u.conn[s].inUse, t \in Mine(u, s),
         NEW y, y = ReleaseSendTicket(u, t), NEW v, v = Written(y, s),
         NEW E, E = Without(D, t)
  PROVE  /\ v.conn[s].inUse /\ w.live /\ v.conn[s].batched = u.conn[s].batched
         /\ ~v.conn[s].batched
         /\ Alone(u, v, s) /\ Owned(v, s, w, E) /\ Unsaid(v, E)
         /\ t \in D /\ ~u.ticket[t].closeWhenWritten =>
              AtRest(v, s, w) /\ Ready(v.conn[s].in, s, v.conn[s].generation, w)
<1>1. u.ticket[t].slot = s /\ u.ticket[t].generation = u.conn[s].generation
  BY DEF Mine
<1>2. /\ y \in States /\ y.conn = u.conn /\ y.closes = u.closes /\ y.tokens = u.tokens
      /\ \A x \in Tickets : x # t => y.ticket[x] = u.ticket[x]
      /\ y.ticket[t].slot = NoSlot
      /\ Alone(u, y, s)
      /\ \A A : Unsaid(u, A) => Unsaid(y, Without(A, t))
  BY <1>1, ReleaseAlone DEF For
<1>3. /\ v.conn = [y.conn EXCEPT ![s].sendInFlight = FALSE] /\ v.ticket = y.ticket
      /\ v.batch = y.batch /\ v.tokens = y.tokens /\ v.closes = y.closes /\ v.recvs = y.recvs
  BY <1>2 DEF States, Written
<1>4. /\ v.conn[s] = [y.conn[s] EXCEPT !.sendInFlight = FALSE]
      /\ \A r \in Slots : r # s => v.conn[r] = y.conn[r]
  BY <1>2, <1>3, StatesAre
<1>5. u.conn[s] \in Connections
  BY ConnIs
<1>6. PICK c : c = u.conn[s]
  OBVIOUS
<1>7. PICK d : d = v.conn[s]
  OBVIOUS
<1>8. /\ d.inUse = c.inUse /\ d.generation = c.generation /\ d.in = c.in
      /\ ~d.sendInFlight /\ d.batched = c.batched
      /\ d.deferred = c.deferred /\ d.deferredKeepAlive = c.deferredKeepAlive
  BY <1>2, <1>4, <1>5, <1>6, <1>7 DEF Connections
<1>9. \A r \in Slots : v.conn[r].generation = y.conn[r].generation
  BY <1>2, <1>4, <1>6, <1>7, <1>8
<1>10. Alone(u, v, s)
  <2>1. Elsewhere(y, v, s)
    BY <1>3, <1>4, ElsewhereIs
  <2>2. Tagged(y) => Tagged(v)
    <3>1. v.recvs = y.recvs
      BY <1>3
    <3> QED
      BY <1>9, <3>1, TaggedStays
  <2>3. Alone(y, v, s)
    BY <1>3, <1>9, <2>1, <2>2 DEF Alone
  <2> QED
    BY <1>2, <2>3, AloneTwice
<1>11. Unsaid(v, E)
  <2>1. Unsaid(y, E) /\ v.ticket = y.ticket
    BY <1>2, <1>3
  <2> QED
    BY <2>1 DEF Unsaid
<1>12. Owned(u, s, w, D) /\ Served(u, s, w, D) /\ w.live /\ s \notin u.closes
  BY DEF Line
<1>13. \A x \in Mine(u, s) : x = t
  BY <1>12 DEF Owned, Past
<1>14. Mine(v, s) = {}
  <2>1. ASSUME NEW x \in Tickets, v.ticket[x].slot = s,
               v.ticket[x].generation = v.conn[s].generation
        PROVE  FALSE
    <3>1. v.ticket[x] = y.ticket[x] /\ v.conn[s].generation = c.generation
      BY <1>3, <1>7, <1>8
    <3>2. x # t
      BY <1>2, <2>1, <3>1, SlotsAre
    <3>3. u.ticket[x].slot = s /\ u.ticket[x].generation = u.conn[s].generation
      BY <1>2, <1>6, <2>1, <3>1, <3>2
    <3> QED
      BY <1>13, <3>2, <3>3 DEF Mine
  <2> QED
    BY <2>1 DEF Mine
<1>15. Past(v, s)
  <2>1. Past(u, s) /\ s # NoSlot
    BY <1>12, SlotsAre DEF Owned
  <2>2. v.ticket = y.ticket /\ v.tokens = u.tokens
        /\ v.conn[s].generation = u.conn[s].generation
    BY <1>2, <1>3, <1>6, <1>7, <1>8
  <2>3. ASSUME NEW x \in Tickets, v.ticket[x].slot = s
        PROVE  v.ticket[x].generation <= v.conn[s].generation
    <3>1. x # t
      BY <1>2, <2>1, <2>2, <2>3
    <3> QED
      BY <1>2, <2>1, <2>2, <2>3, <3>1 DEF Past
  <2> QED
    BY <1>14, <2>1, <2>2, <2>3 DEF Past
<1>16. Owned(v, s, w, E)
  BY <1>14, <1>15 DEF Owned
<1>17. c.sendInFlight /\ ~c.deferred /\ ~c.batched /\ c.generation >= 1
  BY <1>6, <1>12 DEF Served, InStep
<1>18. ASSUME t \in D, ~u.ticket[t].closeWhenWritten
       PROVE  AtRest(v, s, w) /\ Ready(v.conn[s].in, s, v.conn[s].generation, w)
  <2>1. ~Ending(u, s)
    BY <1>6, <1>13, <1>17, <1>18 DEF Ending
  <2>2. Start(u, s, w, D) = w.turn
    BY <1>6, <1>13, <1>17, <1>18 DEF Start
  <2>3. ~w.over
    BY <1>12, <2>1 DEF Served
  <2>4. \A k \in v.tokens : k.slot = s => k.generation # d.generation
    <3>1. \A k \in u.tokens : k.slot = s => k.generation # c.generation
      BY <1>6, <1>12, <1>17 DEF Served
    <3> QED
      BY <1>2, <1>3, <1>8, <3>1
  <2>5. AtRest(v, s, w)
    <3>1. d.inUse /\ ~d.sendInFlight /\ ~d.deferred /\ ~d.batched /\ d.generation >= 1
          /\ s \notin v.closes
      BY <1>2, <1>3, <1>6, <1>8, <1>12, <1>17
    <3> QED
      BY <1>7, <1>12, <1>14, <1>15, <2>3, <2>4, <3>1 DEF AtRest
  <2>6. Ready(c.in, s, c.generation, w)
    BY <1>6, <1>12, <2>1, <2>2 DEF Served, InStep, Ready
  <2> QED
    BY <1>7, <1>8, <2>5, <2>6
<1> QED
  BY <1>6, <1>7, <1>8, <1>10, <1>11, <1>12, <1>16, <1>17, <1>18

\* The connection a response was for goes on with the request behind it.
LEMMA AfterLined ==
  ASSUME NEW u, NEW P, NEW b, Fine(u, {}, P, {}, b), NEW W \in [Slots -> Worlds], NEW D,
         Lined(u, W, D, u.batch, 1), NEW t \in P, NEW s \in Slots, u.conn[s].inUse,
         t \in Mine(u, s), t \in D, NEW handler,
         NEW v, v = AfterResponse(ReleaseSendTicket(u, t), s, u.ticket[t].closeWhenWritten,
                                  handler)
  PROVE  Lined(v, W, D \ {t}, v.batch, 1) /\ Kept(u, v)
<1>1. u \in States /\ t \in Tickets /\ u.ticket[t].slot = s
  BY FineIs DEF Mine
<1>2. PICK Q : Q = P \ {t}
  OBVIOUS
<1>3. PICK E : E = Without(D, t)
  OBVIOUS
<1>4. For(u, t, s) /\ E = D \ {t}
  BY <1>1, <1>3 DEF For, Without
<1>5. PICK G : G = {}
  OBVIOUS
<1>6. PICK last \in BOOLEAN : last = u.ticket[t].closeWhenWritten
  BY <1>1, StatesAre DEF TicketStates
<1>7. PICK y : y = ReleaseSendTicket(u, t)
  OBVIOUS
<1>8. Fine(y, {}, Q, {}, b)
  <2>1. t \in {} \cup P
    OBVIOUS
  <2>2. Fine(y, {} \ {t}, P \ {t}, {}, b)
    BY <1>7, <2>1, ReleaseDoes
  <2>3. {} \ {t} = {}
    OBVIOUS
  <2> QED
    BY <1>2, <2>2, <2>3
<1>9. PICK x : x = Written(y, s)
  OBVIOUS
<1>10. PICK F : F = {s}
  OBVIOUS
<1>11. x \in States /\ Fine(x, {}, Q, F, b)
  <2>1. x = [y EXCEPT !.conn[s].sendInFlight = FALSE]
    BY <1>9 DEF Written
  <2>2. Fine(y, {}, Q, G, b)
    BY <1>8, <1>5
  <2>3. x \in States /\ Fine(x, {}, Q, G \cup {s}, b)
    BY <2>1, <2>2, SentDoes
  <2> QED
    BY <1>10, <1>5, <2>3, FineMore
<1>12. PICK w \in Worlds : w = W[s]
  OBVIOUS
<1>13. Line(u, s, w, D) /\ Unsaid(u, D)
  BY <1>12 DEF Lined
<1>14. /\ x.conn[s].inUse /\ w.live /\ x.conn[s].batched = u.conn[s].batched
       /\ ~x.conn[s].batched
       /\ Alone(u, x, s) /\ Owned(x, s, w, E) /\ Unsaid(x, E)
       /\ t \in D /\ ~u.ticket[t].closeWhenWritten =>
            AtRest(x, s, w) /\ Ready(x.conn[s].in, s, x.conn[s].generation, w)
  BY <1>1, <1>7, <1>9, <1>13, <1>3, WrittenRests
<1>15. CASE last
  <2>1. v = CloseConnection(x, s)
    <3>1. v = AfterResponse(y, s, last, handler) /\ x = [y EXCEPT !.conn[s].sendInFlight = FALSE]
      BY <1>6, <1>7, <1>9 DEF Written
    <3> QED
      BY <1>15, <3>1, ZenonT(30) DEF AfterResponse
  <2>2. /\ Line(v, s, w, E) /\ Alone(x, v, s)
        /\ \A A : Unsaid(x, A) => Unsaid(v, A)
        /\ v.conn[s].batched = x.conn[s].batched
    BY <1>11, <1>14, <2>1, CloseLine
  <2>3. Alone(u, v, s) /\ Unsaid(v, E) /\ v.conn[s].batched = u.conn[s].batched
    BY <1>14, <2>2, AloneTwice
  <2>4. Lined(v, W, E, v.batch, 1) /\ Kept(u, v)
    BY <1>12, <1>3, <1>4, <2>2, <2>3, TicketStep
  <2> QED
    BY <1>4, <2>4, SMTT(30)
<1>16. CASE ~last
  <2>1. Line(x, s, w, E)
    BY <1>6, <1>11, <1>14, <1>16, RestsInLine
  <2>2. Lined(x, W, E, x.batch, 1) /\ Kept(u, x)
    BY <1>12, <1>14, <1>3, <1>4, <2>1, TicketStep
  <2>3. ~x.conn[s].sendInFlight
    BY <1>6, <1>14, <1>16 DEF AtRest
  <2>4. PICK z : z = IF x.conn[s].in # << >> THEN GoesOn(x, s, handler) ELSE x
    OBVIOUS
  <2>5. Lined(z, W, E, z.batch, 1) /\ Kept(x, z) /\ z \in States
    <3>1. CASE x.conn[s].in # << >>
      <4>1. z = GoesOn(x, s, handler)
        BY <2>4, <3>1
      <4>2. Lined(z, W, E, z.batch, 1) /\ Kept(x, z)
        BY <1>11, <1>14, <2>2, <2>3, <4>1, GoesOnLined
      <4>3. PICK in \in Bytes : in = x.conn[s].in
        BY <1>11, ConnIs DEF Connections
      <4>4. z = ServeNextRequest(x, s, in, handler)
        BY <4>1, <4>3 DEF GoesOn
      <4>5. z \in States
        BY <1>11, <4>4, ServeNextRequestDoes, FineIs, ZenonT(30)
      <4> QED
        BY <4>2, <4>5
    <3>2. CASE x.conn[s].in = << >>
      BY <1>11, <2>2, <2>4, <3>2, KeptSelf
    <3> QED
      BY <3>1, <3>2
  <2>6. v = z \/ v = ArmRecv(z, s)
    <3>1. v = AfterResponse(y, s, last, handler) /\ x = [y EXCEPT !.conn[s].sendInFlight = FALSE]
      BY <1>6, <1>7, <1>9 DEF Written
    <3>2. z = IF x.conn[s].in # << >> THEN ServeNextRequest(x, s, x.conn[s].in, handler) ELSE x
      BY <2>4 DEF GoesOn
    <3> QED
      BY <1>16, <3>1, <3>2, ZenonT(30) DEF AfterResponse
  <2>7. Everywhere(z, v)
    BY <2>5, <2>6, EverywhereSelf, ArmRecvEverywhere
  <2>8. Lined(v, W, E, v.batch, 1) /\ Kept(z, v)
    BY <2>5, <2>7, LinedOn
  <2> QED
    BY <1>4, <2>2, <2>5, <2>8, KeptTwice
<1> QED
  BY <1>15, <1>16

\* A ticket comes back: what is behind its response is served, and then the next
\* connection that waits for a ticket.
LEMMA SendLined ==
  ASSUME NEW u, NEW P, NEW b, Fine(u, {}, P, {}, b), NEW W \in [Slots -> Worlds], NEW D,
         Lined(u, W, D, u.batch, 1), NEW e \in Sent, e.ticket \in P,
         e.ticket \in D <=> e.res = "all", NEW handler,
         NEW v, v = HandleSendCompletion(u, e, handler)
  PROVE  Lined(v, W, D \ {e.ticket}, v.batch, 1) /\ Kept(u, v)
<1>1. PICK t \in P : t = e.ticket
  OBVIOUS
<1>2. u \in States /\ t \in Tickets
  BY FineIs DEF Fine, Accounted
<1>3. PICK k \in TicketStates : k = u.ticket[t]
  BY <1>2, StatesAre
<1>4. PICK s \in Slots : s = k.slot
  BY <1>3 DEF Fine, Accounted
<1>5. PICK last \in BOOLEAN : last = k.closeWhenWritten
  BY DEF TicketStates
<1>6. PICK theirs : theirs = (u.conn[s].inUse /\ u.conn[s].generation = k.generation)
  OBVIOUS
<1>7. PICK E : E = Without(D, t)
  OBVIOUS
<1>8. E = D \ {e.ticket} /\ For(u, t, s)
  BY <1>1, <1>3, <1>4, <1>7 DEF Without, For
<1>9. PICK y : y = ReleaseSendTicket(u, t)
  OBVIOUS
<1>10. PICK Q, G : Q = P \ {t} /\ G = {}
  OBVIOUS
<1>11. Fine(y, {}, Q, G, b) /\ y \in States
  <2>1. t \in {} \cup P
    OBVIOUS
  <2>2. Fine(y, {} \ {t}, P \ {t}, {}, b)
    BY <1>9, <2>1, ReleaseDoes
  <2>3. {} \ {t} = {}
    OBVIOUS
  <2> QED
    BY <1>10, <2>2, <2>3, FineIs
<1>12. PICK w \in Worlds : w = W[s]
  OBVIOUS
<1>13. Line(u, s, w, D) /\ Unsaid(u, D)
  BY <1>12 DEF Lined
<1>14. ~theirs => Lined(y, W, E, y.batch, 1) /\ Kept(u, y)
  <2> SUFFICES ASSUME ~theirs PROVE Lined(y, W, E, y.batch, 1) /\ Kept(u, y)
    OBVIOUS
  <2>1. ~u.conn[s].inUse \/ u.conn[s].generation # u.ticket[t].generation
    BY <1>3, <1>6
  <2>2. Line(y, s, w, E)
    BY <1>2, <1>7, <1>8, <1>9, <1>13, <2>1, GoneLine
  <2>3. y.conn = u.conn /\ Alone(u, y, s) /\ \A A : Unsaid(u, A) => Unsaid(y, Without(A, t))
    BY <1>2, <1>8, <1>9, ReleaseAlone
  <2>4. Unsaid(y, E) /\ Line(y, s, W[s], E)
        /\ y.conn[s].batched = u.conn[s].batched
    BY <1>7, <1>12, <1>13, <2>2, <2>3
  <2> QED
    BY <1>7, <1>8, <2>3, <2>4, TicketStep
<1>15. theirs => u.conn[s].inUse /\ t \in Mine(u, s)
  BY <1>2, <1>3, <1>4, <1>6, ZenonT(30) DEF Mine
<1>16. CASE e.res = "error"
  <2>1. PICK x : x = Written(y, s)
    OBVIOUS
  <2>2. v = IF theirs THEN CloseConnection(x, s) ELSE y
    BY <1>1, <1>3, <1>4, <1>6, <1>9, <1>16, <2>1, ZenonT(30) DEF HandleSendCompletion, Written
  <2>3. CASE theirs
    <3>1. /\ x.conn[s].inUse /\ w.live /\ x.conn[s].batched = u.conn[s].batched
          /\ ~x.conn[s].batched
          /\ Alone(u, x, s) /\ Owned(x, s, w, E) /\ Unsaid(x, E)
          /\ t \in D /\ ~u.ticket[t].closeWhenWritten =>
               AtRest(x, s, w) /\ Ready(x.conn[s].in, s, x.conn[s].generation, w)
      BY <1>2, <1>7, <1>9, <1>13, <1>15, <2>1, <2>3, WrittenRests
    <3>2. x \in States
      <4>1. x = [y EXCEPT !.conn[s].sendInFlight = FALSE]
        BY <2>1 DEF Written
      <4>2. Fine(y, {}, Q, G, b)
        BY <1>11
      <4>3. x \in States /\ Fine(x, {}, Q, G \cup {s}, b)
        BY <4>1, <4>2, SentDoes
      <4> QED
        BY <4>3
    <3>3. v = CloseConnection(x, s)
      BY <2>2, <2>3
    <3>4. /\ Line(v, s, w, E) /\ Alone(x, v, s)
          /\ \A A : Unsaid(x, A) => Unsaid(v, A)
          /\ v.conn[s].batched = x.conn[s].batched
      BY <3>1, <3>2, <3>3, CloseLine
    <3>5. Alone(u, v, s) /\ Unsaid(v, E) /\ v.conn[s].batched = u.conn[s].batched
          /\ Line(v, s, W[s], E)
      BY <1>12, <3>1, <3>4, AloneTwice
    <3>6. Lined(v, W, E, v.batch, 1) /\ Kept(u, v)
      BY <1>7, <1>8, <3>5, TicketStep
    <3> QED
      BY <1>8, <3>6
  <2>4. CASE ~theirs
    BY <1>8, <1>14, <2>2, <2>4
  <2> QED
    BY <2>3, <2>4
<1>17. CASE e.res = "part"
  <2>1. PICK x : x = [u EXCEPT !.sends = @ \cup {t}]
    OBVIOUS
  <2>2. v = IF theirs THEN x ELSE y
    BY <1>1, <1>3, <1>4, <1>6, <1>9, <1>17, <2>1, ZenonT(30) DEF HandleSendCompletion
  <2>3. CASE theirs
    <3>1. x.conn = u.conn /\ x.ticket = u.ticket /\ x.tokens = u.tokens
          /\ x.closes = u.closes /\ x.batch = u.batch /\ x.recvs = u.recvs
      BY <1>2, <2>1 DEF States
    <3>2. Still(u, x)
      BY <3>1 DEF Still, SameWork
    <3>3. Lined(x, W, D, x.batch, 1) /\ Kept(u, x)
      BY <3>2, StillEverywhere, LinedOn
    <3>4. D \ {e.ticket} = D
      BY <1>17
    <3> QED
      BY <2>2, <2>3, <3>3, <3>4
  <2>4. CASE ~theirs
    BY <1>8, <1>14, <2>2, <2>4
  <2> QED
    BY <2>3, <2>4
<1>18. CASE e.res = "all"
  <2>1. PICK z : z = IF theirs THEN AfterResponse(y, s, last, handler) ELSE y
    OBVIOUS
  <2>2. Fine(z, {}, Q, G, b)
    BY <1>11, <2>1, AfterResponseDoes
  <2>3. Lined(z, W, E, z.batch, 1) /\ Kept(u, z)
    <3>1. CASE theirs
      <4>1. z = AfterResponse(ReleaseSendTicket(u, t), s, u.ticket[t].closeWhenWritten,
                              handler)
        BY <1>3, <1>5, <1>9, <2>1, <3>1
      <4>2. t \in D
        BY <1>1, <1>18
      <4>3. Lined(z, W, D \ {t}, z.batch, 1) /\ Kept(u, z)
        BY <1>15, <3>1, <4>1, <4>2, AfterLined
      <4> QED
        BY <1>1, <1>8, <4>3
    <3>2. CASE ~theirs
      BY <1>14, <2>1, <3>2
    <3> QED
      BY <3>1, <3>2
  <2>4. PICK x, r : x = TakeNextWaiting(z).u /\ r = TakeNextWaiting(z).slot
    OBVIOUS
  <2>5. /\ r \in Links
        /\ r = NoSlot => Fine(x, {}, Q, G, b)
        /\ r # NoSlot => Fine(x, {}, Q, G \cup {r}, b)
    BY <2>2, <2>4, TakeNextDoes
  <2>6. Everywhere(z, x)
    BY <2>2, <2>4, TakeNextStill, StillEverywhere
  <2>7. Lined(x, W, E, x.batch, 1) /\ Kept(z, x)
    BY <2>3, <2>6, LinedOn, SMTT(30)
  <2>8. v = IF r = NoSlot \/ x.conn[r].sendInFlight \/ x.conn[r].in = << >> THEN x
            ELSE ServeNextRequest(x, r, x.conn[r].in, handler)
    BY <1>1, <1>3, <1>4, <1>5, <1>6, <1>9, <1>18, <2>1, <2>4, ZenonT(30) DEF HandleSendCompletion
  <2>9. CASE r = NoSlot \/ x.conn[r].sendInFlight \/ x.conn[r].in = << >>
    BY <1>8, <2>3, <2>7, <2>8, <2>9, KeptTwice
  <2>10. CASE ~(r = NoSlot \/ x.conn[r].sendInFlight \/ x.conn[r].in = << >>)
    <3>1. r \in Slots /\ Fine(x, {}, Q, G \cup {r}, b)
      BY <2>5, <2>10 DEF Links
    <3>2. Line(x, r, W[r], E)
      BY <2>7, <3>1 DEF Lined
    <3>3. x.conn[r].inUse /\ ~x.conn[r].sendInFlight
      BY <2>10, <3>2 DEF Line
    <3>4. v = GoesOn(x, r, handler)
      BY <2>8, <2>10 DEF GoesOn
    <3>5. PICK F : F = G \cup {r}
      OBVIOUS
    <3>6. Fine(x, {}, Q, F, b)
      BY <3>1, <3>5
    <3>7. Lined(v, W, E, v.batch, 1) /\ Kept(x, v)
      BY <2>7, <3>1, <3>3, <3>4, <3>6, GoesOnLined
    <3> QED
      BY <1>8, <2>3, <2>7, <3>7, KeptTwice
  <2> QED
    BY <2>9, <2>10
<1> QED
  BY <1>16, <1>17, <1>18 DEF Sent

\* A token is gone, and with it nothing but what the application owes.
LEMMA FewerTokens ==
  ASSUME NEW u, NEW v, NEW W, NEW D, Lined(u, W, D, u.batch, 1),
         v.conn = u.conn, v.ticket = u.ticket, v.closes = u.closes, v.batch = u.batch,
         v.recvs = u.recvs, v.tokens \subseteq u.tokens
  PROVE  Lined(v, W, D, v.batch, 1) /\ Kept(u, v)
<1>1. ASSUME NEW s \in Slots, Line(u, s, W[s], D) PROVE Line(v, s, W[s], D)
  <2>1. Mine(v, s) = Mine(u, s)
    BY DEF Mine
  <2>2. Ending(v, s) = Ending(u, s) /\ Start(v, s, W[s], D) = Start(u, s, W[s], D)
    BY <2>1 DEF Ending, Start
  <2>3. Past(u, s) => Past(v, s)
    BY <2>1 DEF Past
  <2>4. Owned(v, s, W[s], D)
    BY <1>1, <2>1, <2>3 DEF Line, Owned
  <2>5. Served(u, s, W[s], D) => Served(v, s, W[s], D)
    BY <2>1, <2>2 DEF Served
  <2> QED
    BY <1>1, <2>4, <2>5 DEF Line
<1>2. \A s \in Slots : InBatch(u, u.batch, 1, s) => InBatch(v, v.batch, 1, s)
  BY DEF InBatch
<1>3. Unsaid(v, D)
  BY DEF Lined, Unsaid
<1>4. Lined(v, W, D, v.batch, 1)
  BY <1>1, <1>2, <1>3 DEF Lined
<1>5. Kept(u, v)
  BY DEF Tagged, Kept
<1> QED
  BY <1>4, <1>5

\* The answer that a connection waits for is on its way.
OwedTo(k, s) == k.slot = s
Told(u, s, k) == [u EXCEPT !.tokens = @ \ {k}, !.conn[s].deferred = FALSE]

\* It is the answer to the connection's request.
Answers(k, c, s, w) ==
  /\ c.generation < TagWidth
  /\ k.req = << s, c.generation, w.turn >>
  /\ Len(c.in) + Len(w.rest) <= API_MAX_REQUEST_SIZE
  /\ c.deferredKeepAlive => InLine(c.in \o w.rest, s, c.generation, w.turn + 1)

LEMMA ToldRests ==
  ASSUME NEW u \in States, NEW k \in u.tokens, NEW s \in Slots, OwedTo(k, s), Owed(u, k),
         NEW w \in Worlds, NEW D, Line(u, s, w, D), Unsaid(u, D), NEW v, v = Told(u, s, k)
  PROVE  /\ v \in States /\ AtRest(v, s, w) /\ Alone(u, v, s) /\ Unsaid(v, D)
         /\ v.ticket = u.ticket /\ ~u.conn[s].batched
         /\ v.conn[s].in = u.conn[s].in /\ v.conn[s].generation = u.conn[s].generation
         /\ Answers(k, u.conn[s], s, w)
<1>1. PICK c : c = u.conn[s]
  OBVIOUS
<1>2. c \in Connections
  BY <1>1, ConnIs
<1>3. PICK d : d = [c EXCEPT !.deferred = FALSE]
  OBVIOUS
<1>4. /\ d.inUse = c.inUse /\ d.generation = c.generation /\ d.in = c.in
      /\ d.sendInFlight = c.sendInFlight /\ d.batched = c.batched
      /\ ~d.deferred /\ d \in Connections
  BY <1>2, <1>3 DEF Connections
<1>5. u.tokens \subseteq Tokens
  BY StatesAre
<1>6. /\ v.conn = [u.conn EXCEPT ![s] = d] /\ v.ticket = u.ticket /\ v.batch = u.batch
      /\ v.tokens = u.tokens \ {k} /\ v.closes = u.closes /\ v.recvs = u.recvs
      /\ v \in States
  <2>1. u.tokens \ {k} \in SUBSET Tokens
    BY <1>5
  <2>2. v = [u EXCEPT !.tokens = u.tokens \ {k}, !.conn = [u.conn EXCEPT ![s] = d]]
    BY <1>1, <1>3, StatesAre DEF Told, States
  <2>3. [u.conn EXCEPT ![s] = d] \in [Slots -> Connections]
    BY <1>4, StatesAre
  <2> QED
    BY <2>1, <2>2, <2>3 DEF States
<1>7. v.conn[s] = d /\ \A r \in Slots : r # s => v.conn[r] = u.conn[r]
  BY <1>6, StatesAre
<1>8. /\ w.live /\ s \notin u.closes /\ Past(u, s) /\ Served(u, s, w, D) /\ c.inUse
      /\ c.deferred /\ Tag(c.generation) = k.generation
  BY <1>1 DEF Owed, Line, Owned, OwedTo
<1>9. /\ InStep(c) /\ c.generation < TagWidth /\ ~c.sendInFlight /\ ~c.batched
      /\ c.generation >= 1 /\ Mine(u, s) = {} /\ ~w.over
  BY <1>1, <1>8 DEF Served, InStep
<1>10. k.generation = c.generation
  BY <1>2, <1>8, <1>9, TagOf DEF Connections
<1>11. \A x \in u.tokens : x.slot = s /\ x.generation = c.generation =>
         x.req = << s, c.generation, w.turn >>
  BY <1>1, <1>8 DEF Served
<1>12. \A x \in v.tokens : x.slot = s => x.generation # d.generation
  <2>1. ASSUME NEW x \in u.tokens, x.slot = s, x.generation = c.generation PROVE x = k
    <3>1. x.req = k.req /\ x.slot = k.slot /\ x.generation = k.generation
      BY <1>10, <1>11, <2>1 DEF OwedTo
    <3>2. x \in Tokens /\ k \in Tokens
      BY <1>5
    <3> QED
      BY <3>1, <3>2 DEF Tokens
  <2> QED
    BY <1>4, <1>6, <2>1
<1>13. Mine(v, s) = {} /\ Past(v, s)
  <2>1. v.ticket = u.ticket /\ v.tokens \subseteq u.tokens
        /\ v.conn[s].generation = u.conn[s].generation
    BY <1>1, <1>4, <1>6, <1>7
  <2> QED
    BY <1>8, <1>9, <2>1 DEF Mine, Past
<1>14. AtRest(v, s, w)
  <2>1. d.inUse /\ ~d.sendInFlight /\ ~d.deferred /\ ~d.batched /\ d.generation >= 1
        /\ s \notin v.closes
    BY <1>4, <1>6, <1>8, <1>9
  <2> QED
    BY <1>7, <1>8, <1>9, <1>12, <1>13, <2>1 DEF AtRest
<1>15. Elsewhere(u, v, s)
  BY <1>6, <1>7, ElsewhereIs DEF OwedTo
<1>16. Tagged(u) => Tagged(v)
  <2>1. v.recvs = u.recvs /\ \A r \in Slots : v.conn[r].generation = u.conn[r].generation
    BY <1>1, <1>4, <1>6, <1>7
  <2> QED
    BY <2>1, TaggedStays
<1>17. Alone(u, v, s)
  BY <1>1, <1>4, <1>6, <1>7, <1>15, <1>16 DEF Alone
<1>18. Unsaid(v, D)
  BY <1>6 DEF Unsaid
<1>19. Len(c.in) + Len(w.rest) <= API_MAX_REQUEST_SIZE
  BY <1>1, <1>8 DEF Served
<1>20. c.deferredKeepAlive => InLine(c.in \o w.rest, s, c.generation, w.turn + 1)
  <2>1. c.deferredKeepAlive => ~Ending(u, s)
    BY <1>1, <1>9 DEF Ending
  <2>2. Start(u, s, w, D) = w.turn + 1
    BY <1>1, <1>8 DEF Start
  <2> QED
    BY <1>1, <1>8, <1>9, <2>1, <2>2 DEF Served
<1>21. k.req = << s, c.generation, w.turn >>
  BY <1>10, <1>11 DEF OwedTo
<1>22. v.conn[s].in = u.conn[s].in /\ v.conn[s].generation = u.conn[s].generation
  BY <1>1, <1>4, <1>7
<1>23. Answers(k, c, s, w)
  BY <1>9, <1>19, <1>20, <1>21 DEF Answers
<1> QED
  BY <1>1, <1>6, <1>9, <1>14, <1>17, <1>18, <1>22, <1>23

\* An answer that comes later is the one the connection waits for.
LEMMA DeferredLined ==
  ASSUME NEW u, NEW P, NEW b, Fine(u, {}, P, {}, b), NEW W \in [Slots -> Worlds], NEW D,
         Lined(u, W, D, u.batch, 1), NEW token \in u.tokens, NEW outcome,
         Owed(u, token) => FreeTickets(u) # {}, NEW v, v = SendDeferred(u, token, outcome)
  PROVE  Lined(v, W, D, v.batch, 1) /\ Kept(u, v)
<1>1. u \in States
  BY FineIs
<1>2. token \in Tokens
  BY <1>1, StatesAre
<1>3. PICK s \in Slots, req \in Asks : s = token.slot /\ req = token.req
  BY <1>2 DEF Tokens
<1>4. CASE ~Owed(u, token)
  <2>1. v = [u EXCEPT !.tokens = @ \ {token}]
    BY <1>4 DEF SendDeferred
  <2>2. v.conn = u.conn /\ v.ticket = u.ticket /\ v.closes = u.closes /\ v.batch = u.batch
        /\ v.recvs = u.recvs /\ v.tokens \subseteq u.tokens
    BY <1>1, <2>1 DEF States
  <2> QED
    BY <2>2, FewerTokens
<1>5. CASE Owed(u, token)
  <2>1. PICK w \in Worlds : w = W[s]
    OBVIOUS
  <2>2. Line(u, s, w, D) /\ Unsaid(u, D)
    BY <2>1 DEF Lined
  <2>3. PICK x : x = Told(u, s, token)
    OBVIOUS
  <2>4. PICK c : c = u.conn[s]
    OBVIOUS
  <2>5. OwedTo(token, s)
    BY <1>3 DEF OwedTo
  <2>6. /\ x \in States /\ AtRest(x, s, w) /\ Alone(u, x, s) /\ Unsaid(x, D)
        /\ x.ticket = u.ticket /\ ~u.conn[s].batched
        /\ x.conn[s].in = u.conn[s].in /\ x.conn[s].generation = u.conn[s].generation
        /\ Answers(token, u.conn[s], s, w)
    BY <1>1, <1>5, <2>2, <2>3, <2>5, ToldRests
  <2>7. PICK in, g : in = x.conn[s].in /\ g = x.conn[s].generation
    OBVIOUS
  <2>8. /\ g < TagWidth /\ req = << s, g, w.turn >>
        /\ Len(in) + Len(w.rest) <= API_MAX_REQUEST_SIZE
        /\ c.deferredKeepAlive => InLine(in \o w.rest, s, g, w.turn + 1)
    BY <1>3, <2>4, <2>6, <2>7 DEF Answers
  <2>9. FreeTickets(x) = FreeTickets(u)
    BY <2>6 DEF FreeTickets
  <2>10. x = [[u EXCEPT !.tokens = @ \ {token}] EXCEPT !.conn[s].deferred = FALSE]
    BY <1>1, <2>3 DEF Told, States
  <2>11. /\ Line(v, s, w, D) /\ Alone(x, v, s) /\ Unsaid(v, D) /\ ~v.conn[s].batched
    <3>1. CASE outcome = "fail"
      <4>1. v = SendStatusAndClose(x, s)
        BY <1>3, <1>5, <2>10, <3>1 DEF SendDeferred
      <4> QED
        BY <2>6, <2>7, <2>8, <4>1, StatusLine
    <3>2. CASE outcome # "fail"
      <4>1. PICK t : t = CHOOSE y \in FreeTickets(u) : TRUE
        OBVIOUS
      <4>2. t \in FreeTickets(u)
        BY <1>5, <4>1
      <4>3. t \in Tickets /\ x.ticket[t].slot = NoSlot
        BY <2>6, <2>9, <4>2 DEF FreeTickets, Unsaid
      <4>4. PICK last \in BOOLEAN : last = ~c.deferredKeepAlive
        OBVIOUS
      <4>5. v = Respond(x, s, t, req, last)
        BY <1>3, <1>5, <2>4, <2>10, <3>2, <4>1, <4>4 DEF SendDeferred
      <4>6. ~last /\ g < TagWidth => InLine(in \o w.rest, s, g, w.turn + 1)
        BY <2>8, <4>4
      <4> QED
        BY <2>6, <2>7, <2>8, <4>3, <4>5, <4>6, RespondLine
    <3> QED
      BY <3>1, <3>2
  <2>12. Alone(u, v, s)
    BY <2>6, <2>11, AloneTwice
  <2>13. PICK X : X = [W EXCEPT ![s] = w]
    OBVIOUS
  <2>14. Lined(v, X, D, v.batch, 1) /\ Kept(u, v)
    BY <2>6, <2>11, <2>12, <2>13, AloneLined
  <2>15. X = W
    BY <2>1, <2>13
  <2> QED
    BY <2>14, <2>15
<1> QED
  BY <1>4, <1>5

-----------------------------------------------------------------------------
(* The clients and the completion queue *)

Announces(e, s) == e.op = "accept" /\ e.slot = s
Wrote(e) == e.op = "send" /\ e.res = "all"

LEMMA PostedIs ==
  ASSUME NEW q \in Seq(Completions), NEW e \in Completions, NEW r, r = Append(q, e), NEW s
  PROVE  /\ Coming(r, s) <=> Coming(q, s) \/ Announces(e, s)
         /\ Once(q, s) /\ ~(Coming(q, s) /\ Announces(e, s)) => Once(r, s)
         /\ \A g : AllKnown(q, s, g) /\ Known(e, s, g) => AllKnown(r, s, g)
         /\ Done(r) = IF Wrote(e) THEN Done(q) \cup {e.ticket} ELSE Done(q)
<1>1. PICK n \in Nat : n = Len(q)
  BY LenProperties
<1>2. /\ DOMAIN q = 1 .. n /\ DOMAIN r = 1 .. n + 1 /\ n + 1 \notin 1 .. n
      /\ r[n + 1] = e /\ \A i \in 1 .. n : i \in 1 .. n + 1 /\ r[i] = q[i]
  BY <1>1, AppendProperties, LenProperties
<1>3. \A i \in 1 .. n + 1 : i \in 1 .. n \/ i = n + 1
  BY <1>1
<1>4. Coming(r, s) <=> Coming(q, s) \/ Announces(e, s)
  BY <1>2, <1>3 DEF Coming, Announces
<1>5. ASSUME Once(q, s), ~(Coming(q, s) /\ Announces(e, s)) PROVE Once(r, s)
  <2>1. ASSUME NEW i \in 1 .. n + 1, NEW j \in 1 .. n + 1, Announces(r[i], s), Announces(r[j], s)
        PROVE  i = j
    <3>1. \A k \in 1 .. n : Announces(q[k], s) => Coming(q, s)
      BY <1>2 DEF Coming, Announces
    <3>2. CASE i = n + 1 \/ j = n + 1
      <4>1. Announces(e, s) /\ ~Coming(q, s)
        BY <1>2, <1>5, <2>1, <3>2
      <4> QED
        BY <1>2, <1>3, <2>1, <3>1, <4>1
    <3>3. CASE i # n + 1 /\ j # n + 1
      <4>1. i \in 1 .. n /\ j \in 1 .. n
        BY <1>3, <3>3
      <4> QED
        BY <1>2, <1>5, <2>1, <4>1 DEF Once, Announces
    <3> QED
      BY <3>2, <3>3
  <2> QED
    BY <1>2, <2>1, Zenon DEF Once, Announces
<1>6. ASSUME NEW g, AllKnown(q, s, g), Known(e, s, g) PROVE AllKnown(r, s, g)
  <2>1. \A i \in 1 .. n + 1 : Known(r[i], s, g)
    BY <1>2, <1>3, <1>6 DEF AllKnown
  <2> QED
    BY <1>2, <2>1 DEF AllKnown
<1>7. Wrote(e) => Done(r) = Done(q) \cup {e.ticket}
  BY <1>2, <1>3 DEF Done, Wrote
<1>8. ~Wrote(e) => Done(r) = Done(q)
  BY <1>2, <1>3 DEF Done, Wrote
<1> QED
  BY <1>4, <1>5, <1>6, <1>7, <1>8

LEMMA ReadIs ==
  ASSUME NEW q \in Seq(Completions), q # << >>, NEW e, e = Head(q), NEW r, r = Tail(q), NEW s
  PROVE  /\ Coming(q, s) <=> Coming(r, s) \/ Announces(e, s)
         /\ Once(q, s) => Once(r, s) /\ ~(Coming(r, s) /\ Announces(e, s))
         /\ \A g : AllKnown(q, s, g) => AllKnown(r, s, g) /\ Known(e, s, g)
         /\ OncePerTicket(q) =>
              /\ Done(r) = IF e.op = "send" THEN Done(q) \ {e.ticket} ELSE Done(q)
              /\ e.op = "send" => (e.ticket \in Done(q) <=> e.res = "all")
<1>1. PICK n \in Nat : n + 1 = Len(q)
  <2>1. Len(q) \in Nat \ {0}
    BY EmptySeq, LenProperties
  <2>2. Len(q) - 1 \in Nat /\ (Len(q) - 1) + 1 = Len(q)
    BY <2>1
  <2> QED
    BY <2>2
<1>2. DOMAIN q = 1 .. n + 1 /\ DOMAIN r = 1 .. n /\ e = q[1]
  BY <1>1, HeadTailProperties, LenProperties
<1>3. \A i \in 1 .. n : r[i] = q[i + 1]
  BY <1>1, HeadTailProperties, LenProperties
<1>4. /\ \A i \in 1 .. n : i + 1 \in 1 .. n + 1 /\ i + 1 # 1
      /\ 1 \in 1 .. n + 1
  BY <1>1
<1>5. \A i \in 1 .. n + 1 : i = 1 \/ \E j \in 1 .. n : q[i] = r[j] /\ i = j + 1
  <2>1. ASSUME NEW i \in 1 .. n + 1, i # 1 PROVE \E j \in 1 .. n : q[i] = r[j] /\ i = j + 1
    <3>1. i - 1 \in 1 .. n /\ (i - 1) + 1 = i
      BY <2>1
    <3> QED
      BY <1>3, <3>1
  <2> QED
    BY <2>1
<1>6. Coming(q, s) <=> Coming(r, s) \/ Announces(e, s)
  <2>1. ASSUME NEW i \in 1 .. n + 1, Announces(q[i], s) PROVE Coming(r, s) \/ Announces(e, s)
    <3>1. i # 1 => \E j \in 1 .. n : Announces(r[j], s)
      BY <1>5, <2>1
    <3> QED
      BY <1>2, <2>1, <3>1 DEF Coming, Announces
  <2>2. Coming(r, s) => Coming(q, s)
    BY <1>2, <1>3, <1>4 DEF Coming
  <2>3. Announces(e, s) => Coming(q, s)
    BY <1>2, <1>4 DEF Coming, Announces
  <2>4. Coming(q, s) => Coming(r, s) \/ Announces(e, s)
    BY <1>2, <2>1 DEF Coming, Announces
  <2> QED
    BY <2>2, <2>3, <2>4
<1>7. ASSUME Once(q, s) PROVE Once(r, s) /\ ~(Coming(r, s) /\ Announces(e, s))
  <2>1. ASSUME NEW i \in 1 .. n, NEW j \in 1 .. n, Announces(r[i], s), Announces(r[j], s)
        PROVE  i = j
    <3>1. i + 1 = j + 1
      BY <1>2, <1>3, <1>4, <1>7, <2>1 DEF Once, Announces
    <3> QED
      BY <3>1
  <2>2. Once(r, s)
    BY <1>2, <2>1, Zenon DEF Once, Announces
  <2>3. ASSUME NEW i \in 1 .. n, Announces(r[i], s), Announces(e, s) PROVE FALSE
    BY <1>2, <1>3, <1>4, <1>7, <2>3 DEF Once, Announces
  <2> QED
    BY <1>2, <2>2, <2>3 DEF Coming, Announces
<1>8. ASSUME NEW g, AllKnown(q, s, g) PROVE AllKnown(r, s, g) /\ Known(e, s, g)
  <2>1. \A i \in 1 .. n + 1 : Known(q[i], s, g)
    BY <1>2, <1>8 DEF AllKnown
  <2>2. \A i \in 1 .. n : Known(r[i], s, g)
    BY <1>3, <1>4, <2>1
  <2> QED
    BY <1>2, <1>4, <2>1, <2>2 DEF AllKnown
<1>9. ASSUME NEW t PROVE t \in Done(q) <=> t \in Done(r) \/ (Wrote(e) /\ t = e.ticket)
  <2>1. t \in Done(q) => t \in Done(r) \/ (Wrote(e) /\ t = e.ticket)
    <3> SUFFICES ASSUME NEW i \in DOMAIN q, q[i].op = "send", q[i].res = "all", t = q[i].ticket
                 PROVE  t \in Done(r) \/ (Wrote(e) /\ t = e.ticket)
      BY DEF Done
    <3>1. CASE i = 1
      BY <1>2, <3>1 DEF Wrote
    <3>2. CASE i # 1
      <4>1. PICK j \in 1 .. n : q[i] = r[j]
        BY <1>2, <1>5, <3>2
      <4> QED
        BY <1>2, <4>1 DEF Done
    <3> QED
      BY <3>1, <3>2
  <2>2. t \in Done(r) => t \in Done(q)
    <3> SUFFICES ASSUME NEW i \in DOMAIN r, r[i].op = "send", r[i].res = "all", t = r[i].ticket
                 PROVE  t \in Done(q)
      BY DEF Done
    <3> QED
      BY <1>2, <1>3, <1>4 DEF Done
  <2>3. Wrote(e) => e.ticket \in Done(q)
    BY <1>2, <1>4 DEF Done, Wrote
  <2> QED
    BY <2>1, <2>2, <2>3
<1>10. ASSUME OncePerTicket(q), e.op = "send" PROVE e.ticket \notin Done(r)
  <2> SUFFICES ASSUME NEW i \in DOMAIN r, r[i].op = "send", e.ticket = r[i].ticket
               PROVE  FALSE
    BY DEF Done
  <2> QED
    BY <1>2, <1>3, <1>4, <1>10 DEF OncePerTicket
<1>11. ASSUME OncePerTicket(q)
       PROVE  /\ Done(r) = IF e.op = "send" THEN Done(q) \ {e.ticket} ELSE Done(q)
              /\ e.op = "send" => (e.ticket \in Done(q) <=> e.res = "all")
  BY <1>9, <1>10, <1>11 DEF Wrote
<1> QED
  BY <1>6, <1>7, <1>8, <1>11

\* What comes back is of a ticket whose send is completed.
LEMMA DoneReturns ==
  ASSUME NEW q
  PROVE  Done(q) \subseteq Returning(q)
  BY DEF Done, Returning

-----------------------------------------------------------------------------
(* The ring and its clients in line *)

LEMMA OutsideIs ==
  ASSUME NEW g, NEW q \in Seq(Completions), NEW x \in Bytes, NEW p, NEW a \in Seq(Asks), NEW s
  PROVE  Outside(g, q, x, p, a, s) \in Worlds
<1>1. Len(a) + 1 \in Nat
  BY LenProperties
<1>2. PICK k \in Bytes : k = Pending(q, s, g) \o x
  BY PendingIs, Concats
<1> HIDE DEF Bytes
<1> QED
  BY <1>1, <1>2 DEF Outside, Worlds

LEMMA WorldIs ==
  ASSUME NEW u, NEW q \in Seq(Completions), NEW x \in [Slots -> Bytes], NEW p,
         NEW a \in [Slots -> Seq(Asks)]
  PROVE  WorldOf(u, q, x, p, a) \in [Slots -> Worlds]
<1>1. \A s \in Slots : Outside(u.conn[s].generation, q, x[s], p[s], a[s], s) \in Worlds
  BY OutsideIs
<1> QED
  BY <1>1, Zenon DEF WorldOf

LEMMA WorldAt ==
  ASSUME NEW u, NEW q, NEW x, NEW p, NEW a, NEW s \in Slots
  PROVE  WorldOf(u, q, x, p, a)[s] =
           Outside(u.conn[s].generation, q, x[s], p[s], a[s], s)
  BY Zenon DEF WorldOf

\* One client's part of the world becomes another.
LEMMA WorldTurned ==
  ASSUME NEW W \in [Slots -> Worlds], NEW X \in [Slots -> Worlds], NEW s \in Slots,
         \A r \in Slots : r # s => X[r] = W[r], NEW w, w = X[s]
  PROVE  X = [W EXCEPT ![s] = w]
<1>1. PICK Y : Y = [W EXCEPT ![s] = w]
  OBVIOUS
<1>2. Y \in [Slots -> Worlds] /\ Y[s] = w /\ \A r \in Slots : r # s => Y[r] = W[r]
  BY <1>1
<1>3. \A r \in Slots : X[r] = Y[r]
  BY <1>2
<1>4. X = Y
  BY <1>2, <1>3
<1> QED
  BY <1>1, <1>4

LEMMA WorldStays ==
  ASSUME NEW W \in [Slots -> Worlds], NEW X \in [Slots -> Worlds],
         \A r \in Slots : X[r] = W[r]
  PROVE  X = W
  OBVIOUS

\* The generations stay, and so do the clients.
LEMMA SameWorld ==
  ASSUME NEW u, NEW v, NEW q, NEW x, NEW p, NEW a, Kept(u, v)
  PROVE  WorldOf(v, q, x, p, a) = WorldOf(u, q, x, p, a)
<1>1. \A s \in Slots : v.conn[s].generation = u.conn[s].generation
  BY DEF Kept
<1> QED
  BY <1>1, Zenon DEF WorldOf

\* The ring does something that is between it and the application.
LEMMA OrderedOn ==
  ASSUME NEW u, NEW v, NEW q, NEW x, NEW p, NEW a, Ordered(u, q, x, p, a), Kept(u, v),
         Lined(v, WorldOf(u, q, x, p, a), Done(q), v.batch, 1)
  PROVE  Ordered(v, q, x, p, a)
<1>1. WorldOf(v, q, x, p, a) = WorldOf(u, q, x, p, a)
  BY SameWorld
<1>2. ASSUME NEW s \in Slots PROVE Meets(v, q, x, p, a, s)
  <2>1. Meets(u, q, x, p, a, s) /\ v.conn[s].generation = u.conn[s].generation
    BY DEF Ordered, Kept
  <2> QED
    BY <1>1, <2>1 DEF Meets
<1>3. Tagged(v)
  BY DEF Ordered, Kept
<1> QED
  BY <1>1, <1>2, <1>3 DEF Ordered

\* The next completion is read.
Reading(q, e, r) == q \in Seq(Completions) /\ q # << >> /\ e = Head(q) /\ r = Tail(q)

LEMMA NextIs ==
  ASSUME NEW q, NEW e, NEW r, Reading(q, e, r)
  PROVE  e \in Completions /\ q \in Seq(Completions) /\ r \in Seq(Completions)
  BY Read DEF Reading

LEMMA OutsideRead ==
  ASSUME NEW q, NEW e, NEW r, Reading(q, e, r), NEW g, NEW x \in Bytes, NEW p, NEW a, NEW s,
         ~Announces(e, s), Carries(e, s, g) = << >>
  PROVE  Outside(g, r, x, p, a, s) = Outside(g, q, x, p, a, s)
<1>1. Coming(q, s) <=> Coming(r, s)
  BY ReadIs DEF Reading
<1>2. Pending(q, s, g) = Carries(e, s, g) \o Pending(r, s, g)
  BY PendingTail DEF Reading
<1>3. PICK k \in Bytes : k = Pending(r, s, g)
  BY NextIs, PendingIs
<1>4. Pending(q, s, g) = Pending(r, s, g)
  BY <1>2, <1>3, NothingJoined
<1> QED
  BY <1>1, <1>4 DEF Outside

LEMMA ArrivingRead ==
  ASSUME NEW q, NEW e, NEW r, Reading(q, e, r), NEW g, NEW x, NEW p, NEW s, Arriving(g, q, x, p, s)
  PROVE  Arriving(g, r, x, p, s) /\ Known(e, s, g) /\ ~(Coming(r, s) /\ Announces(e, s))
<1>1. /\ Coming(r, s) => Coming(q, s)
      /\ Once(q, s) => Once(r, s) /\ ~(Coming(r, s) /\ Announces(e, s))
      /\ \A h : AllKnown(q, s, h) => AllKnown(r, s, h) /\ Known(e, s, h)
  BY ReadIs DEF Reading
<1> QED
  BY <1>1 DEF Arriving

\* A completion that tells of no new client is handled.
LEMMA DrainedOn ==
  ASSUME NEW u, NEW q, NEW x \in [Slots -> Bytes], NEW p, NEW a, Ordered(u, q, x, p, a),
         NEW e, NEW r, Reading(q, e, r), e.op # "accept",
         NEW v, Kept(u, v), Lined(v, WorldOf(u, r, x, p, a), Done(r), v.batch, 1)
  PROVE  Ordered(v, r, x, p, a)
<1>1. WorldOf(v, r, x, p, a) = WorldOf(u, r, x, p, a)
  BY SameWorld
<1>2. ASSUME NEW s \in Slots PROVE Meets(v, r, x, p, a, s)
  <2>1. PICK g : g = u.conn[s].generation
    OBVIOUS
  <2>2. v.conn[s].generation = g
    BY <2>1 DEF Kept
  <2>3. Arriving(g, q, x[s], p[s], s)
        /\ Heard(g, a[s], WorldOf(u, q, x, p, a)[s], s)
    BY <2>1 DEF Ordered, Meets
  <2>4. Arriving(g, r, x[s], p[s], s)
    BY <2>3, ArrivingRead
  <2>5. WorldOf(u, r, x, p, a)[s].live = WorldOf(u, q, x, p, a)[s].live
    <3>1. Coming(q, s) <=> Coming(r, s)
      BY ReadIs DEF Reading, Announces
    <3>2. /\ WorldOf(u, r, x, p, a)[s] = Outside(g, r, x[s], p[s], a[s], s)
          /\ WorldOf(u, q, x, p, a)[s] = Outside(g, q, x[s], p[s], a[s], s)
      BY <2>1, WorldAt
    <3> QED
      BY <3>1, <3>2 DEF Outside
  <2>6. Heard(g, a[s], WorldOf(v, r, x, p, a)[s], s)
    BY <1>1, <2>3, <2>5 DEF Heard
  <2> QED
    BY <2>2, <2>4, <2>6 DEF Meets
<1>3. Tagged(v)
  BY DEF Ordered, Kept
<1> QED
  BY <1>1, <1>2, <1>3 DEF Ordered

LEMMA SendOrdered ==
  ASSUME NEW u, NEW q, NEW x \in [Slots -> Bytes], NEW p, NEW a, Ordered(u, q, x, p, a),
         NEW b, Fine(u, {}, Returning(q), {}, b), OncePerTicket(q),
         NEW e, NEW r, Reading(q, e, r), e.op = "send", NEW handler,
         NEW v, v = HandleSendCompletion(u, e, handler)
  PROVE  Ordered(v, r, x, p, a)
<1>1. q \in Seq(Completions) /\ r \in Seq(Completions) /\ e \in Sent
  BY NextIs DEF Completions, Accepts, Recvs
<1>2. PICK D : D = Done(q)
  OBVIOUS
<1>3. PICK P : P = Returning(q)
  OBVIOUS
<1>4. /\ Done(r) = D \ {e.ticket} /\ (e.ticket \in D <=> e.res = "all")
      /\ e.ticket \in P
  <2>1. e.ticket \in P
    BY <1>3, Read DEF Reading
  <2>2. Done(r) = Done(q) \ {e.ticket} /\ (e.ticket \in Done(q) <=> e.res = "all")
    BY ReadIs DEF Reading
  <2> QED
    BY <1>2, <2>1, <2>2
<1>5. PICK W \in [Slots -> Worlds] : W = WorldOf(u, q, x, p, a)
  BY <1>1, WorldIs DEF Ordered
<1>6. WorldOf(u, r, x, p, a) = W
  <2>1. WorldOf(u, r, x, p, a) \in [Slots -> Worlds]
    BY <1>1, WorldIs DEF Ordered
  <2>2. ASSUME NEW s \in Slots PROVE WorldOf(u, r, x, p, a)[s] = W[s]
    <3>1. ~Announces(e, s) /\ \A g : Carries(e, s, g) = << >>
      BY DEF Announces, Carries
    <3>2. Outside(u.conn[s].generation, r, x[s], p[s], a[s], s) =
            Outside(u.conn[s].generation, q, x[s], p[s], a[s], s)
      BY <3>1, OutsideRead
    <3> QED
      BY <1>5, <3>2, WorldAt
  <2> QED
    BY <2>1, <2>2, WorldStays
<1>7. Lined(u, W, D, u.batch, 1)
  BY <1>2, <1>5 DEF Ordered
<1>8. Lined(v, W, D \ {e.ticket}, v.batch, 1) /\ Kept(u, v)
  <2>1. Fine(u, {}, P, {}, b)
    BY <1>3
  <2> QED
    BY <1>1, <1>4, <1>7, <2>1, SendLined
<1>9. Lined(v, WorldOf(u, r, x, p, a), Done(r), v.batch, 1)
  BY <1>4, <1>6, <1>8
<1> QED
  BY <1>8, <1>9, DrainedOn

LEMMA RecvOrdered ==
  ASSUME NEW u, NEW q, NEW x \in [Slots -> Bytes], NEW p, NEW a, Ordered(u, q, x, p, a),
         NEW b, Fine(u, {}, Returning(q), {}, b), OncePerTicket(q),
         NEW e, NEW r, Reading(q, e, r), e.op = "recv", NEW handler,
         NEW v, v = HandleRecvCompletion(u, e, handler)
  PROVE  Ordered(v, r, x, p, a)
<1>1. q \in Seq(Completions) /\ r \in Seq(Completions) /\ e \in Recvs
  BY NextIs DEF Completions, Accepts, Sent
<1>2. PICK s \in Slots, data \in Bytes : s = e.slot /\ data = e.data
  BY <1>1 DEF Recvs
<1>3. Brings(e, s, data)
  BY <1>2 DEF Brings
<1>4. PICK D : D = Done(q) /\ D = Done(r)
  <2>1. Done(r) = Done(q)
    BY ReadIs DEF Reading
  <2> QED
    BY <2>1
<1>5. PICK P : P = Returning(q)
  OBVIOUS
<1>6. PICK W \in [Slots -> Worlds] : W = WorldOf(u, q, x, p, a)
  BY <1>1, WorldIs DEF Ordered
<1>7. PICK X \in [Slots -> Worlds] : X = WorldOf(u, r, x, p, a)
  BY <1>1, WorldIs DEF Ordered
<1>8. PICK g : g = u.conn[s].generation
  OBVIOUS
<1>9. PICK w \in Worlds : w = X[s]
  OBVIOUS
<1>10. Turned(W, s, w, X)
  <2>1. ASSUME NEW o \in Slots, o # s PROVE X[o] = W[o]
    <3>1. ~Announces(e, o) /\ \A h : Carries(e, o, h) = << >>
      BY <1>2, <2>1 DEF Announces, Carries
    <3>2. Outside(u.conn[o].generation, r, x[o], p[o], a[o], o) =
            Outside(u.conn[o].generation, q, x[o], p[o], a[o], o)
      BY <3>1, OutsideRead
    <3> QED
      BY <1>6, <1>7, <3>2, WorldAt
  <2>2. X = [W EXCEPT ![s] = w]
    BY <1>9, <2>1, WorldTurned
  <2> QED
    BY <2>2 DEF Turned
<1>11. Reads(W[s], w, Carries(e, s, g))
  <2>1. W[s] = Outside(g, q, x[s], p[s], a[s], s) /\ w = Outside(g, r, x[s], p[s], a[s], s)
    BY <1>6, <1>7, <1>8, <1>9, WorldAt
  <2>2. Coming(q, s) <=> Coming(r, s)
    BY ReadIs DEF Reading, Announces
  <2>3. Pending(q, s, g) = Carries(e, s, g) \o Pending(r, s, g)
    BY PendingTail DEF Reading
  <2>4. PICK c \in Bytes, k \in Bytes, z \in Bytes :
          c = Carries(e, s, g) /\ k = Pending(r, s, g) /\ z = x[s]
    BY <1>1, NextIs, CarriesIs, PendingIs
  <2>5. (c \o k) \o z = c \o (k \o z)
    BY Joined, SMTT(30)
  <2>6. W[s].rest = (c \o k) \o z /\ w.rest = k \o z
    BY <2>1, <2>3, <2>4 DEF Outside
  <2>7. SameClient(W[s], w)
    BY <2>1, <2>2 DEF Outside, SameClient
  <2> QED
    BY <2>4, <2>5, <2>6, <2>7 DEF Reads
<1>12. e.tag < TagWidth
  <2>1. Meets(u, q, x, p, a, s)
    BY DEF Ordered
  <2>2. Known(e, s, g)
    BY <1>8, <2>1, ArrivingRead DEF Meets
  <2> QED
    BY <1>2, <2>2 DEF Known
<1>13. Lined(u, W, D, u.batch, 1)
  BY <1>4, <1>6 DEF Ordered
<1>14. Lined(v, X, D, v.batch, 1) /\ Kept(u, v)
  <2>1. Fine(u, {}, P, {}, b)
    BY <1>5
  <2>2. Reads(W[s], w, Carries(e, s, u.conn[s].generation))
    BY <1>8, <1>11
  <2> QED
    BY <1>1, <1>3, <1>10, <1>12, <1>13, <2>1, <2>2, RecvLined
<1>15. Lined(v, WorldOf(u, r, x, p, a), Done(r), v.batch, 1)
  BY <1>4, <1>7, <1>14
<1> QED
  BY <1>14, <1>15, DrainedOn

\* The ring hears of a client.
LEMMA AcceptOrdered ==
  ASSUME NEW u, NEW q, NEW x \in [Slots -> Bytes], NEW p, NEW a, Ordered(u, q, x, p, a),
         NEW b, Fine(u, {}, Returning(q), {}, b), OncePerTicket(q),
         NEW e, NEW r, Reading(q, e, r), e.op = "accept",
         NEW v, v = HandleAcceptCompletion(u, e)
  PROVE  Ordered(v, r, x, p, a)
<1>1. q \in Seq(Completions) /\ r \in Seq(Completions) /\ e \in Accepts /\ u \in States
  BY NextIs, FineIs DEF Completions, Recvs, Sent
<1>2. PICK s \in Slots : s = e.slot
  BY <1>1 DEF Accepts
<1>3. PICK D : D = Done(q) /\ D = Done(r)
  <2>1. Done(r) = Done(q)
    BY ReadIs DEF Reading
  <2> QED
    BY <2>1
<1>4. PICK P : P = Returning(q)
  OBVIOUS
<1>5. PICK W \in [Slots -> Worlds] : W = WorldOf(u, q, x, p, a)
  BY <1>1, WorldIs DEF Ordered
<1>6. PICK X \in [Slots -> Worlds] : X = WorldOf(v, r, x, p, a)
  BY <1>1, WorldIs DEF Ordered
<1>7. PICK g \in Nat : g = u.conn[s].generation
  BY <1>1, ConnIs DEF Connections
<1>8. PICK n \in Nat : n = g + 1
  OBVIOUS
<1>9. PICK w \in Worlds : w = Outside(n, r, x[s], p[s], a[s], s)
  BY <1>1, OutsideIs DEF Ordered
<1>10. PICK Y : Y = [W EXCEPT ![s] = w]
  OBVIOUS
<1>11. Arriving(g, q, x[s], p[s], s) /\ Heard(g, a[s], W[s], s)
  BY <1>5, <1>7 DEF Ordered, Meets
<1>12. Announces(e, s) /\ Coming(q, s) /\ ~Coming(r, s)
  <2>1. Announces(e, s)
    BY <1>2 DEF Announces
  <2>2. Coming(q, s)
    BY <2>1, ReadIs DEF Reading
  <2>3. ~Coming(r, s)
    BY <1>11, <2>1, ArrivingRead
  <2> QED
    BY <2>1, <2>2, <2>3
<1>13. W[s] = Outside(g, q, x[s], p[s], a[s], s)
  BY <1>5, <1>7, WorldAt
<1>14. ~W[s].live /\ a[s] = << >>
  <2>1. W[s].live = (p[s] # "none" /\ ~Coming(q, s))
    BY <1>13 DEF Outside
  <2> QED
    BY <1>11, <1>12, <2>1 DEF Heard
<1>15. PICK z \in Bytes : z = x[s]
  OBVIOUS
<1>16. /\ p[s] # "none" /\ Len(z) <= API_MAX_REQUEST_SIZE
       /\ n < TagWidth => InLine(z, s, n, 1)
       /\ AllKnown(q, s, g)
  BY <1>8, <1>11, <1>12, <1>15 DEF Arriving
<1>17. AllKnown(r, s, n) /\ Pending(r, s, n) = << >>
  <2>1. AllKnown(r, s, g)
    BY <1>11, ArrivingRead DEF Arriving
  <2>2. ASSUME NEW i \in DOMAIN r PROVE Known(r[i], s, n) /\ (r[i].op = "recv" /\ r[i].slot = s => r[i].tag # n)
    <3>1. PICK m \in Nat : m = TagWidth
      BY RingAssumption DEF RingAssumption
    <3>2. r[i] \in Completions /\ Known(r[i], s, g)
      BY <1>1, <2>1, LenProperties, ElementOfSeq DEF AllKnown
    <3>3. r[i].op = "recv" => r[i].tag \in Nat
      BY <3>2 DEF Completions, Accepts, Recvs, Sent
    <3>4. ASSUME r[i].op = "recv", r[i].slot = s
          PROVE  r[i].tag < TagWidth /\ (n < TagWidth => r[i].tag <= n) /\ r[i].tag # n
      <4>1. PICK tag \in Nat : tag = r[i].tag
        BY <3>3, <3>4
      <4>2. tag < m /\ (g < m => tag <= g)
        BY <3>1, <3>2, <3>4, <4>1 DEF Known
      <4>3. tag < m /\ (n < m => tag <= n) /\ tag # n
        BY <1>8, <4>2
      <4> QED
        BY <3>1, <4>1, <4>3
    <3> QED
      BY <3>4 DEF Known
  <2>3. AllKnown(r, s, n)
    BY <2>2 DEF AllKnown
  <2>4. Pending(r, s, n) = << >>
    BY <1>1, <2>2, PendingNone
  <2> QED
    BY <2>3, <2>4
<1>18. w.live /\ ~w.over /\ w.turn = 1 /\ w.rest = z
  <2>1. w.rest = << >> \o z
    BY <1>9, <1>15, <1>17 DEF Outside
  <2>2. << >> \o z = z
    BY NothingJoined
  <2>3. /\ w.live = (p[s] # "none" /\ ~Coming(r, s))
        /\ w.turn = Len(a[s]) + 1
        /\ w.over = (a[s] # << >> /\ a[s][Len(a[s])][3] = StatusOnly)
    BY <1>9 DEF Outside
  <2>4. w.turn = 1
    BY <1>14, <2>3
  <2>5. ~w.over
    BY <1>14, <2>3
  <2> QED
    BY <1>12, <1>16, <2>1, <2>2, <2>3, <2>4, <2>5
<1>19. Ready(<< >>, s, n, w)
  <2>1. Len(<< >>) + Len(z) <= API_MAX_REQUEST_SIZE
    <3>1. Len(<< >>) = 0 /\ Len(z) \in Nat
      BY BytesTyped
    <3> QED
      BY <1>16, <3>1
  <2>2. << >> \o z = z
    BY NothingJoined
  <2> QED
    BY <1>16, <1>18, <2>1, <2>2 DEF Ready
<1>20. Lined(u, W, D, u.batch, 1)
  BY <1>3, <1>5 DEF Ordered
<1>21. Lined(v, Y, D, v.batch, 1) /\ Succeeds(u, v, s)
  <2>1. Fine(u, {}, P, {}, b)
    BY <1>4
  <2>2. Ready(<< >>, s, g + 1, w)
    BY <1>8, <1>19
  <2> QED
    BY <1>2, <1>7, <1>10, <1>14, <1>18, <1>20, <2>1, <2>2, AcceptLined
<1>22. v.conn[s].generation = n
       /\ \A o \in Slots : o # s => v.conn[o].generation = u.conn[o].generation
  BY <1>7, <1>8, <1>21 DEF Succeeds
<1>23. ASSUME NEW o \in Slots, o # s PROVE X[o] = W[o]
  <2>1. ~Announces(e, o) /\ \A h : Carries(e, o, h) = << >>
    BY <1>2, <1>23 DEF Announces, Carries
  <2>2. Outside(u.conn[o].generation, r, x[o], p[o], a[o], o) =
          Outside(u.conn[o].generation, q, x[o], p[o], a[o], o)
    BY <2>1, OutsideRead
  <2>3. X[o] = Outside(v.conn[o].generation, r, x[o], p[o], a[o], o)
    BY <1>6, WorldAt
  <2>4. W[o] = Outside(u.conn[o].generation, q, x[o], p[o], a[o], o)
    BY <1>5, WorldAt
  <2> QED
    BY <1>22, <1>23, <2>2, <2>3, <2>4
<1>24. X[s] = w
  <2>1. X[s] = Outside(v.conn[s].generation, r, x[s], p[s], a[s], s)
    BY <1>6, WorldAt
  <2> QED
    BY <1>9, <1>22, <2>1
<1>25. X = Y
  BY <1>10, <1>23, <1>24, WorldTurned
<1>26. ASSUME NEW o \in Slots PROVE Meets(v, r, x, p, a, o)
  <2>1. CASE o = s
    <3>1. Arriving(n, r, x[s], p[s], s)
      BY <1>11, <1>12, <1>17, ArrivingRead DEF Arriving
    <3>2. Heard(n, a[s], X[s], s)
      BY <1>14, <1>18, <1>24 DEF Heard
    <3> QED
      BY <1>6, <1>22, <2>1, <3>1, <3>2 DEF Meets
  <2>2. CASE o # s
    <3>1. PICK h : h = u.conn[o].generation /\ h = v.conn[o].generation
      BY <1>22, <2>2
    <3>2. Arriving(h, q, x[o], p[o], o) /\ Heard(h, a[o], W[o], o)
      BY <1>5, <3>1 DEF Ordered, Meets
    <3>3. Arriving(h, r, x[o], p[o], o)
      BY <3>2, ArrivingRead
    <3> QED
      BY <1>6, <1>23, <2>2, <3>1, <3>2, <3>3 DEF Meets
  <2> QED
    BY <2>1, <2>2
<1>27. Tagged(v)
  BY <1>21 DEF Ordered, Succeeds
<1>28. Lined(v, WorldOf(v, r, x, p, a), Done(r), v.batch, 1)
  BY <1>3, <1>6, <1>21, <1>25
<1> QED
  BY <1>26, <1>27, <1>28 DEF Ordered

-----------------------------------------------------------------------------
(* What the kernel and the clients do, in line *)

\* A slot is untouched by what the kernel or a client of another slot does.
Unmoved(q, x, p, a, r, y, k, b, o) ==
  /\ y[o] = x[o] /\ k[o] = p[o] /\ b[o] = a[o]
  /\ Coming(r, o) <=> Coming(q, o)
  /\ Once(q, o) => Once(r, o)
  /\ \A g : Pending(r, o, g) = Pending(q, o, g) /\ (AllKnown(q, o, g) => AllKnown(r, o, g))

\* The state behind what the kernel takes.
Handed(u, v, s) ==
  /\ Elsewhere(u, v, s) /\ v.conn = u.conn /\ v.batch = u.batch
  /\ Tagged(u) => Tagged(v)

\* The responses of the other slots are completed or not as before.
OpenElsewhere(u, q, r, s) ==
  \A o \in Slots : o # s => Mine(u, o) \ Done(r) = Mine(u, o) \ Done(q)

LEMMA ClientStep ==
  ASSUME NEW u, NEW q, NEW x, NEW p, NEW a, Ordered(u, q, x, p, a),
         NEW v, NEW s \in Slots, Handed(u, v, s),
         NEW r, NEW y, NEW k \in [Slots -> Peers], NEW b \in [Slots -> Seq(Asks)],
         \A o \in Slots : o # s => Unmoved(q, x, p, a, r, y, k, b, o),
         OpenElsewhere(u, q, r, s),
         Unsaid(v, Done(r)), Meets(v, r, y, k, b, s),
         Line(v, s, Outside(v.conn[s].generation, r, y[s], k[s], b[s], s), Done(r))
  PROVE  Ordered(v, r, y, k, b)
<1>1. PICK D : D = Done(q)
  OBVIOUS
<1>2. PICK E : E = Done(r)
  OBVIOUS
<1>3. PICK W : W = WorldOf(u, q, x, p, a)
  OBVIOUS
<1>4. PICK X : X = WorldOf(v, r, y, k, b)
  OBVIOUS
<1>5. v.conn = u.conn /\ v.batch = u.batch /\ Tagged(v)
  BY DEF Handed, Ordered
<1>6. Lined(u, W, D, u.batch, 1)
  BY <1>1, <1>3 DEF Ordered
<1>7. ASSUME NEW o \in Slots, o # s
      PROVE  Line(v, o, X[o], E) /\ Meets(v, r, y, k, b, o)
  <2>1. PICK g : g = u.conn[o].generation
    OBVIOUS
  <2>2. Unmoved(q, x, p, a, r, y, k, b, o)
    BY <1>7
  <2>3. /\ Outside(g, r, y[o], k[o], b[o], o) = Outside(g, q, x[o], p[o], a[o], o)
        /\ Arriving(g, q, x[o], p[o], o) => Arriving(g, r, y[o], k[o], o)
    <3>1. Coming(r, o) = Coming(q, o)
      BY <2>2 DEF Unmoved, Coming
    <3>2. y[o] = x[o] /\ k[o] = p[o] /\ b[o] = a[o]
      BY <2>2 DEF Unmoved
    <3>3. Pending(r, o, g) = Pending(q, o, g)
      BY <2>2 DEF Unmoved
    <3>4. Outside(g, r, y[o], k[o], b[o], o) = Outside(g, q, x[o], p[o], a[o], o)
      BY <3>1, <3>2, <3>3 DEF Outside
    <3>5. Once(q, o) => Once(r, o)
      BY <2>2 DEF Unmoved
    <3>6. AllKnown(q, o, g) => AllKnown(r, o, g)
      BY <2>2 DEF Unmoved
    <3>7. Arriving(g, q, x[o], p[o], o) => Arriving(g, r, y[o], k[o], o)
      BY <3>1, <3>2, <3>5, <3>6 DEF Arriving
    <3> QED
      BY <3>4, <3>7
  <2>4. X[o] = W[o]
    <3>1. X[o] = Outside(v.conn[o].generation, r, y[o], k[o], b[o], o)
      BY <1>4, WorldAt
    <3>2. W[o] = Outside(u.conn[o].generation, q, x[o], p[o], a[o], o)
      BY <1>3, WorldAt
    <3> QED
      BY <1>5, <2>1, <2>3, <3>1, <3>2
  <2>5. Line(v, o, X[o], E)
    <3>1. Line(u, o, W[o], D)
      BY <1>6 DEF Lined
    <3>2. Mine(u, o) \ D = Mine(u, o) \ E
      BY <1>1, <1>2, <1>7 DEF OpenElsewhere
    <3>3. Line(u, o, W[o], E)
      BY <3>1, <3>2, LineDone
    <3>4. Same(u, v, o)
      BY <1>7 DEF Handed, Elsewhere
    <3> QED
      BY <2>4, <3>3, <3>4, SameLine
  <2>6. Arriving(g, q, x[o], p[o], o) /\ Heard(g, a[o], W[o], o)
    BY <1>3, <2>1 DEF Ordered, Meets
  <2>7. Meets(v, r, y, k, b, o)
    <3>1. Heard(g, b[o], X[o], o)
      BY <2>2, <2>4, <2>6 DEF Unmoved
    <3> QED
      BY <1>4, <1>5, <2>1, <2>3, <2>6, <3>1 DEF Meets
  <2> QED
    BY <2>5, <2>7
<1>8. Line(v, s, X[s], E)
  BY <1>2, <1>4, WorldAt
<1>9. ASSUME NEW o \in Slots PROVE Line(v, o, X[o], E) /\ InBatch(v, v.batch, 1, o)
  <2>1. InBatch(u, u.batch, 1, o)
    BY <1>6 DEF Lined
  <2>2. InBatch(v, v.batch, 1, o)
    BY <1>5, <2>1 DEF InBatch
  <2> QED
    BY <1>7, <1>8, <2>2
<1>10. Lined(v, X, E, v.batch, 1)
  BY <1>2, <1>9 DEF Lined
<1>11. \A o \in Slots : Meets(v, r, y, k, b, o)
  BY <1>7
<1> QED
  BY <1>2, <1>4, <1>5, <1>10, <1>11 DEF Ordered

\* A completion of another slot is posted.
LEMMA PostedElsewhere ==
  ASSUME NEW q \in Seq(Completions), NEW e \in Completions, NEW r, r = Append(q, e),
         NEW s, e.slot = s, NEW o, o # s,
         NEW x, NEW p, NEW a, NEW y, NEW k, NEW b, y[o] = x[o], k[o] = p[o], b[o] = a[o]
  PROVE  Unmoved(q, x, p, a, r, y, k, b, o)
<1>1. ~Announces(e, o) /\ \A g : Known(e, o, g) /\ Carries(e, o, g) = << >>
  BY DEF Announces, Known, Carries
<1>2. /\ Coming(r, o) <=> Coming(q, o)
      /\ Once(q, o) => Once(r, o)
      /\ \A g : AllKnown(q, o, g) => AllKnown(r, o, g)
  BY <1>1, PostedIs
<1>3. ASSUME NEW g PROVE Pending(r, o, g) = Pending(q, o, g)
  <2>1. Pending(r, o, g) = Pending(q, o, g) \o Carries(e, o, g)
    BY PendingAppend
  <2>2. PICK z \in Bytes : z = Pending(q, o, g)
    BY PendingIs
  <2> QED
    BY <1>1, <2>1, <2>2, NothingJoined
<1> QED
  BY <1>2, <1>3 DEF Unmoved

\* A completion is posted.
Posts(q, e, r) == q \in Seq(Completions) /\ e \in Completions /\ r = Append(q, e)

LEMMA OutsidePosted ==
  ASSUME NEW q, NEW e, NEW r, Posts(q, e, r), NEW g, NEW x \in Bytes, NEW p, NEW a, NEW s,
         ~Announces(e, s), Carries(e, s, g) = << >>
  PROVE  Outside(g, r, x, p, a, s) = Outside(g, q, x, p, a, s)
<1>1. Coming(q, s) <=> Coming(r, s)
  BY PostedIs DEF Posts
<1>2. Pending(r, s, g) = Pending(q, s, g) \o Carries(e, s, g)
  BY PendingAppend DEF Posts
<1>3. PICK k \in Bytes : k = Pending(q, s, g)
  BY PendingIs DEF Posts
<1>4. Pending(q, s, g) = Pending(r, s, g)
  BY <1>2, <1>3, NothingJoined
<1> QED
  BY <1>1, <1>4 DEF Outside

LEMMA ArrivingPosted ==
  ASSUME NEW q, NEW e, NEW r, Posts(q, e, r), NEW g, NEW x, NEW p, NEW s,
         Arriving(g, q, x, p, s), ~Announces(e, s), Known(e, s, g)
  PROVE  Arriving(g, r, x, p, s)
<1>1. /\ Coming(r, s) => Coming(q, s)
      /\ Once(q, s) => Once(r, s)
      /\ \A h : AllKnown(q, s, h) /\ Known(e, s, h) => AllKnown(r, s, h)
  BY PostedIs DEF Posts
<1> QED
  BY <1>1 DEF Arriving

LEMMA PostedUnmoved ==
  ASSUME NEW q, NEW e, NEW r, Posts(q, e, r), NEW s \in Slots, e.slot = s,
         NEW x, NEW p, NEW a, NEW y, NEW k, NEW b,
         \A o \in Slots : o # s => y[o] = x[o] /\ k[o] = p[o] /\ b[o] = a[o]
  PROVE  \A o \in Slots : o # s => Unmoved(q, x, p, a, r, y, k, b, o)
  BY PostedElsewhere, ZenonT(30) DEF Posts

LEMMA EverywhereHanded ==
  ASSUME NEW u, NEW v, Everywhere(u, v), v.conn = u.conn
  PROVE  \A s \in Slots : Handed(u, v, s) /\ Same(u, v, s)
<1>1. \A s \in Slots : Same(u, v, s)
  BY SameEverywhere
<1> QED
  BY <1>1 DEF Handed, Elsewhere, Everywhere

\* Receives end, or go on.
LEMMA FewerReceives ==
  ASSUME NEW u \in States, NEW s \in Slots, NEW g, g = u.conn[s].generation,
         NEW left,
         Tagged(u) => \A i \in DOMAIN left : /\ left[i] < TagWidth
                                             /\ g < TagWidth => left[i] <= g,
         NEW v, v.conn = u.conn, v.ticket = u.ticket, v.tokens = u.tokens,
         v.closes = u.closes, v.batch = u.batch, v.recvs = [u.recvs EXCEPT ![s] = left]
  PROVE  Everywhere(u, v)
<1>1. v.recvs[s] = left /\ \A o \in Slots : o # s => v.recvs[o] = u.recvs[o]
  BY StatesAre
<1>2. Tagged(u) => Tagged(v)
  BY <1>1 DEF Tagged
<1> QED
  BY <1>2 DEF Everywhere, SameWork

Tags(g) == {n \in Nat : n < TagWidth /\ (g < TagWidth => n <= g)}

LEMMA TagsLeft ==
  ASSUME NEW u \in States, Tagged(u), NEW s \in Slots, NEW i \in DOMAIN u.recvs[s],
         NEW g, g = u.conn[s].generation
  PROVE  u.recvs[s][i] \in Tags(g) /\ RemoveAt(u.recvs[s], i) \in Seq(Tags(g))
         /\ u.recvs[s] \in Seq(Tags(g))
<1>1. PICK S : S = Tags(g)
  OBVIOUS
<1>2. u.recvs[s] \in Seq(Nat)
  BY StatesAre
<1>3. \A j \in DOMAIN u.recvs[s] : u.recvs[s][j] \in S
  BY <1>1, <1>2, ElementOfSeq, LenProperties DEF Tagged, Tags
<1>4. u.recvs[s] \in Seq(S)
  BY <1>2, <1>3
<1> QED
  BY <1>1, <1>3, <1>4, Removed

\* A receive reports that it brings nothing.
LEMMA NothingReceived ==
  ASSUME NEW u, NEW q, NEW x \in [Slots -> Bytes], NEW p, NEW a, Ordered(u, q, x, p, a),
         NEW e \in Recvs, NEW r, Posts(q, e, r), NEW s \in Slots, e.slot = s, e.data = << >>,
         e.tag \in Tags(u.conn[s].generation),
         NEW v, Everywhere(u, v), v.conn = u.conn
  PROVE  Ordered(v, r, x, p, a)
<1>1. PICK g : g = u.conn[s].generation
  OBVIOUS
<1>2. Handed(u, v, s) /\ Same(u, v, s)
  BY EverywhereHanded
<1>3. \A o \in Slots : o # s => Unmoved(q, x, p, a, r, x, p, a, o)
  BY PostedUnmoved
<1>4. Done(r) = Done(q)
  BY PostedIs DEF Posts, Wrote, Recvs
<1>5. Lined(u, WorldOf(u, q, x, p, a), Done(q), u.batch, 1)
  BY DEF Ordered
<1>6. Unsaid(v, Done(r))
  BY <1>4, <1>5, SameEverywhere DEF Lined
<1>7. Outside(g, r, x[s], p[s], a[s], s) = Outside(g, q, x[s], p[s], a[s], s)
  <2>1. ~Announces(e, s) /\ Carries(e, s, g) = << >>
    BY DEF Recvs, Announces, Carries
  <2> QED
    BY <2>1, OutsidePosted
<1>8. WorldOf(u, q, x, p, a)[s] = Outside(g, q, x[s], p[s], a[s], s)
  BY <1>1, WorldAt
<1>9. Line(v, s, Outside(g, r, x[s], p[s], a[s], s), Done(r))
  <2>1. Line(u, s, WorldOf(u, q, x, p, a)[s], Done(q))
    BY <1>5 DEF Lined
  <2> QED
    BY <1>2, <1>4, <1>7, <1>8, <2>1, SameLine
<1>10. Meets(v, r, x, p, a, s)
  <2>1. Arriving(g, q, x[s], p[s], s) /\ Heard(g, a[s], WorldOf(u, q, x, p, a)[s], s)
    BY <1>1 DEF Ordered, Meets
  <2>2. Arriving(g, r, x[s], p[s], s)
    <3>1. ~Announces(e, s) /\ Known(e, s, g)
      BY <1>1 DEF Recvs, Announces, Known, Tags
    <3> QED
      BY <2>1, <3>1, ArrivingPosted
  <2>3. WorldOf(v, r, x, p, a)[s] = Outside(g, r, x[s], p[s], a[s], s)
    BY <1>1, WorldAt
  <2> QED
    BY <1>1, <1>7, <1>8, <2>1, <2>2, <2>3 DEF Meets
<1>11. p \in [Slots -> Peers] /\ a \in [Slots -> Seq(Asks)]
  BY DEF Ordered
<1> QED
  BY <1>1, <1>2, <1>3, <1>4, <1>6, <1>9, <1>10, <1>11, ClientStep DEF OpenElsewhere

\* A receive ends without bytes.
LEMMA RecvEndsOrdered ==
  ASSUME RingInv, OrderInv, NEW s \in Slots, NEW i \in DOMAIN st.recvs[s], RecvEnds(s, i),
         NEW res \in {"ENOBUFS", "end", "canceled"},
         cq' = Append(cq, RecvCompletion(s, st.recvs[s][i], res, << >>, FALSE)),
         UNCHANGED client
  PROVE  OrderInv'
<1>1. st \in States /\ cq \in Seq(Completions) /\ Tagged(st) /\ stream \in [Slots -> Bytes]
  BY RingIs DEF RingInv, OrderInv, Ordered
<1>2. PICK g \in Nat : g = st.conn[s].generation
  BY <1>1, ConnIs DEF Connections
<1>3. PICK tag : tag = st.recvs[s][i]
  OBVIOUS
<1>4. PICK left : left = RemoveAt(st.recvs[s], i)
  OBVIOUS
<1>5. tag \in Tags(g) /\ left \in Seq(Tags(g))
  BY <1>1, <1>2, <1>3, <1>4, TagsLeft
<1>6. PICK v : v = [st EXCEPT !.recvs[s] = left]
  OBVIOUS
<1>7. st' = v
  BY <1>4, <1>6 DEF RecvEnds
<1>8. /\ v.conn = st.conn /\ v.ticket = st.ticket /\ v.tokens = st.tokens
      /\ v.closes = st.closes /\ v.batch = st.batch /\ v.recvs = [st.recvs EXCEPT ![s] = left]
  BY <1>1, <1>6 DEF States
<1>9. Everywhere(st, v)
  <2>1. \A j \in DOMAIN left : left[j] < TagWidth /\ (g < TagWidth => left[j] <= g)
    BY <1>5, ElementOfSeq, LenProperties DEF Tags
  <2> QED
    BY <1>1, <1>2, <1>8, <2>1, FewerReceives, ZenonT(30)
<1>10. PICK e : e = RecvCompletion(s, tag, res, << >>, FALSE)
  OBVIOUS
<1>11. e \in Recvs /\ e.op = "recv" /\ e.slot = s /\ e.data = << >> /\ e.tag = tag
  <2>1. tag \in Nat /\ << >> \in Bytes
    BY <1>5, NothingJoined DEF Tags
  <2> HIDE DEF Bytes
  <2> QED
    BY <1>10, <2>1 DEF RecvCompletion, Recvs
<1>12. PICK r : r = Append(cq, e)
  OBVIOUS
<1>13. cq' = r /\ Posts(cq, e, r)
  BY <1>1, <1>3, <1>10, <1>11, <1>12 DEF Posts, Completions
<1>14. Ordered(v, r, stream, peer, answers)
  BY <1>1, <1>2, <1>5, <1>8, <1>9, <1>11, <1>13, NothingReceived DEF OrderInv
<1> QED
  BY <1>7, <1>13, <1>14 DEF OrderInv, client

LEMMA KernelEndsOrdered ==
  ASSUME RingInv, OrderInv, NEW s \in Slots,
         KernelOutOfBuffers(s) \/ KernelEndOfStream(s) \/ KernelCancels(s)
  PROVE  OrderInv'
<1>1. CASE KernelOutOfBuffers(s)
  <2>1. PICK i \in DOMAIN st.recvs[s] :
          /\ RecvEnds(s, i)
          /\ cq' = Append(cq, RecvCompletion(s, st.recvs[s][i], "ENOBUFS", << >>, FALSE))
    BY <1>1 DEF KernelOutOfBuffers
  <2>2. UNCHANGED client
    BY <1>1 DEF KernelOutOfBuffers
  <2> QED
    BY <2>1, <2>2, RecvEndsOrdered
<1>2. CASE KernelEndOfStream(s)
  <2>1. PICK i \in DOMAIN st.recvs[s] :
          /\ RecvEnds(s, i)
          /\ cq' = Append(cq, RecvCompletion(s, st.recvs[s][i], "end", << >>, FALSE))
    BY <1>2 DEF KernelEndOfStream
  <2>2. UNCHANGED client
    BY <1>2 DEF KernelEndOfStream
  <2> QED
    BY <2>1, <2>2, RecvEndsOrdered
<1>3. CASE KernelCancels(s)
  <2>1. PICK i \in DOMAIN st.recvs[s] :
          /\ RecvEnds(s, i)
          /\ cq' = Append(cq, RecvCompletion(s, st.recvs[s][i], "canceled", << >>, FALSE))
    BY <1>3 DEF KernelCancels
  <2>2. UNCHANGED client
    BY <1>3 DEF KernelCancels
  <2> QED
    BY <2>1, <2>2, RecvEndsOrdered
<1> QED
  BY <1>1, <1>2, <1>3

-----------------------------------------------------------------------------
(* What the ring thread does, in line *)

LEMMA DrainRingOrdered ==
  ASSUME RingInv, OrderInv, DrainRing
  PROVE  OrderInv'
<1>1. PICK handler : st' = Handle(st, Head(cq), handler)
  BY DEF DrainRing
<1>2. PICK e, r : e = Head(cq) /\ r = Tail(cq)
  OBVIOUS
<1>3. cq # << >> /\ cq' = r /\ UNCHANGED client
  BY <1>2 DEF DrainRing
<1>4. PICK u, q, x, p, a : u = st /\ q = cq /\ x = stream /\ p = peer /\ a = answers
  OBVIOUS
<1>5. PICK b : b = u.buffers
  OBVIOUS
<1>6. /\ Reading(q, e, r) /\ Ordered(u, q, x, p, a) /\ x \in [Slots -> Bytes]
      /\ Fine(u, {}, Returning(q), {}, b) /\ OncePerTicket(q)
  BY <1>2, <1>3, <1>4, <1>5 DEF RingInv, OrderInv, Reading
<1>7. PICK v : v = st'
  OBVIOUS
<1>8. e \in Completions
  BY <1>6, NextIs
<1>9. Ordered(v, r, x, p, a)
  <2>1. CASE e.op = "accept"
    <3>1. v = HandleAcceptCompletion(u, e)
      BY <1>1, <1>2, <1>4, <1>7, <2>1 DEF Handle
    <3> QED
      BY <1>6, <2>1, <3>1, AcceptOrdered
  <2>2. CASE e.op = "recv"
    <3>1. v = HandleRecvCompletion(u, e, handler)
      BY <1>1, <1>2, <1>4, <1>7, <2>2 DEF Handle
    <3> QED
      BY <1>6, <2>2, <3>1, RecvOrdered
  <2>3. CASE e.op = "send"
    <3>1. v = HandleSendCompletion(u, e, handler)
      BY <1>1, <1>2, <1>4, <1>7, <2>3 DEF Handle
    <3> QED
      BY <1>6, <2>3, <3>1, SendOrdered
  <2> QED
    BY <1>8, <2>1, <2>2, <2>3 DEF Completions, Accepts, Recvs, Sent
<1> QED
  BY <1>3, <1>4, <1>7, <1>9 DEF OrderInv, client

LEMMA EndOfPassOrdered ==
  ASSUME RingInv, OrderInv, EndOfPass
  PROVE  OrderInv'
<1>1. PICK handler : st' = FlushBatch(st, handler)
  BY DEF EndOfPass
<1>2. PICK b, P, D : b = st.buffers /\ P = Returning(cq) /\ D = Done(cq)
  OBVIOUS
<1>3. Fine(st, {}, P, {}, b)
  BY <1>2 DEF RingInv
<1>4. PICK W : W = WorldOf(st, cq, stream, peer, answers)
  OBVIOUS
<1>5. W \in [Slots -> Worlds]
  BY <1>4, WorldIs DEF RingInv, OrderInv, Ordered
<1>6. Lined(st, W, D, st.batch, 1)
  BY <1>2, <1>4 DEF OrderInv, Ordered
<1>7. Lined(st', W, D, << >>, 1) /\ Unharmed(st, st')
  BY <1>1, <1>3, <1>5, <1>6, FlushLined
<1>8. Lined(st', W, D, st'.batch, 1) /\ Kept(st, st')
  BY <1>7 DEF Unharmed, Kept
<1>9. Ordered(st', cq, stream, peer, answers)
  BY <1>2, <1>4, <1>8, OrderedOn DEF OrderInv
<1> QED
  BY <1>9 DEF EndOfPass, client, OrderInv

LEMMA NotifiedOrdered ==
  ASSUME RingInv, OrderInv, Notified
  PROVE  OrderInv'
<1>1. PICK token \in st.tokens, outcome \in Outcomes :
        /\ Owed(st, token) => FreeTickets(st) # {}
        /\ st' = SendDeferred(st, token, outcome)
  BY DEF Notified
<1>2. PICK b, P, D : b = st.buffers /\ P = Returning(cq) /\ D = Done(cq)
  OBVIOUS
<1>3. Fine(st, {}, P, {}, b)
  BY <1>2 DEF RingInv
<1>4. PICK W : W = WorldOf(st, cq, stream, peer, answers)
  OBVIOUS
<1>5. W \in [Slots -> Worlds]
  BY <1>4, WorldIs DEF RingInv, OrderInv, Ordered
<1>6. Lined(st, W, D, st.batch, 1)
  BY <1>2, <1>4 DEF OrderInv, Ordered
<1>7. Lined(st', W, D, st'.batch, 1) /\ Kept(st, st')
  BY <1>1, <1>3, <1>5, <1>6, DeferredLined
<1>8. Ordered(st', cq, stream, peer, answers)
  BY <1>2, <1>4, <1>7, OrderedOn DEF OrderInv
<1> QED
  BY <1>8 DEF Notified, client, OrderInv

-----------------------------------------------------------------------------
(* Clients that come and go, in line *)

\* Of a connection that no receive can be told apart for, only the length matters of
\* what is to come.
LEMMA LessLine ==
  ASSUME NEW u \in States, NEW s \in Slots, NEW w \in Worlds, NEW x \in Worlds, NEW D,
         Line(u, s, w, D), SameClient(w, x), ~(u.conn[s].generation < TagWidth),
         Len(x.rest) <= Len(w.rest)
  PROVE  Line(u, s, x, D)
<1>1. Owned(u, s, x, D)
  BY DEF Line, Owned, SameClient
<1>2. ASSUME u.conn[s].inUse PROVE Served(u, s, x, D)
  <2>1. Served(u, s, w, D)
    BY <1>2 DEF Line
  <2>2. Len(u.conn[s].in) \in Nat /\ Len(x.rest) \in Nat /\ Len(w.rest) \in Nat
        /\ API_MAX_REQUEST_SIZE \in Nat
    BY ConnIs, BytesTyped, RingAssumption DEF Worlds, RingAssumption
  <2>3. Len(u.conn[s].in) + Len(w.rest) <= API_MAX_REQUEST_SIZE
    BY <2>1 DEF Served
  <2>4. Len(u.conn[s].in) + Len(x.rest) <= API_MAX_REQUEST_SIZE
    <3>1. PICK i \in Nat, j \in Nat, k \in Nat, m \in Nat :
            i = Len(u.conn[s].in) /\ j = Len(x.rest) /\ k = Len(w.rest) /\ m = API_MAX_REQUEST_SIZE
      BY <2>2
    <3>2. j <= k /\ i + k <= m
      BY <2>3, <3>1
    <3>3. i + j <= m
      BY <3>2
    <3> QED
      BY <3>1, <3>3
  <2> QED
    BY <2>1, <2>4 DEF Served, SameClient
<1> QED
  BY <1>1, <1>2 DEF Line, SameClient

Cut(bytes, data, rest) == bytes = data \o rest

\* The generation of the connection the kernel has in the slot.
Current(q, s, g) == IF Coming(q, s) THEN g + 1 ELSE g

\* Bytes are received.
LEMMA BytesReceived ==
  ASSUME NEW u \in States, NEW q, NEW x \in [Slots -> Bytes], NEW p, NEW a,
         Ordered(u, q, x, p, a),
         NEW e \in Recvs, NEW r, Posts(q, e, r), NEW s \in Slots, e.slot = s,
         NEW g \in Nat, g = u.conn[s].generation, e.tag \in Tags(g),
         e.tag = Tag(Current(q, s, g)), p[s] # "none",
         NEW rest \in Bytes, Cut(x[s], e.data, rest),
         NEW y \in [Slots -> Bytes], y[s] = rest, \A o \in Slots : o # s => y[o] = x[o],
         NEW v \in States, Everywhere(u, v), v.conn = u.conn
  PROVE  Ordered(v, r, y, p, a)
<1>1. Handed(u, v, s) /\ Same(u, v, s)
  BY EverywhereHanded
<1>2. q \in Seq(Completions) /\ r \in Seq(Completions) /\ e \in Completions
  BY AppendProperties DEF Posts
<1>3. \A o \in Slots : o # s => Unmoved(q, x, p, a, r, y, p, a, o)
  BY PostedUnmoved
<1>4. Done(r) = Done(q) /\ (Coming(r, s) <=> Coming(q, s))
  BY PostedIs DEF Posts, Wrote, Recvs, Announces
<1>5. p \in [Slots -> Peers] /\ a \in [Slots -> Seq(Asks)]
      /\ Lined(u, WorldOf(u, q, x, p, a), Done(q), u.batch, 1)
  BY DEF Ordered
<1>6. Unsaid(v, Done(r))
  BY <1>4, <1>5, SameEverywhere DEF Lined
<1>7. PICK w \in Worlds : w = Outside(g, q, x[s], p[s], a[s], s)
  BY <1>2, <1>5, OutsideIs
<1>8. PICK z \in Worlds : z = Outside(g, r, y[s], p[s], a[s], s)
  BY <1>2, <1>5, OutsideIs
<1>9. Line(v, s, w, Done(r))
  <2>1. WorldOf(u, q, x, p, a)[s] = w
    BY <1>7, WorldAt
  <2>2. Line(u, s, w, Done(q))
    BY <1>5, <2>1 DEF Lined
  <2> QED
    BY <1>1, <1>4, <2>2, SameLine
<1>10. SameClient(w, z)
  <2>1. w.turn = Len(a[s]) + 1 /\ z.turn = Len(a[s]) + 1
    BY <1>7, <1>8 DEF Outside
  <2>2. w.over = z.over
    BY <1>7, <1>8 DEF Outside
  <2>3. w.live = (p[s] # "none" /\ ~Coming(q, s)) /\ z.live = (p[s] # "none" /\ ~Coming(r, s))
    BY <1>7, <1>8 DEF Outside
  <2> QED
    BY <1>4, <2>1, <2>2, <2>3 DEF SameClient
<1>11. PICK P \in Bytes : P = Pending(q, s, g)
  BY <1>2, PendingIs
<1>12. PICK data \in Bytes : data = e.data
  BY DEF Recvs
<1>13. PICK sent \in Bytes : sent = x[s]
  OBVIOUS
<1>14. sent = data \o rest
  BY <1>12, <1>13 DEF Cut
<1>15. w.rest = P \o sent /\ z.rest = Pending(r, s, g) \o rest
  BY <1>7, <1>8, <1>11, <1>13 DEF Outside
<1>16. Pending(r, s, g) = P \o Carries(e, s, g)
  BY <1>11, PendingAppend DEF Posts
<1>17. PICK m \in Nat : m = TagWidth
  BY RingAssumption DEF RingAssumption
<1>18. PICK t \in Nat : t = e.tag /\ t < m /\ (g < m => t <= g)
  BY <1>17 DEF Tags
<1>19. t = Current(q, s, g) % m
  BY <1>17, <1>18 DEF Tag
<1>20. CASE Coming(q, s)
  <2>1. ~w.live
    BY <1>7, <1>20 DEF Outside
  <2>2. ~v.conn[s].inUse
    BY <1>9, <2>1 DEF Line
  <2>3. Line(v, s, z, Done(r))
    BY <1>9, <1>10, <2>2, SameClientLine
  <2>4. Arriving(g, q, x[s], p[s], s) /\ Heard(g, a[s], w, s)
    BY <1>7, WorldAt DEF Ordered, Meets
  <2>5. ~(g + 1 < m)
    <3> SUFFICES ASSUME g + 1 < m PROVE FALSE
      OBVIOUS
    <3>1. Current(q, s, g) = g + 1
      BY <1>20 DEF Current
    <3>2. t = g + 1
      BY <1>19, <3>1
    <3> QED
      BY <1>18, <3>2
  <2>6. Len(rest) <= API_MAX_REQUEST_SIZE
    <3>1. Len(sent) <= API_MAX_REQUEST_SIZE
      BY <1>13, <1>20, <2>4 DEF Arriving
    <3>2. Len(sent) = Len(data) + Len(rest)
      BY <1>14, Concats
    <3>3. Len(data) \in Nat /\ Len(rest) \in Nat /\ API_MAX_REQUEST_SIZE \in Nat
      BY BytesTyped, RingAssumption DEF RingAssumption
    <3> QED
      BY <3>1, <3>2, <3>3
  <2>7. Arriving(g, q, y[s], p[s], s)
    BY <1>17, <2>4, <2>5, <2>6 DEF Arriving
  <2>8. ~Announces(e, s) /\ Known(e, s, g)
    BY DEF Recvs, Announces, Known, Tags
  <2>9. Arriving(g, r, y[s], p[s], s)
    BY <2>7, <2>8, ArrivingPosted
  <2>10. Heard(g, a[s], z, s)
    BY <1>10, <2>4 DEF Heard, SameClient
  <2>11. Meets(v, r, y, p, a, s)
    <3>1. WorldOf(v, r, y, p, a)[s] = z
      BY <1>8, WorldAt
    <3> QED
      BY <2>9, <2>10, <3>1 DEF Meets
  <2> QED
    BY <1>1, <1>3, <1>4, <1>5, <1>6, <1>8, <2>3, <2>11, ClientStep, ZenonT(30) DEF OpenElsewhere
<1>21. CASE ~Coming(q, s)
  <2>1. t = g % m
    BY <1>19, <1>21 DEF Current
  <2>2. Line(v, s, z, Done(r))
    <3>1. CASE g < m
      <4>1. t = g
        BY <2>1, <3>1
      <4>2. Carries(e, s, g) = data
        BY <1>12, <1>18, <4>1 DEF Carries, Recvs
      <4>3. z.rest = (P \o data) \o rest
        BY <1>15, <1>16, <4>2
      <4>4. z.rest = w.rest
        <5>1. (P \o data) \o rest = P \o (data \o rest)
          BY Joined, SMTT(30)
        <5>2. w.rest = P \o (data \o rest)
          BY <1>14, <1>15
        <5> QED
          BY <4>3, <5>1, <5>2
      <4> QED
        BY <1>9, <1>10, <4>4, SameClientLine
    <3>2. CASE ~(g < m)
      <4>1. t # g
        BY <1>18, <3>2
      <4>2. Carries(e, s, g) = << >>
        BY <1>18, <4>1 DEF Carries
      <4>3. z.rest = P \o rest
        BY <1>15, <1>16, <4>2, NothingJoined
      <4>4. /\ Len(z.rest) = Len(P) + Len(rest) /\ Len(w.rest) = Len(P) + Len(sent)
            /\ Len(sent) = Len(data) + Len(rest)
        BY <1>14, <1>15, <4>3, Concats
      <4>5. Len(P) \in Nat /\ Len(data) \in Nat /\ Len(rest) \in Nat
        BY BytesTyped
      <4>6. Len(z.rest) <= Len(w.rest)
        BY <4>4, <4>5
      <4>7. ~(v.conn[s].generation < TagWidth)
        BY <1>17, <3>2
      <4> QED
        BY <1>9, <1>10, <4>6, <4>7, LessLine
    <3> QED
      BY <3>1, <3>2
  <2>3. Arriving(g, q, x[s], p[s], s) /\ Heard(g, a[s], w, s)
    BY <1>7, WorldAt DEF Ordered, Meets
  <2>4. Arriving(g, q, y[s], p[s], s)
    BY <1>21, <2>3 DEF Arriving
  <2>5. ~Announces(e, s) /\ Known(e, s, g)
    BY DEF Recvs, Announces, Known, Tags
  <2>6. Arriving(g, r, y[s], p[s], s)
    BY <2>4, <2>5, ArrivingPosted
  <2>7. Heard(g, a[s], z, s)
    BY <1>10, <2>3 DEF Heard, SameClient
  <2>8. Meets(v, r, y, p, a, s)
    <3>1. WorldOf(v, r, y, p, a)[s] = z
      BY <1>8, WorldAt
    <3> QED
      BY <2>6, <2>7, <3>1 DEF Meets
  <2> QED
    BY <1>1, <1>3, <1>4, <1>5, <1>6, <1>8, <2>2, <2>8, ClientStep, ZenonT(30) DEF OpenElsewhere
<1> QED
  BY <1>20, <1>21

\* The world but for slot s.
OthersSame(x, p, a, y, k, b, s) ==
  \A o \in Slots : o # s => y[o] = x[o] /\ k[o] = p[o] /\ b[o] = a[o]

LEMMA NothingHanded ==
  ASSUME NEW u, NEW s
  PROVE  Handed(u, u, s) /\ Same(u, u, s)
  BY DEF Handed, Elsewhere, Same, SameWork

LEMMA NothingPosted ==
  ASSUME NEW q, NEW s \in Slots, NEW x, NEW p, NEW a, NEW y, NEW k, NEW b,
         OthersSame(x, p, a, y, k, b, s)
  PROVE  \A o \in Slots : o # s => Unmoved(q, x, p, a, q, y, k, b, o)
  BY DEF Unmoved, OthersSame

\* A client comes.
LEMMA ClientArrives ==
  ASSUME NEW u \in States, NEW q, NEW x \in [Slots -> Bytes], NEW p, NEW a,
         Ordered(u, q, x, p, a), NEW s \in Slots, p[s] = "none",
         NEW e \in Accepts, NEW r, Posts(q, e, r), e.slot = s,
         NEW g \in Nat, g = u.conn[s].generation,
         NEW y \in [Slots -> Bytes], Len(y[s]) <= API_MAX_REQUEST_SIZE, InLine(y[s], s, g + 1, 1),
         NEW k \in [Slots -> Peers], k[s] = "open",
         NEW b \in [Slots -> Seq(Asks)], b[s] = << >>, OthersSame(x, p, a, y, k, b, s)
  PROVE  Ordered(u, r, y, k, b) /\ ~Coming(q, s)
<1>1. Handed(u, u, s)
  BY NothingHanded
<1>2. q \in Seq(Completions) /\ r \in Seq(Completions) /\ e \in Completions
  BY AppendProperties DEF Posts
<1>3. \A o \in Slots : o # s => Unmoved(q, x, p, a, r, y, k, b, o)
  BY PostedUnmoved DEF OthersSame
<1>4. Announces(e, s) /\ ~Wrote(e) /\ \A h : Known(e, s, h)
  BY DEF Accepts, Announces, Wrote, Known
<1>5. Done(r) = Done(q) /\ Coming(r, s)
  BY <1>4, PostedIs DEF Posts
<1>6. p \in [Slots -> Peers] /\ a \in [Slots -> Seq(Asks)]
      /\ Lined(u, WorldOf(u, q, x, p, a), Done(q), u.batch, 1)
  BY DEF Ordered
<1>7. Unsaid(u, Done(r))
  BY <1>5, <1>6 DEF Lined
<1>8. PICK w \in Worlds : w = Outside(g, q, x[s], p[s], a[s], s)
  BY <1>2, <1>6, OutsideIs
<1>9. PICK z \in Worlds : z = Outside(g, r, y[s], k[s], b[s], s)
  BY <1>2, <1>6, OutsideIs
<1>10. Arriving(g, q, x[s], p[s], s) /\ Heard(g, a[s], w, s)
  BY <1>8, WorldAt DEF Ordered, Meets
<1>11. ~Coming(q, s) /\ Once(q, s) /\ AllKnown(q, s, g)
  BY <1>10 DEF Arriving
<1>12. ~w.live /\ ~z.live
  <2>1. w.live = (p[s] # "none" /\ ~Coming(q, s)) /\ z.live = (k[s] # "none" /\ ~Coming(r, s))
    BY <1>8, <1>9 DEF Outside
  <2> QED
    BY <1>5, <2>1
<1>13. a[s] = << >>
  BY <1>10, <1>12 DEF Heard
<1>14. SameClient(w, z)
  <2>1. w.turn = Len(a[s]) + 1 /\ z.turn = Len(b[s]) + 1
    BY <1>8, <1>9 DEF Outside
  <2>2. w.over = (a[s] # << >> /\ a[s][Len(a[s])][3] = StatusOnly)
        /\ z.over = (b[s] # << >> /\ b[s][Len(b[s])][3] = StatusOnly)
    BY <1>8, <1>9 DEF Outside
  <2>3. w.turn = z.turn
    BY <1>13, <2>1
  <2>4. ~w.over /\ ~z.over
    BY <1>13, <2>2
  <2>5. w \in [turn : Nat, over : BOOLEAN, live : BOOLEAN, rest : Bytes]
        /\ z \in [turn : Nat, over : BOOLEAN, live : BOOLEAN, rest : Bytes]
    BY DEF Worlds
  <2> HIDE DEF Bytes
  <2>6. w.over \in BOOLEAN /\ z.over \in BOOLEAN /\ w.live \in BOOLEAN /\ z.live \in BOOLEAN
    BY <2>5
  <2> QED
    BY <1>12, <2>3, <2>4, <2>6 DEF SameClient
<1>15. Line(u, s, z, Done(r))
  <2>1. WorldOf(u, q, x, p, a)[s] = w
    BY <1>8, WorldAt
  <2>2. Line(u, s, w, Done(r))
    BY <1>5, <1>6, <2>1 DEF Lined
  <2>3. ~u.conn[s].inUse
    BY <1>12, <2>2 DEF Line
  <2> QED
    BY <1>14, <2>2, <2>3, SameClientLine
<1>16. Meets(u, r, y, k, b, s)
  <2>1. Once(r, s) /\ AllKnown(r, s, g)
    <3>1. /\ Once(q, s) /\ ~(Coming(q, s) /\ Announces(e, s)) => Once(r, s)
          /\ \A h : AllKnown(q, s, h) /\ Known(e, s, h) => AllKnown(r, s, h)
      BY PostedIs DEF Posts
    <3> QED
      BY <1>4, <1>11, <3>1, Zenon
  <2>2. Arriving(g, r, y[s], k[s], s)
    BY <2>1 DEF Arriving
  <2>3. Heard(g, b[s], z, s)
    BY DEF Heard
  <2>4. WorldOf(u, r, y, k, b)[s] = z
    BY <1>9, WorldAt
  <2> QED
    BY <2>2, <2>3, <2>4 DEF Meets
<1> QED
  BY <1>1, <1>3, <1>5, <1>7, <1>9, <1>11, <1>15, <1>16, ClientStep DEF OpenElsewhere

\* Its connection is closed.
LEMMA ClientLeaves ==
  ASSUME NEW u \in States, NEW q \in Seq(Completions), NEW x \in [Slots -> Bytes], NEW p, NEW a,
         Ordered(u, q, x, p, a), NEW s \in Slots, s \in u.closes,
         NEW v, v.conn = u.conn, v.ticket = u.ticket, v.tokens = u.tokens, v.batch = u.batch,
         v.recvs = u.recvs, v.closes = u.closes \ {s},
         NEW y \in [Slots -> Bytes],
         NEW k \in [Slots -> Peers], k[s] = "none",
         NEW b \in [Slots -> Seq(Asks)], b[s] = << >>, OthersSame(x, p, a, y, k, b, s)
  PROVE  Ordered(v, q, y, k, b)
<1>1. PICK g : g = u.conn[s].generation
  OBVIOUS
<1>2. p \in [Slots -> Peers] /\ a \in [Slots -> Seq(Asks)] /\ Tagged(u)
      /\ Lined(u, WorldOf(u, q, x, p, a), Done(q), u.batch, 1)
  BY DEF Ordered
<1>3. Handed(u, v, s)
  <2>1. Elsewhere(u, v, s)
    BY DEF Elsewhere, Same, SameWork
  <2>2. Tagged(v)
    BY <1>2, TaggedStays
  <2> QED
    BY <2>1, <2>2 DEF Handed
<1>4. \A o \in Slots : o # s => Unmoved(q, x, p, a, q, y, k, b, o)
  BY NothingPosted
<1>5. Unsaid(v, Done(q))
  BY <1>2 DEF Lined, Unsaid
<1>6. PICK w \in Worlds : w = Outside(g, q, x[s], p[s], a[s], s)
  BY <1>2, OutsideIs
<1>7. PICK z \in Worlds : z = Outside(g, q, y[s], k[s], b[s], s)
  BY <1>2, OutsideIs
<1>8. Line(u, s, w, Done(q))
  <2>1. WorldOf(u, q, x, p, a)[s] = w
    BY <1>1, <1>6, WorldAt
  <2> QED
    BY <1>2, <2>1 DEF Lined
<1>9. w.live /\ ~u.conn[s].inUse /\ u.conn[s].in = << >> /\ Past(u, s)
  BY <1>8 DEF Line, Owned
<1>10. ~Coming(q, s)
  <2>1. w.live = (p[s] # "none" /\ ~Coming(q, s))
    BY <1>6 DEF Outside
  <2> QED
    BY <1>9, <2>1
<1>11. ~z.live /\ ~z.over
  <2>1. z.live = (k[s] # "none" /\ ~Coming(q, s))
        /\ z.over = (b[s] # << >> /\ b[s][Len(b[s])][3] = StatusOnly)
    BY <1>7 DEF Outside
  <2> QED
    BY <2>1
<1>12. Line(v, s, z, Done(q))
  <2>1. Past(v, s)
    BY <1>9 DEF Past, Mine
  <2> QED
    BY <1>9, <1>11, <2>1 DEF Line, Owned
<1>13. Meets(v, q, y, k, b, s)
  <2>1. Arriving(g, q, x[s], p[s], s)
    BY <1>1 DEF Ordered, Meets
  <2>2. Arriving(g, q, y[s], k[s], s)
    BY <1>10, <2>1 DEF Arriving
  <2>3. Heard(g, b[s], z, s)
    BY DEF Heard
  <2>4. WorldOf(v, q, y, k, b)[s] = z
    BY <1>1, <1>7, WorldAt
  <2> QED
    BY <1>1, <2>2, <2>3, <2>4 DEF Meets
<1> QED
  BY <1>1, <1>3, <1>4, <1>5, <1>7, <1>12, <1>13, ClientStep DEF OpenElsewhere

\* It goes away, and its connection is still there.
LEMMA ClientShuts ==
  ASSUME NEW u, NEW q \in Seq(Completions), NEW x \in [Slots -> Bytes], NEW p, NEW a,
         Ordered(u, q, x, p, a), NEW s \in Slots, p[s] = "open",
         NEW k \in [Slots -> Peers], k[s] = "shut", \A o \in Slots : o # s => k[o] = p[o]
  PROVE  Ordered(u, q, x, k, a)
<1>1. PICK g : g = u.conn[s].generation
  OBVIOUS
<1>2. a \in [Slots -> Seq(Asks)] /\ Lined(u, WorldOf(u, q, x, p, a), Done(q), u.batch, 1)
  BY DEF Ordered
<1>3. Handed(u, u, s)
  BY NothingHanded
<1>4. \A o \in Slots : o # s => Unmoved(q, x, p, a, q, x, k, a, o)
  BY NothingPosted DEF OthersSame
<1>5. Unsaid(u, Done(q))
  BY <1>2 DEF Lined
<1>6. Outside(g, q, x[s], k[s], a[s], s) = Outside(g, q, x[s], p[s], a[s], s)
  BY DEF Outside
<1>7. WorldOf(u, q, x, p, a)[s] = Outside(g, q, x[s], p[s], a[s], s)
  BY <1>1, WorldAt
<1>8. Line(u, s, Outside(g, q, x[s], k[s], a[s], s), Done(q))
  BY <1>2, <1>6, <1>7 DEF Lined
<1>9. Meets(u, q, x, k, a, s)
  <2>1. Arriving(g, q, x[s], p[s], s) /\ Heard(g, a[s], WorldOf(u, q, x, p, a)[s], s)
    BY <1>1 DEF Ordered, Meets
  <2>2. Arriving(g, q, x[s], k[s], s)
    BY <2>1 DEF Arriving
  <2>3. WorldOf(u, q, x, k, a)[s] = Outside(g, q, x[s], k[s], a[s], s)
    BY <1>1, WorldAt
  <2> QED
    BY <1>1, <1>6, <1>7, <2>1, <2>2, <2>3 DEF Meets
<1> QED
  BY <1>1, <1>2, <1>3, <1>4, <1>5, <1>8, <1>9, ClientStep DEF OpenElsewhere

\* The ring does not know of the slot's client, or not any more.
LEMMA DeadLine ==
  ASSUME NEW u, NEW s, NEW w, NEW D, NEW E, Line(u, s, w, D), ~w.live, D \subseteq E
  PROVE  Line(u, s, w, E)
<1>1. Owned(u, s, w, E)
  BY DEF Line, Owned
<1> QED
  BY <1>1 DEF Line

\* The client gets an answer.
Gets(w, z, req) ==
  /\ z.turn = w.turn + 1 /\ z.live = w.live /\ z.rest = w.rest
  /\ z.over <=> req[3] = StatusOnly

With(D, t) == D \cup {t}

LEMMA AnsweredLine ==
  ASSUME NEW u, NEW s, NEW w \in Worlds, NEW z \in Worlds, NEW D, Line(u, s, w, D),
         NEW t \in Mine(u, s), t \notin D, w.live, w.turn # StatusOnly,
         NEW req, req = u.ticket[t].req, Gets(w, z, req), NEW E, E = With(D, t)
  PROVE  /\ Line(u, s, z, E) /\ ~w.over
         /\ \/ req = << s, u.conn[s].generation, w.turn >>
            \/ req = << s, u.conn[s].generation, StatusOnly >>
<1>1. PICK g : g = u.conn[s].generation
  OBVIOUS
<1>2. Owned(u, s, w, D)
  BY DEF Line
<1>3. Past(u, s) /\ Mine(u, s) = {t}
  BY <1>2 DEF Owned, Past
<1>4. ~w.over
  BY <1>2 DEF Owned
<1>5. \/ req = << s, g, w.turn >>
      \/ req = << s, g, StatusOnly >> /\ u.ticket[t].closeWhenWritten
  BY <1>1, <1>2 DEF Owned
<1>6. z.over => u.ticket[t].closeWhenWritten
  <2>1. << s, g, w.turn >>[3] = w.turn
    OBVIOUS
  <2> QED
    BY <1>5, <2>1 DEF Gets
<1>7. Mine(u, s) \ D = {t} /\ Mine(u, s) \ E = {}
  BY <1>3 DEF With
<1>8. Owned(u, s, z, E)
  BY <1>3, <1>7 DEF Owned
<1>9. ASSUME u.conn[s].inUse PROVE Served(u, s, z, E)
  <2>1. Served(u, s, w, D)
    BY <1>9 DEF Line
  <2>2. InStep(u.conn[s]) /\ (Mine(u, s) # {} <=> u.conn[s].sendInFlight)
    BY <2>1 DEF Served
  <2>3. u.conn[s].sendInFlight /\ ~u.conn[s].deferred
    BY <1>3, <2>2 DEF InStep
  <2>4. z.over => Ending(u, s)
    BY <1>6 DEF Ending
  <2>5. \A k \in u.tokens : ~(k.slot = s /\ k.generation = g)
    BY <1>1, <2>1, <2>3 DEF Served
  <2>6. Start(u, s, w, D) = w.turn + 1 /\ Start(u, s, z, E) = z.turn
    BY <1>7, <2>3 DEF Start
  <2>7. Start(u, s, w, D) = Start(u, s, z, E) /\ z.rest = w.rest
    BY <2>6 DEF Gets
  <2> QED
    BY <1>1, <2>1, <2>2, <2>3, <2>4, <2>5, <2>7 DEF Served
<1>10. Line(u, s, z, E)
  <2>1. z.live = w.live
    BY DEF Gets
  <2> QED
    BY <1>8, <1>9, <2>1 DEF Line
<1> QED
  BY <1>1, <1>4, <1>5, <1>10

\* A client whose answer is new.
LEMMA HeardMore ==
  ASSUME NEW a \in Seq(Asks), NEW g, NEW s, NEW w, NEW z, Heard(g, a, w, s), z.live,
         a # << >> => a[Len(a)][3] # StatusOnly,
         NEW req \in Asks, NEW n \in Nat, n = Len(a) + 1,
         req = << s, g, n >> \/ req = << s, g, StatusOnly >>,
         NEW b, b = Append(a, req)
  PROVE  Heard(g, b, z, s)
<1>1. PICK m \in Nat : m = Len(a)
  BY LenProperties
<1>2. DOMAIN a = 1 .. m /\ DOMAIN b = 1 .. n /\ n = m + 1
  BY <1>1, AppendProperties, LenProperties
<1>3. b[n] = req /\ Len(b) = n /\ \A i \in 1 .. m : b[i] = a[i]
  BY <1>1, <1>2, AppendProperties
<1>4. ASSUME NEW i \in 1 .. m PROVE a[i] = << s, g, i >>
  <2>1. a # << >>
    BY <1>1, <1>4
  <2>2. a[i] = << s, g, i >> \/ (a[i] = << s, g, StatusOnly >> /\ i = Len(a))
    BY <1>2, <1>4 DEF Heard
  <2>3. << s, g, StatusOnly >>[3] = StatusOnly
    OBVIOUS
  <2> QED
    BY <2>1, <2>2, <2>3
<1>5. \A i \in 1 .. n : i \in 1 .. m \/ i = n
  BY <1>2
<1>6. ASSUME NEW i \in 1 .. n
      PROVE  b[i] = << s, g, i >> \/ (b[i] = << s, g, StatusOnly >> /\ i = n)
  <2>1. CASE i \in 1 .. m
    BY <1>3, <1>4, <2>1
  <2>2. CASE i = n
    BY <1>3, <2>2
  <2> QED
    BY <1>5, <2>1, <2>2
<1> QED
  BY <1>2, <1>3, <1>6 DEF Heard

\* The ticket is of the connection the kernel has in the slot.
Theirs(u, q, p, t, s) ==
  p[s] # "none" /\ u.ticket[t].generation = Current(q, s, u.conn[s].generation)

LEMMA TicketTheirs ==
  ASSUME NEW u \in States, NEW q \in Seq(Completions), NEW x \in [Slots -> Bytes], NEW p, NEW a,
         Ordered(u, q, x, p, a), NEW s \in Slots, NEW t \in Tickets, For(u, t, s),
         NEW g \in Nat, g = u.conn[s].generation
  PROVE  \E w \in Worlds :
           /\ w = Outside(g, q, x[s], p[s], a[s], s) /\ w = WorldOf(u, q, x, p, a)[s]
           /\ Line(u, s, w, Done(q)) /\ Heard(g, a[s], w, s)
           /\ Arriving(g, q, x[s], p[s], s)
           /\ w.turn = Len(a[s]) + 1
           /\ (w.over <=> a[s] # << >> /\ a[s][Len(a[s])][3] = StatusOnly)
           /\ Theirs(u, q, p, t, s) => ~Coming(q, s) /\ t \in Mine(u, s) /\ w.live
           /\ ~Theirs(u, q, p, t, s) /\ t \in Mine(u, s) => ~w.live
<1>1. p \in [Slots -> Peers] /\ a \in [Slots -> Seq(Asks)]
      /\ Lined(u, WorldOf(u, q, x, p, a), Done(q), u.batch, 1)
  BY DEF Ordered
<1>2. PICK w \in Worlds : w = Outside(g, q, x[s], p[s], a[s], s)
  BY <1>1, OutsideIs
<1>3. WorldOf(u, q, x, p, a)[s] = w
  BY <1>2, WorldAt
<1>4. Line(u, s, w, Done(q))
  BY <1>1, <1>3 DEF Lined
<1>5. Arriving(g, q, x[s], p[s], s) /\ Heard(g, a[s], w, s)
  BY <1>3 DEF Ordered, Meets
<1>6. w.live = (p[s] # "none" /\ ~Coming(q, s)) /\ w.turn = Len(a[s]) + 1
      /\ w.over = (a[s] # << >> /\ a[s][Len(a[s])][3] = StatusOnly)
  BY <1>2 DEF Outside
<1>7. PICK h \in Nat : h = u.ticket[t].generation
  BY StatesAre DEF TicketStates
<1>8. h <= g
  BY <1>4, <1>7 DEF Line, Owned, Past, For
<1>9. t \in Mine(u, s) <=> h = g
  BY <1>7 DEF Mine, For
<1>10. ASSUME Theirs(u, q, p, t, s) PROVE ~Coming(q, s) /\ t \in Mine(u, s) /\ w.live
  <2>1. p[s] # "none" /\ h = Current(q, s, g)
    BY <1>7, <1>10 DEF Theirs
  <2>2. ~Coming(q, s)
    <3> SUFFICES ASSUME Coming(q, s) PROVE FALSE
      OBVIOUS
    <3>1. h = g + 1
      BY <2>1 DEF Current
    <3> QED
      BY <1>8, <3>1
  <2>3. h = g
    BY <2>1, <2>2 DEF Current
  <2> QED
    BY <1>6, <1>9, <2>1, <2>2, <2>3
<1>11. ASSUME ~Theirs(u, q, p, t, s), t \in Mine(u, s) PROVE ~w.live
  <2>1. h = g
    BY <1>9, <1>11
  <2>2. ~Coming(q, s) => Current(q, s, g) = g
    BY DEF Current
  <2>3. p[s] = "none" \/ Coming(q, s)
    BY <1>7, <1>11, <2>1, <2>2 DEF Theirs
  <2> QED
    BY <1>6, <2>3
<1> QED
  BY <1>2, <1>3, <1>4, <1>5, <1>6, <1>10, <1>11

\* A send ends, and the client gets nothing.
LEMMA SentNothing ==
  ASSUME NEW u \in States, NEW q, NEW x \in [Slots -> Bytes], NEW p, NEW a,
         Ordered(u, q, x, p, a), NEW s \in Slots, NEW t \in Tickets, For(u, t, s), u.ticket[t].slot # NoSlot,
         NEW e \in Sent, NEW r, Posts(q, e, r), e.slot = s, e.ticket = t,
         e.res # "all" \/ ~Theirs(u, q, p, t, s),
         NEW v, Everywhere(u, v), v.conn = u.conn
  PROVE  Ordered(v, r, x, p, a)
<1>1. PICK g \in Nat : g = u.conn[s].generation
  BY ConnIs
<1>2. q \in Seq(Completions)
  BY DEF Posts
<1>3. PICK w \in Worlds :
         /\ w = Outside(g, q, x[s], p[s], a[s], s) /\ w = WorldOf(u, q, x, p, a)[s]
         /\ Line(u, s, w, Done(q)) /\ Heard(g, a[s], w, s)
         /\ Arriving(g, q, x[s], p[s], s)
         /\ ~Theirs(u, q, p, t, s) /\ t \in Mine(u, s) => ~w.live
  BY <1>1, <1>2, TicketTheirs
<1>4. Handed(u, v, s) /\ Same(u, v, s)
  BY EverywhereHanded
<1>5. \A o \in Slots : o # s => Unmoved(q, x, p, a, r, x, p, a, o)
  BY PostedUnmoved
<1>6. ~Announces(e, s) /\ Known(e, s, g) /\ Carries(e, s, g) = << >>
  BY DEF Announces, Known, Carries, Sent
<1>7. Outside(g, r, x[s], p[s], a[s], s) = w
  <2>1. Outside(g, r, x[s], p[s], a[s], s) = Outside(g, q, x[s], p[s], a[s], s)
    BY <1>6, OutsidePosted
  <2> QED
    BY <1>3, <2>1
<1>8. Done(r) = IF e.res = "all" THEN Done(q) \cup {t} ELSE Done(q)
  BY PostedIs DEF Posts, Wrote, Sent
<1>9. p \in [Slots -> Peers] /\ a \in [Slots -> Seq(Asks)]
      /\ Lined(u, WorldOf(u, q, x, p, a), Done(q), u.batch, 1)
  BY DEF Ordered
<1>10. OpenElsewhere(u, q, r, s)
  BY <1>8 DEF Mine, For, OpenElsewhere
<1>11. Unsaid(v, Done(r))
  <2>1. Unsaid(v, Done(q))
    BY <1>9, SameEverywhere DEF Lined
  <2>2. v.ticket[t].slot = s
    BY DEF Everywhere, For
  <2> QED
    BY <1>8, <2>1, <2>2 DEF Unsaid
<1>12. Line(u, s, w, Done(r))
  <2>1. CASE t \in Mine(u, s) /\ e.res = "all"
    BY <1>3, <1>8, <2>1, DeadLine
  <2>2. CASE t \notin Mine(u, s) \/ e.res # "all"
    <3>1. Mine(u, s) \ Done(q) = Mine(u, s) \ Done(r)
      BY <1>8, <2>2
    <3> QED
      BY <1>3, <3>1, LineDone
  <2> QED
    BY <2>1, <2>2
<1>13. Line(v, s, Outside(g, r, x[s], p[s], a[s], s), Done(r))
  BY <1>4, <1>7, <1>12, SameLine
<1>14. Meets(v, r, x, p, a, s)
  <2>1. Arriving(g, r, x[s], p[s], s)
    BY <1>3, <1>6, ArrivingPosted
  <2>2. WorldOf(v, r, x, p, a)[s] = w
    BY <1>1, <1>7, WorldAt
  <2> QED
    BY <1>1, <1>3, <2>1, <2>2 DEF Meets
<1> QED
  BY <1>1, <1>4, <1>5, <1>9, <1>10, <1>11, <1>13, <1>14, ClientStep

Answered(a, s, req, b) == b = [a EXCEPT ![s] = Append(@, req)]

\* A send ends, and the client has its response.
LEMMA SentAll ==
  ASSUME NEW u \in States, NEW q, NEW x \in [Slots -> Bytes], NEW p, NEW a,
         Ordered(u, q, x, p, a), NEW s \in Slots, NEW t \in Tickets, For(u, t, s),
         t \notin Done(q),
         NEW e \in Sent, NEW r, Posts(q, e, r), e.slot = s, e.ticket = t,
         e.res = "all", Theirs(u, q, p, t, s),
         NEW b, Answered(a, s, u.ticket[t].req, b),
         NEW v, Everywhere(u, v), v.conn = u.conn
  PROVE  Ordered(v, r, x, p, b)
<1>1. PICK g \in Nat : g = u.conn[s].generation
  BY ConnIs
<1>2. q \in Seq(Completions) /\ r \in Seq(Completions)
  BY AppendProperties DEF Posts, Completions
<1>3. PICK w \in Worlds :
         /\ w = Outside(g, q, x[s], p[s], a[s], s) /\ w = WorldOf(u, q, x, p, a)[s]
         /\ Line(u, s, w, Done(q)) /\ Heard(g, a[s], w, s)
         /\ Arriving(g, q, x[s], p[s], s)
         /\ w.turn = Len(a[s]) + 1
         /\ (w.over <=> a[s] # << >> /\ a[s][Len(a[s])][3] = StatusOnly)
         /\ ~Coming(q, s) /\ t \in Mine(u, s) /\ w.live
  BY <1>1, <1>2, TicketTheirs
<1>4. p \in [Slots -> Peers] /\ a \in [Slots -> Seq(Asks)]
      /\ Lined(u, WorldOf(u, q, x, p, a), Done(q), u.batch, 1)
  BY DEF Ordered
<1>5. PICK c \in Seq(Asks) : c = a[s]
  BY <1>4
<1>6. PICK n \in Nat : n = Len(c) + 1 /\ n # StatusOnly
  BY LenProperties DEF StatusOnly
<1>7. PICK req : req = u.ticket[t].req
  OBVIOUS
<1>8. PICK z : z = [turn |-> n + 1, over |-> req[3] = StatusOnly, live |-> w.live, rest |-> w.rest]
  OBVIOUS
<1>9. w.turn = n
  BY <1>3, <1>5, <1>6
<1>10. z \in Worlds /\ z.turn = n + 1 /\ z.live = w.live /\ z.rest = w.rest
       /\ z.over = (req[3] = StatusOnly)
  <2>1. n + 1 \in Nat /\ w.live \in BOOLEAN /\ w.rest \in Bytes /\ (req[3] = StatusOnly) \in BOOLEAN
    BY DEF Worlds
  <2> HIDE DEF Bytes
  <2> QED
    BY <1>8, <2>1 DEF Worlds
<1>11. PICK E : E = With(Done(q), t)
  OBVIOUS
<1>12. Gets(w, z, req)
  BY <1>9, <1>10 DEF Gets
<1>13. /\ Line(u, s, z, E) /\ ~w.over
       /\ req = << s, g, n >> \/ req = << s, g, StatusOnly >>
  <2>1. w.turn # StatusOnly
    BY <1>6, <1>9
  <2>2. /\ Line(u, s, z, E) /\ ~w.over
        /\ \/ req = << s, u.conn[s].generation, w.turn >>
           \/ req = << s, u.conn[s].generation, StatusOnly >>
    BY <1>3, <1>7, <1>10, <1>11, <1>12, <2>1, AnsweredLine
  <2> QED
    BY <1>1, <1>9, <2>2
<1>14. req \in Asks
  BY <1>13 DEF Asks, StatusOnly
<1>15. PICK d \in Seq(Asks) : d = Append(c, req)
  BY <1>14, AppendProperties
<1>16. b = [a EXCEPT ![s] = d]
  BY <1>4, <1>5, <1>7, <1>15 DEF Answered
<1>17. b \in [Slots -> Seq(Asks)] /\ b[s] = d /\ \A o \in Slots : o # s => b[o] = a[o]
  BY <1>4, <1>16
<1>18. Len(d) = n /\ d[n] = req
  BY <1>6, <1>14, <1>15, AppendProperties
<1>19. Outside(g, r, x[s], p[s], b[s], s) = z
  <2>1. ~Announces(e, s) /\ Carries(e, s, g) = << >>
    BY DEF Announces, Carries, Sent
  <2>2. Outside(g, r, x[s], p[s], d, s) = Outside(g, q, x[s], p[s], d, s)
    BY <2>1, OutsidePosted
  <2>3. PICK o \in Worlds : o = Outside(g, q, x[s], p[s], d, s)
    BY <1>2, OutsideIs
  <2>4. /\ o.turn = Len(d) + 1 /\ o.over = (d # << >> /\ d[Len(d)][3] = StatusOnly)
        /\ o.live = (p[s] # "none" /\ ~Coming(q, s)) /\ o.rest = Pending(q, s, g) \o x[s]
    BY <2>3 DEF Outside
  <2>5. w.live = (p[s] # "none" /\ ~Coming(q, s)) /\ w.rest = Pending(q, s, g) \o x[s]
    <3>1. w = Outside(g, q, x[s], p[s], a[s], s)
      BY <1>3
    <3>2. w.live = (p[s] # "none" /\ ~Coming(q, s))
      BY <3>1 DEF Outside
    <3>3. w.rest = Pending(q, s, g) \o x[s]
      BY <3>1 DEF Outside
    <3> QED
      BY <3>2, <3>3
  <2>6. o.turn = z.turn /\ o.live = z.live /\ o.rest = z.rest
    BY <1>10, <1>18, <2>4, <2>5
  <2>7. d # << >>
    BY <1>6, <1>18, EmptySeq DEF StatusOnly
  <2>8. o.over = z.over
    BY <1>10, <1>18, <2>4, <2>7
  <2>9. o = z
    <3> HIDE DEF Bytes
    <3> QED
      BY <1>10, <2>6, <2>8 DEF Worlds
  <2> QED
    BY <1>17, <2>2, <2>3, <2>9
<1>20. Handed(u, v, s) /\ Same(u, v, s)
  BY EverywhereHanded
<1>21. \A o \in Slots : o # s => Unmoved(q, x, p, a, r, x, p, b, o)
  BY <1>17, PostedUnmoved
<1>22. Done(r) = E
  BY <1>11, PostedIs DEF Posts, Wrote, Sent, With
<1>23. OpenElsewhere(u, q, r, s)
  BY <1>11, <1>22 DEF Mine, For, OpenElsewhere, With
<1>24. Unsaid(v, Done(r))
  <2>1. Unsaid(v, Done(q))
    BY <1>4, SameEverywhere DEF Lined
  <2>2. v.ticket[t].slot = s
    BY DEF Everywhere, For
  <2> QED
    BY <1>11, <1>22, <2>1, <2>2 DEF Unsaid, With
<1>25. Line(v, s, Outside(g, r, x[s], p[s], b[s], s), Done(r))
  BY <1>13, <1>19, <1>20, <1>22, SameLine
<1>26. Meets(v, r, x, p, b, s)
  <2>1. Arriving(g, r, x[s], p[s], s)
    <3>1. ~Announces(e, s) /\ Known(e, s, g)
      BY DEF Announces, Known, Sent
    <3> QED
      BY <1>3, <3>1, ArrivingPosted
  <2>2. WorldOf(v, r, x, p, b)[s] = z
    BY <1>1, <1>19, WorldAt
  <2>3. Heard(g, d, z, s)
    <3>1. c # << >> => c[Len(c)][3] # StatusOnly
      BY <1>3, <1>5, <1>13
    <3>2. z.live /\ Heard(g, c, w, s)
      BY <1>3, <1>5, <1>10
    <3> QED
      BY <1>6, <1>13, <1>14, <1>15, <3>1, <3>2, HeardMore
  <2> QED
    BY <1>1, <1>17, <2>1, <2>2, <2>3 DEF Meets
<1> QED
  BY <1>1, <1>4, <1>17, <1>20, <1>21, <1>23, <1>24, <1>25, <1>26, ClientStep

LEMMA OrderedIs ==
  ASSUME RingInv, OrderInv
  PROVE  /\ st \in States /\ cq \in Seq(Completions) /\ stream \in [Slots -> Bytes]
         /\ peer \in [Slots -> Peers] /\ answers \in [Slots -> Seq(Asks)]
         /\ Tagged(st) /\ Ordered(st, cq, stream, peer, answers)
  BY RingIs DEF RingInv, OrderInv, Ordered

LEMMA IncarnationIs ==
  ASSUME NEW s
  PROVE  (Accepting(s) <=> Coming(cq, s)) /\ (st.conn[s].generation \in Nat =>
            Incarnation(s) = Current(cq, s, st.conn[s].generation))
<1>1. Accepting(s) <=> Coming(cq, s)
  BY DEF Accepting, Coming
<1> QED
  BY <1>1 DEF Incarnation, Current

LEMMA CutIs ==
  ASSUME NEW x \in Bytes, NEW n \in 1 .. Len(x), NEW data, data = SubSeq(x, 1, n),
         NEW rest, rest = SubSeq(x, n + 1, Len(x))
  PROVE  data \in Bytes /\ data # << >> /\ rest \in Bytes /\ Cut(x, data, rest)
<1>1. n \in Nat /\ n >= 1 /\ n <= Len(x) /\ Len(x) \in Nat
  BY BytesTyped
<1>2. rest \in Bytes /\ Len(rest) = Len(x) - n /\ \A i \in 1 .. Len(x) - n : rest[i] = x[n + i]
  BY <1>1, Behind
<1>3. /\ data \in Seq(Units) /\ Len(data) = n /\ \A i \in 1 .. n : data[i] = x[i]
  <2>1. \A i \in 1 .. n : x[i] \in Units
    BY <1>1, BytesTyped
  <2> QED
    BY <1>1, <2>1, SubSeqProperties
<1>4. data \in Bytes /\ data # << >>
  <2>1. data \in Bytes
    BY <1>3 DEF Bytes
  <2>2. Len(<< >>) = 0 /\ Len(data) # 0
    BY <1>1, <1>3
  <2> QED
    BY <2>1, <2>2
<1>5. PICK d \in Bytes, z \in Bytes : d = data /\ z = rest
  BY <1>2, <1>4
<1>6. PICK y \in Bytes :
        /\ y = d \o z /\ Len(y) = n + Len(z) /\ (\A i \in 1 .. n : y[i] = d[i])
        /\ \A i \in 1 .. Len(z) : y[n + i] = z[i]
  <2>1. PICK y : y = d \o z
    OBVIOUS
  <2>2. y \in Bytes /\ Len(y) = Len(d) + Len(z) /\ \A i \in 1 .. Len(d) : y[i] = d[i]
    BY <2>1, Concats, ZenonT(30)
  <2>3. \A i \in 1 .. Len(z) : y[Len(d) + i] = z[i]
    BY <2>1, ConcatEnd
  <2>4. Len(d) = n
    BY <1>3, <1>5
  <2> QED
    BY <2>1, <2>2, <2>3, <2>4
<1>7. Len(y) = Len(x)
  BY <1>1, <1>2, <1>5, <1>6
<1>8. ASSUME NEW i \in 1 .. Len(x) PROVE y[i] = x[i]
  <2>1. CASE i <= n
    BY <1>3, <1>5, <1>6, <2>1
  <2>2. CASE ~(i <= n)
    <3>1. PICK j \in Nat : j = i - n
      BY <1>1, <2>2
    <3>2. j \in 1 .. Len(x) - n /\ j \in 1 .. Len(rest) /\ n + j = i
      BY <1>1, <1>2, <2>2, <3>1
    <3> QED
      BY <1>2, <1>5, <1>6, <3>2
  <2> QED
    BY <2>1, <2>2
<1>9. x = y
  BY <1>6, <1>7, <1>8, SeqEqual DEF Bytes
<1> QED
  BY <1>2, <1>4, <1>5, <1>6, <1>9 DEF Cut

LEMMA KernelReceivesOrdered ==
  ASSUME RingInv, OrderInv, NEW s \in Slots, KernelReceives(s)
  PROVE  OrderInv'
<1>1. PICK i \in DOMAIN st.recvs[s], n \in 1 .. Len(stream[s]), more \in BOOLEAN :
        /\ Live(s, i)
        /\ cq' = Append(cq, RecvCompletion(s, st.recvs[s][i], "data",
                                           SubSeq(stream[s], 1, n), more))
        /\ st' = [st EXCEPT !.buffers = @ - 1,
                            !.recvs[s] = IF more THEN @ ELSE RemoveAt(@, i)]
        /\ stream' = [stream EXCEPT ![s] = SubSeq(@, n + 1, Len(@))]
  BY Zenon DEF KernelReceives
<1>2. peer' = peer /\ answers' = answers
  BY DEF KernelReceives
<1>3. /\ st \in States /\ cq \in Seq(Completions) /\ stream \in [Slots -> Bytes]
      /\ Tagged(st) /\ Ordered(st, cq, stream, peer, answers)
  BY OrderedIs
<1>4. PICK g \in Nat : g = st.conn[s].generation
  BY <1>3, ConnIs
<1>5. PICK tag : tag = st.recvs[s][i]
  OBVIOUS
<1>6. PICK left : left = IF more THEN st.recvs[s] ELSE RemoveAt(st.recvs[s], i)
  OBVIOUS
<1>7. tag \in Tags(g) /\ left \in Seq(Tags(g))
  BY <1>3, <1>4, <1>5, <1>6, TagsLeft
<1>8. PICK v : v = [st EXCEPT !.buffers = @ - 1, !.recvs[s] = left]
  OBVIOUS
<1>9. st' = v
  BY <1>1, <1>3, <1>6, <1>8 DEF States
<1>10. /\ v.conn = st.conn /\ v.ticket = st.ticket /\ v.tokens = st.tokens
       /\ v.closes = st.closes /\ v.batch = st.batch /\ v.recvs = [st.recvs EXCEPT ![s] = left]
  BY <1>3, <1>8 DEF States
<1>11. Everywhere(st, v)
  <2>1. \A j \in DOMAIN left : left[j] < TagWidth /\ (g < TagWidth => left[j] <= g)
    BY <1>7, ElementOfSeq, LenProperties DEF Tags
  <2> QED
    BY <1>3, <1>4, <1>10, <2>1, FewerReceives, ZenonT(30)
<1>12. v \in States
  BY <1>9, KernelReceivesKeeps, RingIs DEF RingInv, Fine, Tidy
<1>13. PICK x \in Bytes : x = stream[s]
  BY <1>3
<1>14. PICK data \in Bytes, rest \in Bytes :
         /\ data = SubSeq(x, 1, n) /\ rest = SubSeq(x, n + 1, Len(x))
         /\ data # << >> /\ Cut(x, data, rest)
  <2>1. n \in 1 .. Len(x)
    BY <1>13
  <2> QED
    BY <2>1, CutIs
<1>15. PICK e : e = RecvCompletion(s, tag, "data", data, more)
  OBVIOUS
<1>16. e \in Recvs /\ e.slot = s /\ e.data = data /\ e.tag = tag
  <2>1. tag \in Nat
    BY <1>7 DEF Tags
  <2> HIDE DEF Bytes
  <2> QED
    BY <1>14, <1>15, <2>1 DEF RecvCompletion, Recvs
<1>17. PICK r : r = Append(cq, e)
  OBVIOUS
<1>18. cq' = r
  BY <1>1, <1>5, <1>13, <1>14, <1>15, <1>17
<1>19. Posts(cq, e, r)
  BY <1>3, <1>16, <1>17 DEF Posts, Completions
<1>20. PICK y : y = [stream EXCEPT ![s] = rest]
  OBVIOUS
<1>21. stream' = y
  BY <1>1, <1>13, <1>14, <1>20
<1>22. y \in [Slots -> Bytes] /\ y[s] = rest /\ \A o \in Slots : o # s => y[o] = stream[o]
  BY <1>3, <1>20
<1>23. e.tag = Tag(Current(cq, s, g)) /\ peer[s] # "none"
  BY <1>1, <1>4, <1>5, <1>16, IncarnationIs DEF Live
<1>24. Cut(stream[s], e.data, rest)
  BY <1>13, <1>14, <1>16
<1>25. e.tag \in Tags(g)
  BY <1>7, <1>16
<1>26. Ordered(v, r, y, peer, answers)
  BY <1>3, <1>4, <1>10, <1>11, <1>12, <1>16, <1>19, <1>22, <1>23, <1>24, <1>25, BytesReceived, SMTT(30)
<1> QED
  BY <1>2, <1>9, <1>18, <1>21, <1>26 DEF OrderInv

LEMMA KernelClosesOrdered ==
  ASSUME RingInv, OrderInv, NEW s \in Slots, KernelCloses(s)
  PROVE  OrderInv'
<1>1. /\ st \in States /\ cq \in Seq(Completions) /\ stream \in [Slots -> Bytes]
      /\ peer \in [Slots -> Peers] /\ answers \in [Slots -> Seq(Asks)]
      /\ Ordered(st, cq, stream, peer, answers)
  BY OrderedIs
<1>2. PICK v : v = [st EXCEPT !.closes = @ \ {s}]
  OBVIOUS
<1>3. /\ v.conn = st.conn /\ v.ticket = st.ticket /\ v.tokens = st.tokens
      /\ v.batch = st.batch /\ v.recvs = st.recvs /\ v.closes = st.closes \ {s}
  BY <1>1, <1>2 DEF States
<1>4. s \in st.closes /\ st' = v /\ cq' = cq
  BY <1>2 DEF KernelCloses
<1>5. PICK y, k, b : y = [stream EXCEPT ![s] = << >>] /\ k = [peer EXCEPT ![s] = "none"]
                     /\ b = [answers EXCEPT ![s] = << >>]
  OBVIOUS
<1>6. stream' = y /\ peer' = k /\ answers' = b
  BY <1>5 DEF KernelCloses
<1>7. y \in [Slots -> Bytes]
  BY <1>1, <1>5, NothingJoined
<1>8. k \in [Slots -> Peers] /\ k[s] = "none"
  BY <1>1, <1>5 DEF Peers
<1>9. b \in [Slots -> Seq(Asks)] /\ b[s] = << >>
  BY <1>1, <1>5
<1>10. OthersSame(stream, peer, answers, y, k, b, s)
  BY <1>1, <1>5 DEF OthersSame
<1>11. Ordered(v, cq, y, k, b)
  BY <1>1, <1>3, <1>4, <1>7, <1>8, <1>9, <1>10, ClientLeaves
<1> QED
  BY <1>4, <1>6, <1>11 DEF OrderInv

LEMMA ClientClosesOrdered ==
  ASSUME RingInv, OrderInv, NEW s \in Slots, ClientCloses(s)
  PROVE  OrderInv'
<1>1. /\ st \in States /\ cq \in Seq(Completions) /\ stream \in [Slots -> Bytes]
      /\ peer \in [Slots -> Peers] /\ Ordered(st, cq, stream, peer, answers)
  BY OrderedIs
<1>2. PICK k : k = [peer EXCEPT ![s] = "shut"]
  OBVIOUS
<1>3. /\ peer[s] = "open" /\ peer' = k
      /\ st' = st /\ cq' = cq /\ stream' = stream /\ answers' = answers
  BY <1>2 DEF ClientCloses
<1>4. k \in [Slots -> Peers] /\ k[s] = "shut" /\ \A o \in Slots : o # s => k[o] = peer[o]
  BY <1>1, <1>2 DEF Peers
<1>5. Ordered(st, cq, stream, k, answers)
  BY <1>1, <1>3, <1>4, ClientShuts
<1> QED
  BY <1>3, <1>5 DEF OrderInv

LEMMA KernelAcceptsOrdered ==
  ASSUME ClientsFit, RingInv, OrderInv, NEW s \in Slots, KernelAccepts(s)
  PROVE  OrderInv'
<1>1. /\ st \in States /\ cq \in Seq(Completions) /\ stream \in [Slots -> Bytes]
      /\ peer \in [Slots -> Peers] /\ answers \in [Slots -> Seq(Asks)]
      /\ Ordered(st, cq, stream, peer, answers)
  BY OrderedIs
<1>2. PICK g \in Nat : g = st.conn[s].generation
  BY <1>1, ConnIs
<1>3. peer[s] = "none" /\ st' = st
  BY DEF KernelAccepts
<1>4. ~Coming(cq, s)
  BY <1>1, <1>3 DEF Ordered, Meets, Arriving
<1>5. PICK h \in Nat : h = g + 1
  OBVIOUS
<1>6. Incarnation(s) + 1 = h
  <2>1. Incarnation(s) = g
    BY <1>2, <1>4, IncarnationIs DEF Current
  <2> QED
    BY <1>5, <2>1
<1>7. PICK next \in DOMAIN Scripts : \E script \in Scripts[next] :
        stream' = [stream EXCEPT ![s] = FlattenSeq(
                    [n \in DOMAIN script |-> Request(RequestOf(s, h, n), script[n])])]
  BY <1>6 DEF KernelAccepts
<1>8. PICK script \in Scripts[next] :
        stream' = [stream EXCEPT ![s] = FlattenSeq(
                    [n \in DOMAIN script |-> Request(RequestOf(s, h, n), script[n])])]
  BY <1>7
<1>9. PICK bytes \in Bytes : bytes = FlattenSeq(
        [n \in DOMAIN script |-> Request(RequestOf(s, h, n), script[n])])
  BY ScriptIs
<1>10. Len(bytes) <= API_MAX_REQUEST_SIZE /\ InLine(bytes, s, h, 1)
  <2>1. Len(bytes) <= API_MAX_REQUEST_SIZE
    BY <1>9 DEF ClientsFit
  <2>2. InLine(bytes, s, h, 1)
    BY <1>9, ScriptInLine
  <2> QED
    BY <2>1, <2>2
<1>11. PICK e : e = [op |-> "accept", slot |-> s]
  OBVIOUS
<1>12. e \in Accepts /\ e.slot = s
  BY <1>11 DEF Accepts
<1>13. PICK r : r = Append(cq, e)
  OBVIOUS
<1>14. cq' = r
  BY <1>11, <1>13 DEF KernelAccepts
<1>15. Posts(cq, e, r)
  BY <1>1, <1>12, <1>13 DEF Posts, Completions
<1>16. PICK y, k, b : y = [stream EXCEPT ![s] = bytes] /\ k = [peer EXCEPT ![s] = "open"]
                      /\ b = [answers EXCEPT ![s] = << >>]
  OBVIOUS
<1>17. stream' = y /\ peer' = k /\ answers' = b
  BY <1>8, <1>9, <1>16 DEF KernelAccepts
<1>18. y \in [Slots -> Bytes] /\ y[s] = bytes
  BY <1>1, <1>16
<1>19. k \in [Slots -> Peers] /\ k[s] = "open"
  BY <1>1, <1>16 DEF Peers
<1>20. b \in [Slots -> Seq(Asks)] /\ b[s] = << >>
  BY <1>1, <1>16
<1>21. OthersSame(stream, peer, answers, y, k, b, s)
  BY <1>1, <1>16 DEF OthersSame
<1>22. Len(y[s]) <= API_MAX_REQUEST_SIZE /\ InLine(y[s], s, g + 1, 1)
  BY <1>5, <1>10, <1>18
<1>23. Ordered(st, r, y, k, b)
  BY <1>1, <1>2, <1>3, <1>12, <1>15, <1>18, <1>19, <1>20, <1>21, <1>22, ClientArrives
<1> QED
  BY <1>3, <1>14, <1>17, <1>23 DEF OrderInv

LEMMA KernelSendsOrdered ==
  ASSUME RingInv, OrderInv, NEW t \in Tickets, KernelSends(t)
  PROVE  OrderInv'
<1>1. /\ st \in States /\ cq \in Seq(Completions) /\ stream \in [Slots -> Bytes]
      /\ Ordered(st, cq, stream, peer, answers)
  BY OrderedIs
<1>2. PICK s \in Slots : s = st.ticket[t].slot
  BY RingIs DEF Accounted, KernelSends
<1>3. t \in st.sends /\ stream' = stream /\ peer' = peer
  BY DEF KernelSends
<1>4. t \notin Done(cq)
  BY <1>3, RingIs, DoneReturns DEF Accounted
<1>5. For(st, t, s) /\ st.ticket[t].slot # NoSlot
  BY <1>2, SlotsAre DEF For
<1>6. PICK v : v = [st EXCEPT !.sends = @ \ {t}]
  OBVIOUS
<1>7. st' = v
  BY <1>6 DEF KernelSends
<1>8. /\ v.conn = st.conn /\ v.ticket = st.ticket /\ v.tokens = st.tokens
      /\ v.batch = st.batch /\ v.recvs = st.recvs /\ v.closes = st.closes
  BY <1>1, <1>6 DEF States
<1>9. Everywhere(st, v)
  BY <1>8, TaggedStays DEF Everywhere, SameWork
<1>10. Theirs(st, cq, peer, t, s) <=>
         peer[st.ticket[t].slot] # "none"
         /\ st.ticket[t].generation = Incarnation(st.ticket[t].slot)
  <2>1. Incarnation(s) = Current(cq, s, st.conn[s].generation)
    BY <1>1, ConnIs, IncarnationIs
  <2> QED
    BY <1>2, <2>1 DEF Theirs
<1>11. PICK res \in {"all", "part", "error"} :
         /\ cq' = Append(cq, [op |-> "send", slot |-> s, ticket |-> t, res |-> res])
         /\ answers' = IF Theirs(st, cq, peer, t, s) /\ res = "all"
                       THEN [answers EXCEPT ![s] = Append(@, st.ticket[t].req)]
                       ELSE answers
  BY <1>2, <1>10 DEF KernelSends
<1>12. PICK e : e = [op |-> "send", slot |-> s, ticket |-> t, res |-> res]
  OBVIOUS
<1>13. e \in Sent /\ e.slot = s /\ e.ticket = t /\ e.res = res
  BY <1>12 DEF Sent
<1>14. PICK r : r = Append(cq, e)
  OBVIOUS
<1>15. cq' = r
  BY <1>11, <1>12, <1>14
<1>16. Posts(cq, e, r)
  BY <1>1, <1>13, <1>14 DEF Posts, Completions
<1>17. CASE Theirs(st, cq, peer, t, s) /\ res = "all"
  <2>1. PICK b : b = answers'
    OBVIOUS
  <2>2. Answered(answers, s, st.ticket[t].req, b)
    BY <1>11, <1>17, <2>1 DEF Answered
  <2>3. e.res = "all"
    BY <1>13, <1>17
  <2>4. Ordered(v, r, stream, peer, b)
    BY <1>1, <1>4, <1>5, <1>8, <1>9, <1>13, <1>16, <1>17, <2>2, <2>3, SentAll
  <2> QED
    BY <1>3, <1>7, <1>15, <2>1, <2>4 DEF OrderInv
<1>18. CASE ~Theirs(st, cq, peer, t, s) \/ res # "all"
  <2>1. answers' = answers
    BY <1>11, <1>18
  <2>2. e.res # "all" \/ ~Theirs(st, cq, peer, t, s)
    BY <1>13, <1>18
  <2>3. Ordered(v, r, stream, peer, answers)
    BY <1>1, <1>5, <1>8, <1>9, <1>13, <1>16, <2>2, SentNothing
  <2> QED
    BY <1>3, <1>7, <1>15, <2>1, <2>3 DEF OrderInv
<1> QED
  BY <1>17, <1>18

LEMMA InitOrdered ==
  ASSUME Init
  PROVE  OrderInv
<1>1. /\ \A s \in Slots : st.conn[s] = FreeConnection
      /\ \A t \in Tickets : st.ticket[t] = FreeTicket
      /\ st.batch = << >> /\ st.tokens = {} /\ st.closes = {}
      /\ \A s \in Slots : st.recvs[s] = << >>
  BY DEF Init
<1>2. cq = << >> /\ stream \in [Slots -> Bytes] /\ cq \in Seq(Completions)
  BY InitRing DEF Init, RingInv
<1>3. /\ \A s \in Slots : peer[s] = "none" /\ answers[s] = << >>
      /\ peer \in [Slots -> Peers] /\ answers \in [Slots -> Seq(Asks)]
  BY DEF Init, Peers
<1>4. Done(cq) = {}
  BY <1>2 DEF Done
<1>5. PICK W : W = WorldOf(st, cq, stream, peer, answers)
  OBVIOUS
<1>6. ASSUME NEW s \in Slots
      PROVE  /\ Line(st, s, W[s], {}) /\ InBatch(st, st.batch, 1, s)
             /\ Meets(st, cq, stream, peer, answers, s)
  <2>1. W[s] = Outside(st.conn[s].generation, cq, stream[s], peer[s], answers[s], s)
    BY <1>5, WorldAt
  <2>2. W[s].live = (peer[s] # "none" /\ ~Coming(cq, s))
        /\ W[s].over = (answers[s] # << >> /\ answers[s][Len(answers[s])][3] = StatusOnly)
    BY <2>1 DEF Outside
  <2>3. ~W[s].live /\ ~W[s].over
    BY <1>3, <2>2
  <2>4. \A t \in Tickets : st.ticket[t].slot # s
    BY <1>1, SlotsAre DEF FreeTicket
  <2>5. Past(st, s)
    BY <1>1, <2>4 DEF Past, Mine
  <2>6. Owned(st, s, W[s], {})
    BY <2>3, <2>5 DEF Owned
  <2>7. Line(st, s, W[s], {})
    BY <1>1, <2>3, <2>6 DEF Line, FreeConnection
  <2>8. InBatch(st, st.batch, 1, s)
    BY <1>1 DEF InBatch
  <2>9. Meets(st, cq, stream, peer, answers, s)
    BY <1>2, <1>3 DEF Meets, Arriving, Heard, Coming, Once, AllKnown
  <2> QED
    BY <2>7, <2>8, <2>9
<1>7. Unsaid(st, {})
  BY <1>1 DEF Unsaid, FreeTicket
<1>8. Tagged(st)
  BY <1>1 DEF Tagged
<1>9. Lined(st, W, Done(cq), st.batch, 1)
  BY <1>4, <1>6, <1>7 DEF Lined
<1> QED
  BY <1>3, <1>5, <1>6, <1>8, <1>9 DEF OrderInv, Ordered

\* What has been answered is in the order it was asked for.
LEMMA OrderedAnswers ==
  ASSUME RingInv, OrderInv
  PROVE  AnswersInOrder
<1>1. Ordered(st, cq, stream, peer, answers) /\ st \in States
  BY OrderedIs
<1>2. ASSUME NEW s \in Slots, NEW i \in DOMAIN answers[s]
      PROVE  \/ answers[s][i] = RequestOf(s, Incarnation(s), i)
             \/ /\ answers[s][i] = RequestOf(s, Incarnation(s), StatusOnly)
                /\ i = Len(answers[s])
  <2>1. PICK g \in Nat : g = st.conn[s].generation
    BY <1>1, ConnIs
  <2>2. PICK w : w = Outside(g, cq, stream[s], peer[s], answers[s], s)
    OBVIOUS
  <2>3. Heard(g, answers[s], w, s)
    BY <1>1, <2>1, <2>2, WorldAt DEF Ordered, Meets
  <2>4. w.live = (peer[s] # "none" /\ ~Coming(cq, s))
    BY <2>2 DEF Outside
  <2>5. answers[s] # << >>
    BY <1>2
  <2>6. ~Coming(cq, s)
    BY <2>3, <2>4, <2>5 DEF Heard
  <2>7. Incarnation(s) = g
    BY <2>1, <2>6, IncarnationIs DEF Current
  <2> QED
    BY <1>2, <2>3, <2>7 DEF Heard, RequestOf
<1> QED
  BY <1>2 DEF AnswersInOrder

LEMMA OrderStep ==
  ASSUME ClientsFit, RingInv, OrderInv, [Next]_vars
  PROVE  OrderInv'
<1>1. CASE DrainRing
  BY <1>1, DrainRingOrdered
<1>2. CASE EndOfPass
  BY <1>2, EndOfPassOrdered
<1>3. CASE Notified
  BY <1>3, NotifiedOrdered
<1>4. ASSUME NEW s \in Slots, KernelAccepts(s) PROVE OrderInv'
  BY <1>4, KernelAcceptsOrdered
<1>5. ASSUME NEW s \in Slots, KernelReceives(s) PROVE OrderInv'
  BY <1>5, KernelReceivesOrdered
<1>6. ASSUME NEW s \in Slots,
             KernelOutOfBuffers(s) \/ KernelEndOfStream(s) \/ KernelCancels(s)
      PROVE  OrderInv'
  BY <1>6, KernelEndsOrdered
<1>7. ASSUME NEW s \in Slots, KernelCloses(s) PROVE OrderInv'
  BY <1>7, KernelClosesOrdered
<1>8. ASSUME NEW s \in Slots, ClientCloses(s) PROVE OrderInv'
  BY <1>8, ClientClosesOrdered
<1>9. ASSUME NEW t \in Tickets, KernelSends(t) PROVE OrderInv'
  BY <1>9, KernelSendsOrdered
<1>10. CASE UNCHANGED vars
  BY <1>10 DEF OrderInv, vars, client
<1> QED
  BY <1>1, <1>2, <1>3, <1>4, <1>5, <1>6, <1>7, <1>8, <1>9, <1>10 DEF Next

-----------------------------------------------------------------------------
(* What holds of every ring *)

\* In whatever order connections close, a send ticket that is taken has a send
\* submitted or completed, and a buffer that is not with the kernel is in a completion.
THEOREM RingNothingLeaks == Spec => []NothingLeaks
<1>1. RingInv => NothingLeaks
  <2> SUFFICES ASSUME RingInv PROVE NothingLeaks
    OBVIOUS
  <2>1. Accounted(st, {}, Returning(cq)) /\ cq \in Seq(Completions) /\ st \in States
    BY RingIs
  <2>2. ASSUME NEW t \in Tickets
        PROVE  st.ticket[t].busy <=>
                 (t \in st.sends \/ \E i \in DOMAIN cq : cq[i].op = "send" /\ cq[i].ticket = t)
    <3>1. t \in Returning(cq) <=> \E i \in DOMAIN cq : cq[i].op = "send" /\ cq[i].ticket = t
      BY DEF Returning
    <3>2. st.ticket[t].busy <=> t \in Returning(cq) \cup st.sends
      BY <2>1 DEF Accounted
    <3> QED
      BY <3>1, <3>2
  <2>3. {i \in DOMAIN cq : cq[i].op = "recv" /\ cq[i].data # << >>} = Places(cq)
    <3>1. \A i \in DOMAIN cq : cq[i] \in Completions
      BY <2>1
    <3> QED
      BY <3>1 DEF Places, Filled
  <2>4. st.buffers + Cardinality({i \in DOMAIN cq : cq[i].op = "recv" /\ cq[i].data # << >>})
          = Buffers
    BY <2>3 DEF RingInv
  <2> QED
    BY <2>2, <2>4 DEF NothingLeaks
<1> QED
  BY <1>1, RingHolds, PTL

\* The queues that are linked through the table stay whole: a slot that was closed while
\* it was queued keeps its place through the next client.
THEOREM RingQueuesIntact == Spec => []QueuesIntact
<1>1. RingInv => QueuesIntact
  BY RingIs DEF QueuesIntact, Tidy
<1> QED
  BY <1>1, RingHolds, PTL

\* A complete request that a connection holds waits for the batch, for a ticket, for an
\* answer that is owed, or for the response before it, and never for nothing.
THEOREM RingForgetsNone == Spec => []NoRequestForgotten
<1>1. RingInv => NoRequestForgotten
  <2> SUFFICES ASSUME RingInv PROVE NoRequestForgotten
    OBVIOUS
  <2>1. {s \in Slots : ~CaredFor(st.conn[s])} \subseteq {}
    BY RingIs DEF Tidy
  <2> QED
    BY <2>1 DEF NoRequestForgotten
<1> QED
  BY <1>1, RingHolds, PTL

\* A client whose requests fit together in the buffer that its connection keeps gets the
\* answers to its own requests and in the order in which it made them, through pipelining,
\* deferred answers, sends that wait for a ticket and slots that are handed on.
THEOREM RingAnswersInOrder == ClientsFit => (Spec => []AnswersInOrder)
<1> SUFFICES ASSUME ClientsFit PROVE Spec => []AnswersInOrder
  OBVIOUS
<1>1. Init => RingInv /\ OrderInv
  BY InitRing, InitOrdered
<1>2. RingInv /\ OrderInv /\ [Next]_vars => RingInv' /\ OrderInv'
  BY RingStep, OrderStep
<1>3. RingInv /\ OrderInv => AnswersInOrder
  BY OrderedAnswers
<1> QED
  BY <1>1, <1>2, <1>3, PTL DEF Spec
=============================================================================
