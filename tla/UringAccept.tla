------------------------------ MODULE UringAccept ------------------------------
(***************************************************************************)
(* Where the io_uring transport accepts (threads/uringAPIServer.c): the    *)
(* server's one multishot accept is on one ring at a time, moves to the    *)
(* next before a ring's table is full, and stands still when every table   *)
(* is full until a connection closes.                                      *)
(*                                                                         *)
(* Each ring takes its submissions in order and posts completions in       *)
(* order.  What the connections do in between is in UringAPI; here they    *)
(* come and go.                                                            *)
(***************************************************************************)
EXTENDS Naturals, Sequences, SequencesExt

CONSTANTS
  RingCounts,               \* how many rings come up
  connectionSlots,          \* of each ring's table
  URING_ACCEPT_RESERVE,
  MaxQueue                  \* bound: completions not read yet, on one ring

VARIABLES
  ringCount,
  th,     \* the thread: [acceptRing, acceptStalled, acceptArmed, connectionsOpen]
  sq,     \* per ring: submissions, in order
  cq,     \* per ring: completions, in order
  armed,  \* per ring: the kernel has a multishot accept on it
  used    \* per ring: slots of its table the kernel has given out

vars == << ringCount, th, sq, cq, armed, used >>

Rings == 0 .. ringCount - 1

-----------------------------------------------------------------------------
(* The thread's functions, on its state and what it has submitted *)

FreeSlots(t, r) == connectionSlots - t.connectionsOpen[r]

ArmAccept(x, r) ==
  IF x.t.acceptArmed[r] THEN x
  ELSE [ t |-> [x.t EXCEPT !.acceptArmed[r] = TRUE, !.acceptStalled = FALSE],
         q |-> [x.q EXCEPT ![r] = Append(@, "accept")] ]

CancelAccept(x, r) ==
  IF x.t.acceptArmed[r] THEN [x EXCEPT !.q[r] = Append(@, "cancel")] ELSE x

\* The first ring from startAt on with room to spare, or with any room.
ArmAcceptSomewhere(x, startAt) ==
  LET ring(i)        == (startAt + i) % ringCount
      roomy(reserve) == {i \in Rings : FreeSlots(x.t, ring(i)) > reserve}
      choice         == IF roomy(URING_ACCEPT_RESERVE) # {}
                        THEN roomy(URING_ACCEPT_RESERVE) ELSE roomy(0)
      which          == ring(Min(choice))
  IN  IF choice = {}
      THEN [x EXCEPT !.t.acceptStalled = TRUE]
      ELSE ArmAccept([x EXCEPT !.t.acceptRing = which], which)

MoveAcceptOn(x, from) ==
  LET y == ArmAcceptSomewhere(x, from + 1)
  IN  IF ~y.t.acceptStalled /\ y.t.acceptRing # from THEN CancelAccept(y, from) ELSE y

HandleAcceptCompletion(x, r, e) ==
  LET y == IF e.more THEN x ELSE [x EXCEPT !.t.acceptArmed[r] = FALSE]
      z == IF e.res = "slot" THEN [y EXCEPT !.t.connectionsOpen[r] = @ + 1] ELSE y
      again == IF ~e.more /\ z.t.acceptRing = r /\ ~z.t.acceptStalled
               THEN ArmAccept(z, r) ELSE z
  IN  CASE e.res = "slot" ->
             IF ringCount > 1 /\ z.t.acceptRing = r
                  /\ FreeSlots(z.t, r) <= URING_ACCEPT_RESERVE
             THEN MoveAcceptOn(z, r)
             ELSE again
        [] e.res = "ECANCELED" -> z
        [] e.res = "EMFILE"    -> ArmAcceptSomewhere(z, r + 1)
        [] OTHER               -> again

\* Mutant: a slot that comes back does not start accepting again.
HandleCloseIgnored(x, r) == x

HandleCloseCompletion(x, r) ==
  IF x.t.acceptStalled THEN ArmAcceptSomewhere(x, r) ELSE x

-----------------------------------------------------------------------------

\* RingStartup serves with the rings that came up, and UringAPIThread starts
\* with ArmAcceptSomewhere(0).
Init ==
  /\ ringCount \in RingCounts
  /\ LET x == ArmAcceptSomewhere(
                [ t |-> [ acceptRing |-> 0, acceptStalled |-> FALSE,
                          acceptArmed |-> [r \in Rings |-> FALSE],
                          connectionsOpen |-> [r \in Rings |-> 0] ],
                  q |-> [r \in Rings |-> << >>] ], 0)
     IN  th = x.t /\ sq = x.q
  /\ cq = [r \in Rings |-> << >>]
  /\ armed = [r \in Rings |-> FALSE]
  /\ used = [r \in Rings |-> 0]

\* DrainRing, one completion.
DrainRing(r) ==
  /\ cq[r] # << >>
  /\ LET x == [t |-> th, q |-> sq]
         e == Head(cq[r])
         y == IF e.op = "accept" THEN HandleAcceptCompletion(x, r, e)
                                 ELSE HandleCloseCompletion(x, r)
     IN  th' = y.t /\ sq' = y.q
  /\ cq' = [cq EXCEPT ![r] = Tail(@)]
  /\ UNCHANGED << ringCount, armed, used >>

\* CloseConnection, for some connection of the ring.
CloseConnection(r) ==
  /\ th.connectionsOpen[r] > 0
  /\ th' = [th EXCEPT !.connectionsOpen[r] = @ - 1]
  /\ sq' = [sq EXCEPT ![r] = Append(@, "close")]
  /\ UNCHANGED << ringCount, cq, armed, used >>

Post(r, e) ==
  /\ Len(cq[r]) < MaxQueue
  /\ cq' = [cq EXCEPT ![r] = Append(@, e)]

AcceptCompletion(res, more) == [op |-> "accept", res |-> res, more |-> more]

\* The kernel takes a ring's next submission.
KernelArms(r) ==
  /\ sq[r] # << >>
  /\ Head(sq[r]) = "accept"
  /\ armed' = [armed EXCEPT ![r] = TRUE]
  /\ sq' = [sq EXCEPT ![r] = Tail(@)]
  /\ UNCHANGED << ringCount, th, cq, used >>

KernelCancels(r) ==
  /\ sq[r] # << >>
  /\ Head(sq[r]) = "cancel"
  /\ IF armed[r] THEN Post(r, AcceptCompletion("ECANCELED", FALSE)) ELSE UNCHANGED cq
  /\ armed' = [armed EXCEPT ![r] = FALSE]
  /\ sq' = [sq EXCEPT ![r] = Tail(@)]
  /\ UNCHANGED << ringCount, th, used >>

KernelCloses(r) ==
  /\ sq[r] # << >>
  /\ Head(sq[r]) = "close"
  /\ Post(r, [op |-> "close"])
  /\ used' = [used EXCEPT ![r] = @ - 1]
  /\ sq' = [sq EXCEPT ![r] = Tail(@)]
  /\ UNCHANGED << ringCount, th, armed >>

\* A client connects, while an accept is armed: into a free slot, or the table is
\* full and it is dropped.  A multishot accept may end with any completion.
KernelAccepts(r) ==
  /\ armed[r]
  /\ \/ \E more \in BOOLEAN :
          /\ used[r] < connectionSlots
          /\ Post(r, AcceptCompletion("slot", more))
          /\ used' = [used EXCEPT ![r] = @ + 1]
          /\ armed' = [armed EXCEPT ![r] = more]
     \/ /\ used[r] = connectionSlots
        /\ Post(r, AcceptCompletion("EMFILE", FALSE))
        /\ armed' = [armed EXCEPT ![r] = FALSE]
        /\ UNCHANGED used
     \/ /\ Post(r, AcceptCompletion("error", FALSE))
        /\ armed' = [armed EXCEPT ![r] = FALSE]
        /\ UNCHANGED used
  /\ UNCHANGED << ringCount, th, sq >>

Next ==
  \E r \in Rings :
    \/ DrainRing(r) \/ CloseConnection(r)
    \/ KernelArms(r) \/ KernelCancels(r) \/ KernelCloses(r) \/ KernelAccepts(r)

Spec == Init /\ [][Next]_vars
-----------------------------------------------------------------------------
(* Properties *)

Pending(r, P(_)) == \E i \in DOMAIN cq[r] : P(cq[r][i])

\* "There is one accept in the whole server" (uringAPIServer.c:281), and "only
\* when none has a single free slot does accepting stop until a close frees one"
\* (lines 730-731): some ring has the accept, or accepting has stopped.
NeverDeaf == th.acceptStalled \/ \E r \in Rings : th.acceptArmed[r]

\* Accepting has stopped only while every slot of every ring is taken, or the
\* completion that starts it again is on its way.
StalledMeansFull ==
  th.acceptStalled =>
    \/ \A r \in Rings : th.connectionsOpen[r] = connectionSlots
    \/ \E r \in Rings :
         "close" \in ToSet(sq[r]) \/ Pending(r, LAMBDA e : e.op = "close")

\* The thread's mark agrees with the kernel: a ring marked as accepting has an
\* accept submitted, armed, or ended by a completion that is not read yet.
ArmedIsArmed ==
  \A r \in Rings :
    th.acceptArmed[r] <=>
      \/ armed[r]
      \/ "accept" \in ToSet(sq[r])
      \/ Pending(r, LAMBDA e : e.op = "accept" /\ ~e.more)

\* acceptArmed is true to the kernel on every ring, and a server with one ring,
\* which is the default, never stops accepting for good.
OneRingAccepts ==
  /\ ArmedIsArmed
  /\ ringCount = 1 => NeverDeaf /\ StalledMeansFull
=============================================================================
