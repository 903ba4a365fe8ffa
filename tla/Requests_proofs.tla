--------------------------- MODULE Requests_proofs ---------------------------
(***************************************************************************)
(* Theorems of MC_Requests, for any script of API requests and any way     *)
(* that the stream is cut, any file, range and block size: the connection  *)
(* of the epoll thread implements HTTPExchange, a range is answered as it  *)
(* was asked, and a connection is kept only behind a complete answer.  And *)
(* for any number of rings: the mark of each agrees with the kernel, and   *)
(* one ring alone never stops accepting for good.                          *)
(*                                                                         *)
(* First EpollAPI: APIInv says that the units answered, in the buffer, in  *)
(* the socket and not yet sent follow one another without a gap.  Then     *)
(* FileServe: FileInv says what of the promised slice has been sent.  At   *)
(* last UringAccept: AcceptInv counts where each accept and slot is.       *)
(***************************************************************************)
EXTENDS MC_Requests, TLAPS, FiniteSetTheorems, WellFoundedInduction

-----------------------------------------------------------------------------
(* The API connection: the units that are not answered yet *)

Unit == [req : Nat, kind : API!RequestKinds, at : Nat]

\* What the client sends next, also when it has nothing left to send.
Ahead ==
  [req |-> API!Requested + 1, at |-> part + 1,
   kind |-> IF script = << >> THEN "get" ELSE Head(script)]

Sent(u) ==
  \/ u.req <= API!Requested
  \/ u.req = API!Requested + 1 /\ u.at <= part /\ u.kind = Head(script)

Follows(u, v) ==
  IF u.at < API!Size(u.kind) THEN v.req = u.req /\ v.kind = u.kind /\ v.at = u.at + 1
                             ELSE v.req = u.req + 1 /\ v.at = 1

\* The units in hand, then those in the socket, then what the client sends next.
Nth(hand, i) ==
  IF i <= Len(hand) THEN hand[i]
  ELSE IF i <= Len(hand) + Len(sock) THEN sock[i - Len(hand)]
  ELSE Ahead

\* They follow one another without a gap from the start of request n on.
InLine(hand, n) ==
  /\ Nth(hand, 1).req = n /\ Nth(hand, 1).at = 1
  /\ \A i \in 1 .. Len(hand) + Len(sock) :
       Sent(Nth(hand, i)) /\ Follows(Nth(hand, i), Nth(hand, i + 1))

ClientTypes ==
  /\ script \in Seq(API!RequestKinds) /\ Len(script) <= NReq
  /\ part \in Nat
  /\ script = << >> => part = 0
  /\ script # << >> => part < API!Size(Head(script))
  /\ sock \in Seq(Unit)

LEMMA SizeIsPositive ==
  ASSUME NEW k \in API!RequestKinds
  PROVE  API!Size(k) \in Nat \ {0}
  BY SizeAssumption DEF API!Size, API!RequestKinds

LEMMA AheadIsAUnit ==
  ASSUME ClientTypes
  PROVE  /\ Ahead \in Unit
         /\ API!Requested \in 0 .. NReq
         /\ script # << >> => Head(script) \in API!RequestKinds /\ Ahead = API!NextUnit
  <1>1. API!Requested \in 0 .. NReq
    BY RequestsAssumption DEF ClientTypes, API!Requested
  <1>2. script # << >> => Head(script) \in API!RequestKinds
    BY DEF ClientTypes
  <1>3. Ahead \in Unit
    <2>1. "get" \in API!RequestKinds
      BY DEF API!RequestKinds
    <2>2. (IF script = << >> THEN "get" ELSE Head(script)) \in API!RequestKinds
      BY <2>1, <1>2, KindsAssumption
    <2>3. API!Requested + 1 \in Nat /\ part + 1 \in Nat
      BY <1>1, RequestsAssumption DEF ClientTypes
    <2> QED
      BY <2>2, <2>3 DEF Ahead, Unit
  <1>4. script # << >> => Ahead = API!NextUnit
    BY DEF Ahead, API!NextUnit
  <1> QED
    BY <1>1, <1>2, <1>3, <1>4

\* A request that is consumed was sent to its end, and the next one is behind it.
LEMMA ConsumedInLine ==
  ASSUME ClientTypes, NEW hand \in Seq(Unit), NEW n \in Nat, InLine(hand, n), hand # << >>,
         NEW k \in {1, 2}, k = API!Size(hand[1].kind), k <= Len(hand)
  PROVE  /\ n <= API!Requested
         /\ SubSeq(hand, k + 1, Len(hand)) \in Seq(Unit)
         /\ InLine(SubSeq(hand, k + 1, Len(hand)), n + 1)
  <1> DEFINE rest == SubSeq(hand, k + 1, Len(hand))
  <1>1. /\ rest \in Seq(Unit) /\ Len(rest) = Len(hand) - k
        /\ \A i \in 1 .. Len(rest) : rest[i] = hand[i + k]
    OBVIOUS
  <1>2. Len(sock) \in Nat /\ Len(hand) \in Nat /\ API!Requested \in Nat
    BY AheadIsAUnit, RequestsAssumption DEF ClientTypes
  <1> HIDE DEF rest
  <1>3. ASSUME NEW i \in Nat \ {0} PROVE Nth(rest, i) = Nth(hand, i + k)
    BY <1>1, <1>2 DEF Nth
  <1>4. /\ Nth(hand, 1) = hand[1] /\ hand[1] \in Unit
        /\ hand[1].req = n /\ hand[1].at = 1
    BY <1>2 DEF Nth, InLine
  <1>5. /\ Nth(hand, k).req = n /\ Nth(hand, k).kind = hand[1].kind /\ Nth(hand, k).at = k
        /\ Sent(Nth(hand, k)) /\ Follows(Nth(hand, k), Nth(hand, k + 1))
    <2>1. CASE k = 1
      BY <2>1, <1>2, <1>4 DEF InLine
    <2>2. CASE k = 2
      <3>1. Follows(Nth(hand, 1), Nth(hand, 2)) /\ Sent(Nth(hand, 2))
        BY <2>2, <1>2 DEF InLine
      <3>2. Follows(Nth(hand, 2), Nth(hand, 3))
        BY <2>2, <1>2 DEF InLine
      <3>4. hand[1].at < API!Size(hand[1].kind) /\ Follows(hand[1], Nth(hand, 2))
        BY <2>2, <3>1, <1>4
      <3>3. /\ Nth(hand, 2).req = n /\ Nth(hand, 2).kind = hand[1].kind
            /\ Nth(hand, 2).at = 2
        BY <3>4, <1>4 DEF Follows
      <3> QED
        BY <2>2, <3>1, <3>2, <3>3
    <2> QED
      BY <2>1, <2>2
  <1>6. Nth(hand, k + 1).req = n + 1 /\ Nth(hand, k + 1).at = 1
    BY <1>5 DEF Follows
  <1>7. n <= API!Requested
    <2>1. CASE n = API!Requested + 1 /\ k <= part /\ hand[1].kind = Head(script)
      <3>1. script = << >> => part = 0
        BY DEF ClientTypes
      <3>2. part < k
        BY <3>1, <2>1 DEF ClientTypes
      <3> QED
        BY <3>2, <2>1 DEF ClientTypes
    <2> QED
      BY <1>5, <2>1 DEF Sent
  <1>8. ASSUME NEW i \in 1 .. Len(rest) + Len(sock)
        PROVE  Sent(Nth(rest, i)) /\ Follows(Nth(rest, i), Nth(rest, i + 1))
    <2>1. i + k \in 1 .. Len(hand) + Len(sock) /\ i + 1 + k = (i + k) + 1
      BY <1>1, <1>2, SMTT(20)
    <2>2. Sent(Nth(hand, i + k)) /\ Follows(Nth(hand, i + k), Nth(hand, i + k + 1))
      BY <2>1 DEF InLine
    <2>3. Nth(rest, i) = Nth(hand, i + k) /\ Nth(rest, i + 1) = Nth(hand, i + k + 1)
      BY <1>3, <2>1, <1>2, <1>1, SMTT(20)
    <2> QED
      BY <2>2, <2>3
  <1>9. Nth(rest, 1) = Nth(hand, k + 1)
    BY <1>3
  <1> QED
    BY <1>1, <1>6, <1>7, <1>8, <1>9 DEF InLine, rest

Moves(hand, more, taken) ==
  more = hand \o SubSeq(sock, 1, taken) /\ sock' = SubSeq(sock, taken + 1, Len(sock))

LEMMA PlacesMove ==
  ASSUME NEW h \in Nat, NEW s \in Nat, NEW t \in 0 .. s, NEW m \in Nat, m = h + t,
         NEW z \in Nat, z = s - t
  PROVE  /\ m + z = h + s
         /\ \A i \in Nat \ {0} : i > m =>
              /\ ~(i <= m) /\ ~(i <= h)
              /\ i <= h + s => i - m \in 1 .. z /\ (i - m) + t = i - h /\ i <= m + z
              /\ ~(i <= h + s) => ~(i <= m + z)
  OBVIOUS

\* What is read moves from the socket to the hand.
LEMMA ReadInLine ==
  ASSUME ClientTypes, NEW hand \in Seq(Unit), NEW n \in Nat, InLine(hand, n),
         NEW taken \in 0 .. Len(sock), NEW more, Moves(hand, more, taken),
         UNCHANGED << script, part >>
  PROVE  /\ ClientTypes'
         /\ more \in Seq(Unit) /\ Len(more) = Len(hand) + taken
         /\ InLine(more, n)'
  <1>1. /\ sock \in Seq(Unit) /\ Len(sock) \in Nat /\ Len(hand) \in Nat
        /\ SubSeq(sock, 1, taken) \in Seq(Unit) /\ Len(SubSeq(sock, 1, taken)) = taken
        /\ \A i \in 1 .. taken : SubSeq(sock, 1, taken)[i] = sock[i]
    BY DEF ClientTypes
  <1>2. /\ more \in Seq(Unit) /\ Len(more) = Len(hand) + taken
        /\ \A i \in 1 .. Len(hand) : more[i] = hand[i]
        /\ \A i \in 1 .. taken : more[i + Len(hand)] = sock[i]
    BY <1>1 DEF Moves
  <1>3. /\ sock' \in Seq(Unit) /\ Len(sock') = Len(sock) - taken
        /\ \A i \in 1 .. Len(sock') : sock'[i] = sock[i + taken]
    <2>1. /\ SubSeq(sock, taken + 1, Len(sock)) \in Seq(Unit)
          /\ Len(SubSeq(sock, taken + 1, Len(sock))) = Len(sock) - taken
          /\ \A i \in 1 .. Len(sock) - taken :
               SubSeq(sock, taken + 1, Len(sock))[i] = sock[i + taken]
      BY <1>1
    <2>2. sock' = SubSeq(sock, taken + 1, Len(sock))
      BY DEF Moves
    <2> QED
      BY <2>1, <2>2
  <1>0. /\ Len(hand) \in Nat /\ Len(sock) \in Nat /\ taken \in Nat /\ taken <= Len(sock)
        /\ Len(more) = Len(hand) + taken /\ Len(sock') = Len(sock) - taken
        /\ Len(more) \in Nat /\ Len(sock') \in Nat
    BY <1>1, <1>2, <1>3
  <1>4. Ahead' = Ahead /\ API!Requested' = API!Requested
    BY DEF Ahead, API!Requested
  <1>5. /\ Len(more) + Len(sock') = Len(hand) + Len(sock)
        /\ \A i \in Nat \ {0} : i > Len(more) =>
             /\ ~(i <= Len(more)) /\ ~(i <= Len(hand))
             /\ i <= Len(hand) + Len(sock) =>
                  /\ i - Len(more) \in 1 .. Len(sock')
                  /\ (i - Len(more)) + taken = i - Len(hand) /\ i <= Len(more) + Len(sock')
             /\ ~(i <= Len(hand) + Len(sock)) => ~(i <= Len(more) + Len(sock'))
    BY <1>0, PlacesMove
  <1>6. ASSUME NEW i \in Nat \ {0} PROVE Nth(more, i)' = Nth(hand, i)
    <2>1. CASE i <= Len(hand)
      <3>1. i \in 1 .. Len(hand) /\ i <= Len(more)
        BY <2>1, <1>1, <1>2
      <3>2. more[i] = hand[i]
        BY <3>1, <1>2
      <3> QED
        BY <2>1, <3>1, <3>2 DEF Nth
    <2>2. CASE i > Len(hand) /\ i <= Len(more)
      <3>1. i - Len(hand) \in 1 .. taken /\ (i - Len(hand)) + Len(hand) = i
        BY <2>2, <1>1, <1>2
      <3>2. more[i] = sock[i - Len(hand)]
        BY <3>1, <1>2
      <3> QED
        BY <3>1, <3>2, <2>2, <1>1, <1>2, <1>3 DEF Nth
    <2>3. CASE i > Len(more)
      <3>1. CASE i <= Len(hand) + Len(sock)
        <4>1. i - Len(more) \in 1 .. Len(sock') /\ (i - Len(more)) + taken = i - Len(hand)
          BY <3>1, <2>3, <1>5
        <4>2. sock'[i - Len(more)] = sock[i - Len(hand)]
          BY <4>1, <1>3
        <4>3. ~(i <= Len(more)) /\ i <= Len(more) + Len(sock') /\ ~(i <= Len(hand))
          BY <3>1, <2>3, <1>5
        <4> QED
          BY <4>2, <4>3, <3>1 DEF Nth
      <3>2. CASE ~(i <= Len(hand) + Len(sock))
        <4>1. ~(i <= Len(more)) /\ ~(i <= Len(more) + Len(sock')) /\ ~(i <= Len(hand))
          BY <3>2, <2>3, <1>5
        <4> QED
          BY <4>1, <3>2, <1>4 DEF Nth
      <3> QED
        BY <3>1, <3>2
    <2> QED
      BY <2>1, <2>2, <2>3, <1>1, <1>2
  <1>7. ASSUME NEW u PROVE Sent(u)' <=> Sent(u)
    BY <1>4 DEF Sent
  <1>8. InLine(more, n)'
    <2>1. Nth(more, 1)'.req = n /\ Nth(more, 1)'.at = 1
      BY <1>6 DEF InLine
    <2>2. ASSUME NEW i \in 1 .. Len(more) + Len(sock')
          PROVE  Sent(Nth(more, i)') /\ Follows(Nth(more, i)', Nth(more, i + 1)')
      <3>1. i \in 1 .. Len(hand) + Len(sock) /\ i \in Nat \ {0} /\ i + 1 \in Nat \ {0}
        BY <1>5, <1>0
      <3> QED
        BY <3>1, <1>6 DEF InLine
    <2>3. ASSUME NEW i \in 1 .. Len(more) + Len(sock')
          PROVE  (Sent(Nth(more, i)) /\ Follows(Nth(more, i), Nth(more, i + 1)))'
      BY <2>2, <1>4 DEF Sent, Follows, API!Size
    <2> QED
      BY <2>1, <2>3 DEF InLine
  <1>9. ClientTypes'
    BY <1>3 DEF ClientTypes, API!Size
  <1> QED
    BY <1>2, <1>8, <1>9

\* The client sends its next unit, and what it sends then follows it.
LEMMA ClientGoesOn ==
  ASSUME ClientTypes, API!ClientSends
  PROVE  /\ ClientTypes' /\ Follows(Ahead, Ahead') /\ Ahead'.req \in Nat
         /\ \/ API!Requested' = API!Requested /\ script' = script /\ part' = part + 1
            \/ API!Requested < NReq /\ API!Requested' = API!Requested + 1
  <1>1. /\ script # << >> /\ sock' = Append(sock, Ahead)
        /\ Ahead \in Unit /\ API!Requested \in 0 .. NReq /\ Head(script) \in API!RequestKinds
        /\ Ahead.req = API!Requested + 1 /\ Ahead.at = part + 1 /\ Ahead.kind = Head(script)
        /\ sock \in Seq(Unit) /\ Len(sock) \in Nat /\ part \in Nat
    BY AheadIsAUnit, KindsAssumption DEF API!ClientSends, ClientTypes, Ahead
  <1>2. /\ sock' \in Seq(Unit) /\ Len(sock') = Len(sock) + 1
        /\ \A i \in 1 .. Len(sock) : sock'[i] = sock[i]
        /\ sock'[Len(sock) + 1] = Ahead
    BY <1>1
  <1>3. /\ ClientTypes' /\ Follows(Ahead, Ahead') /\ Ahead'.req \in Nat
        /\ \/ API!Requested' = API!Requested /\ script' = script /\ part' = part + 1
           \/ API!Requested < NReq /\ API!Requested' = API!Requested + 1
    <2>1. CASE part + 1 = API!Size(Head(script))
      <3>1. script' = Tail(script) /\ part' = 0
        BY <2>1 DEF API!ClientSends
      <3>2. /\ script' \in Seq(API!RequestKinds) /\ Len(script') = Len(script) - 1
            /\ Len(script) \in Nat \ {0} /\ Len(script) <= NReq
        BY <3>1, <1>1 DEF ClientTypes
      <3>3. API!Requested < NReq /\ API!Requested' = API!Requested + 1
        BY <3>2, RequestsAssumption DEF API!Requested
      <3>4. script' # << >> => part' < API!Size(Head(script'))
        <4> SUFFICES ASSUME script' # << >> PROVE 0 < API!Size(Head(script'))
          BY <3>1
        <4>1. Head(script') \in API!RequestKinds
          BY <3>2, KindsAssumption
        <4> QED
          BY <4>1, SizeIsPositive
      <3>5. ClientTypes'
        <4>1. script' \in Seq(API!RequestKinds) /\ Len(script') <= NReq
          BY <3>2, RequestsAssumption
        <4>2. part' \in Nat /\ (script' = << >> => part' = 0)
          BY <3>1
        <4>3. (script # << >> => part < API!Size(Head(script)))'
          BY <3>4 DEF API!Size
        <4> QED
          BY <4>1, <4>2, <4>3, <1>2 DEF ClientTypes
      <3>6. Ahead'.req = Ahead.req + 1 /\ Ahead'.at = 1 /\ Ahead'.req \in Nat
        BY <3>1, <3>3, <1>1, RequestsAssumption DEF Ahead
      <3>7. Follows(Ahead, Ahead')
        BY <3>6, <1>1, <2>1 DEF Follows
      <3> QED
        BY <3>3, <3>5, <3>6, <3>7
    <2>2. CASE part + 1 # API!Size(Head(script))
      <3>1. script' = script /\ part' = part + 1
        BY <2>2 DEF API!ClientSends
      <3>2. API!Size(Head(script)) \in Nat \ {0} /\ part < API!Size(Head(script))
        BY <1>1, SizeIsPositive DEF ClientTypes
      <3>3. API!Requested' = API!Requested
        BY <3>1 DEF API!Requested
      <3>7. script' # << >> => part' < API!Size(Head(script'))
        BY <3>1, <3>2, <2>2, <1>1
      <3>4. ClientTypes'
        <4>1. script' \in Seq(API!RequestKinds) /\ Len(script') <= NReq
          BY <3>1 DEF ClientTypes
        <4>2. part' \in Nat /\ (script' = << >> => part' = 0)
          BY <3>1, <1>1
        <4>3. (script # << >> => part < API!Size(Head(script)))'
          BY <3>7 DEF API!Size
        <4> QED
          BY <4>1, <4>2, <4>3, <1>2 DEF ClientTypes
      <3>5. /\ Ahead'.req = Ahead.req /\ Ahead'.at = Ahead.at + 1 /\ Ahead'.kind = Ahead.kind
            /\ Ahead'.req \in Nat
        BY <3>1, <3>3, <1>1 DEF Ahead
      <3>6. Follows(Ahead, Ahead')
        BY <3>2, <3>5, <2>2, <1>1 DEF Follows
      <3> QED
        BY <3>1, <3>3, <3>4, <3>5, <3>6
    <2> QED
      BY <2>1, <2>2
  <1> QED
    BY <1>3

LEMMA SentInLine ==
  ASSUME ClientTypes, NEW hand \in Seq(Unit), NEW n \in Nat, InLine(hand, n), API!ClientSends
  PROVE  InLine(hand, n)'
  <1>1. /\ script # << >> /\ sock' = Append(sock, Ahead)
        /\ Ahead \in Unit /\ API!Requested \in 0 .. NReq /\ Head(script) \in API!RequestKinds
        /\ Ahead.req = API!Requested + 1 /\ Ahead.at = part + 1 /\ Ahead.kind = Head(script)
        /\ sock \in Seq(Unit) /\ Len(sock) \in Nat /\ Len(hand) \in Nat /\ part \in Nat
    BY AheadIsAUnit, KindsAssumption DEF API!ClientSends, ClientTypes, Ahead
  <1>2. /\ sock' \in Seq(Unit) /\ Len(sock') = Len(sock) + 1
        /\ \A i \in 1 .. Len(sock) : sock'[i] = sock[i]
        /\ sock'[Len(sock) + 1] = Ahead
    BY <1>1
  <1>3. /\ ClientTypes' /\ Follows(Ahead, Ahead') /\ Ahead'.req \in Nat
        /\ \/ API!Requested' = API!Requested /\ script' = script /\ part' = part + 1
           \/ API!Requested < NReq /\ API!Requested' = API!Requested + 1
    BY ClientGoesOn
  <1>4. ASSUME NEW u, u.req \in Nat, u.at \in Nat,
               \/ Sent(u)
               \/ u.req = API!Requested + 1 /\ u.at = part + 1 /\ u.kind = Head(script)
        PROVE  Sent(u)'
    <2>1. CASE u.req <= API!Requested
      BY <2>1, <1>1, <1>3, <1>4 DEF Sent
    <2>2. CASE u.req = API!Requested + 1 /\ u.at <= part + 1 /\ u.kind = Head(script)
      BY <2>2, <1>1, <1>3, <1>4 DEF Sent
    <2>3. u.at <= part => u.at <= part + 1
      BY <1>1, <1>4
    <2> QED
      BY <2>1, <2>2, <2>3, <1>1, <1>4 DEF Sent
  <1>5. PICK a : a = Ahead
    OBVIOUS
  <1>6. PICK all \in Nat : all = Len(hand) + Len(sock)
    BY <1>1
  <1>7. ASSUME NEW i \in 1 .. all + 1
        PROVE  Nth(hand, i)' = Nth(hand, i) /\ Nth(hand, i) \in Unit
    <2>1. CASE i <= Len(hand)
      BY <2>1 DEF Nth
    <2>2. CASE ~(i <= Len(hand)) /\ i <= Len(hand) + Len(sock)
      <3>1. i - Len(hand) \in 1 .. Len(sock) /\ i <= Len(hand) + Len(sock')
        BY <2>2, <1>1, <1>2
      <3>2. Nth(hand, i) = sock[i - Len(hand)] /\ Nth(hand, i)' = sock'[i - Len(hand)]
        BY <2>2, <3>1 DEF Nth
      <3> QED
        BY <3>1, <3>2, <1>1, <1>2
    <2>3. CASE i = Len(hand) + Len(sock) + 1
      <3>1. /\ ~(i <= Len(hand)) /\ ~(i <= Len(hand) + Len(sock))
            /\ i <= Len(hand) + Len(sock') /\ i - Len(hand) = Len(sock) + 1
        BY <2>3, <1>1, <1>2
      <3>2. Nth(hand, i) = Ahead /\ Nth(hand, i)' = sock'[Len(sock) + 1]
        BY <3>1 DEF Nth
      <3> QED
        BY <3>2, <1>1, <1>2
    <2>4. i <= Len(hand) \/ (~(i <= Len(hand)) /\ i <= Len(hand) + Len(sock))
          \/ i = Len(hand) + Len(sock) + 1
      <3>1. Len(hand) \in Nat /\ Len(sock) \in Nat
        BY <1>1
      <3> QED
        BY <3>1, <1>6
    <2> QED
      BY <2>1, <2>2, <2>3, <2>4
  <1>8. Nth(hand, all + 1) = a /\ Nth(hand, all + 2)' = Ahead'
    <2>1. /\ ~(all + 1 <= Len(hand)) /\ ~(all + 1 <= Len(hand) + Len(sock))
          /\ ~(all + 2 <= Len(hand)) /\ ~(all + 2 <= Len(hand) + Len(sock'))
      BY <1>1, <1>2, <1>6
    <2> QED
      BY <2>1, <1>5 DEF Nth
  <1>9. ASSUME NEW i \in 1 .. all + 1
        PROVE  Sent(Nth(hand, i))' /\ Follows(Nth(hand, i)', Nth(hand, i + 1)')
    <2>1. CASE i \in 1 .. all
      <3>1. /\ i + 1 \in 1 .. all + 1 /\ i \in 1 .. Len(hand) + Len(sock)
        BY <2>1, <1>6
      <3>2. Sent(Nth(hand, i)) /\ Follows(Nth(hand, i), Nth(hand, i + 1))
        BY <3>1 DEF InLine
      <3>3. Nth(hand, i).req \in Nat /\ Nth(hand, i).at \in Nat
        BY <1>7 DEF Unit
      <3>4. ASSUME NEW u, u = Nth(hand, i) PROVE Sent(u)'
        BY <3>2, <3>3, <3>4, <1>4
      <3>5. Nth(hand, i)' = Nth(hand, i) /\ Nth(hand, i + 1)' = Nth(hand, i + 1)
        BY <3>1, <1>7
      <3> QED
        BY <3>2, <3>4, <3>5
    <2>2. CASE i = all + 1
      <3>1. Nth(hand, i)' = a /\ Nth(hand, i + 1)' = Ahead' /\ a = Ahead
        BY <2>2, <1>5, <1>6, <1>7, <1>8
      <3>2. Sent(a)'
        <4>1. a.req = API!Requested + 1 /\ a.at = part + 1 /\ a.kind = Head(script)
              /\ a.req \in Nat /\ a.at \in Nat
          BY <1>1, <1>5
        <4> QED
          BY <4>1, <1>4
      <3>3. Follows(a, Ahead')
        BY <1>3, <1>5
      <3> QED
        BY <3>1, <3>2, <3>3
    <2> QED
      BY <2>1, <2>2, <1>6
  <1>10. ASSUME NEW i \in 1 .. Len(hand) + Len(sock')
         PROVE  (Sent(Nth(hand, i)) /\ Follows(Nth(hand, i), Nth(hand, i + 1)))'
    <2>1. i \in 1 .. all + 1
      BY <1>1, <1>2, <1>6
    <2>2. PICK u, v : u = Nth(hand, i)' /\ v = Nth(hand, i + 1)'
      OBVIOUS
    <2>3. Sent(u)' /\ Follows(u, v)
      BY <2>1, <2>2, <1>9
    <2> QED
      BY <2>2, <2>3 DEF Sent, Follows
  <1>11. Nth(hand, 1)'.req = n /\ Nth(hand, 1)'.at = 1
    BY <1>6, <1>7 DEF InLine
  <1>12. InLine(hand, n)'
    BY <1>10, <1>11 DEF InLine
  <1> QED
    BY <1>12

\* What the thread has in hand, the number of the last answer, and whether no request
\* is taken any more, since a status is to be sent and the connection closed.
Hand   == IF apiPc = "serve" THEN buf ELSE in
Latest == API!Exchange!LastAnswered
Ending == out # API!NoReply /\ closeWhenWritten

\* Requests are answered in order, and those that are not answered wait in order.
APIOpen ==
  /\ Len(in) <= API_MAX_REQUEST_SIZE /\ Len(Hand) <= API_MAX_REQUEST_SIZE
  /\ Latest \in Nat
  /\ out \in 0 .. NReq + 1
  /\ apiPc \in {"read", "serve"} => out = API!NoReply
  /\ apiPc = "write" => out # API!NoReply
  /\ out = 0 => closeWhenWritten
  /\ out \in 1 .. NReq => out = Latest + 1 /\ out <= API!Requested
  /\ ~Ending => InLine(Hand, IF out = API!NoReply THEN Latest + 1 ELSE out + 1)

APIInv ==
  /\ ClientTypes
  /\ in \in Seq(Unit) /\ buf \in Seq(Unit)
  /\ apiPc \in {"wait", "read", "serve", "write", "closed"}
  /\ apiPc # "closed" => APIOpen

Exchanged == [API!Exchange!Next]_(API!Exchange!vars)

\* Nothing happens that the client sees.
LEMMA Unseen ==
  ASSUME apiAnswers' = apiAnswers, API!Requested' = API!Requested,
         apiPc = "closed" <=> apiPc' = "closed"
  PROVE  Exchanged
  BY DEF Exchanged, API!Exchange!vars

LEMMA ConnectionEnds ==
  ASSUME API!Requested' = API!Requested, apiPc # "closed", apiPc' = "closed",
         apiAnswers' \in {apiAnswers, Append(apiAnswers, 0)}
  PROVE  Exchanged
  BY DEF Exchanged, API!Exchange!Next, API!Exchange!End

LEMMA RequestIsAnswered ==
  ASSUME NEW n \in Nat, n = Latest + 1, n <= API!Requested, API!Requested \in Nat,
         Latest \in Nat, API!Requested' = API!Requested, apiPc # "closed",
         apiAnswers' = Append(apiAnswers, n)
  PROVE  Exchanged
  <1>1. n \in (Latest + 1) .. API!Requested
    OBVIOUS
  <1>2. (apiPc # "closed")' \in BOOLEAN /\ (apiPc # "closed") = TRUE
    OBVIOUS
  <1> QED
    BY <1>1, <1>2 DEF Exchanged, API!Exchange!Next, API!Exchange!Answer, Latest

LEMMA RestIsClosed ==
  ASSUME APIInv, API!Close, UNCHANGED << API!client, sock >>
  PROVE  APIInv' /\ apiPc' = "closed" /\ API!Requested' = API!Requested
  <1>1. ClientTypes'
    BY DEF APIInv, API!client, ClientTypes, API!Size
  <1>2. in' \in Seq(Unit) /\ buf' \in Seq(Unit) /\ apiPc' = "closed"
    BY DEF API!Close
  <1>3. API!Requested' = API!Requested
    BY DEF API!Requested, API!client
  <1> QED
    BY <1>1, <1>2, <1>3 DEF APIInv

LEMMA LatestIs ==
  ASSUME NEW n \in Nat, apiAnswers' = Append(apiAnswers, n)
  PROVE  Latest' = n
  BY DEF Latest, API!Exchange!LastAnswered

\* The socket does not take all of a response: the thread keeps it, and what it has in
\* hand behind the request.
LEMMA ResponseIsDeferred ==
  ASSUME APIInv, apiPc # "closed", NEW n \in 0 .. NReq, NEW rest \in Seq(Unit),
         Len(rest) <= API_MAX_REQUEST_SIZE, n = 0 => closeWhenWritten',
         n # 0 => n = Latest + 1 /\ n <= API!Requested,
         ~closeWhenWritten' => InLine(rest, n + 1),
         UNCHANGED << API!client, sock, apiAnswers >>,
         out' = n, apiPc' = "wait", in' = rest, buf' = << >>
  PROVE  APIInv' /\ Exchanged
  <1>1. ClientTypes' /\ API!Requested' = API!Requested
    BY DEF APIInv, API!client, ClientTypes, API!Size, API!Requested
  <1>2. Latest' = Latest /\ Latest \in Nat /\ n # API!NoReply /\ n \in 0 .. NReq + 1
    BY RequestsAssumption DEF APIInv, APIOpen, Latest, API!Exchange!LastAnswered, API!NoReply
  <1>3. InLine(rest, n + 1)' <=> InLine(rest, n + 1)
    BY DEF API!client, InLine, Nth, Ahead, API!Requested, Sent, Follows, API!Size
  <1>4. Hand' = rest /\ (~Ending' => ~closeWhenWritten')
    BY <1>2 DEF Hand, Ending, API!NoReply
  <1>5. (~Ending => InLine(Hand, IF out = API!NoReply THEN Latest + 1 ELSE out + 1))'
    <2> SUFFICES ASSUME ~Ending' PROVE InLine(Hand, IF out = API!NoReply THEN Latest + 1 ELSE out + 1)'
      OBVIOUS
    <2>2. InLine(rest, n + 1)'
      BY <1>3, <1>4
    <2>3. Hand' = rest /\ (IF out = API!NoReply THEN Latest + 1 ELSE out + 1)' = n + 1
      BY <1>2, <1>4 DEF Hand, API!NoReply
    <2> QED
      BY <2>2, <2>3 DEF InLine, Nth
  <1>6. APIOpen'
    BY <1>1, <1>2, <1>4, <1>5 DEF APIOpen, Hand, API!NoReply
  <1>7. APIInv'
    BY <1>1, <1>6 DEF APIInv
  <1>8. Exchanged
    BY <1>1, Unseen
  <1> QED
    BY <1>7, <1>8

\* A response goes out, and with it the connection ends if it is the last; or it does
\* not go out.
LEMMA ResponseIsSent ==
  ASSUME APIInv, apiPc # "closed", NEW n \in 0 .. NReq, NEW rest \in Seq(Unit),
         Len(rest) <= API_MAX_REQUEST_SIZE, NEW last \in BOOLEAN, n = 0 => last,
         n # 0 => n = Latest + 1 /\ n <= API!Requested,
         ~last => InLine(rest, n + 1),
         UNCHANGED << API!client, sock >>, API!Send(n, rest, last, FALSE)
  PROVE  APIInv' /\ Exchanged
  <1>1. CASE apiAnswers' = Append(apiAnswers, n) /\ API!Close
    <2>1. APIInv' /\ apiPc' = "closed" /\ API!Requested' = API!Requested
      BY <1>1, RestIsClosed
    <2>2. CASE n = 0
      BY <2>1, <2>2, <1>1, ConnectionEnds
    <2>3. CASE n # 0
      <3>1. n \in Nat /\ API!Requested \in Nat /\ Latest \in Nat
        BY AheadIsAUnit, RequestsAssumption DEF APIInv, APIOpen
      <3> QED
        BY <3>1, <2>1, <2>3, <1>1, RequestIsAnswered
    <2> QED
      BY <2>2, <2>3
  <1>2. CASE /\ out' = n /\ closeWhenWritten' = last /\ apiPc' = "wait" /\ in' = rest
             /\ buf' = << >> /\ apiAnswers' = apiAnswers
    <2>1. (n = 0 => closeWhenWritten') /\ (~closeWhenWritten' => InLine(rest, n + 1))
      BY <1>2
    <2> QED
      BY <1>2, <2>1, ResponseIsDeferred
  <1>3. CASE API!Close /\ apiAnswers' = apiAnswers
    BY <1>3, RestIsClosed, ConnectionEnds
  <1> QED
    BY <1>1, <1>2, <1>3 DEF API!Send

\* The states in which nothing changes but the place in the code.
LEMMA WaitsOrReads ==
  ASSUME APIInv, apiPc \in {"wait", "read", "write"}, apiPc' \in {"wait", "read", "write"},
         apiPc' = "read" => out = API!NoReply, apiPc' = "write" => out # API!NoReply,
         UNCHANGED << API!client, sock, in, buf, API!reply >>
  PROVE  APIInv' /\ Exchanged
  <1>1. ClientTypes' /\ API!Requested' = API!Requested
    BY DEF APIInv, API!client, ClientTypes, API!Size, API!Requested
  <1>2. /\ Hand' = Hand /\ Hand = in /\ Latest' = Latest /\ Ending' = Ending /\ out' = out
        /\ apiAnswers' = apiAnswers /\ closeWhenWritten' = closeWhenWritten
    BY DEF Hand, Latest, API!Exchange!LastAnswered, Ending, API!NoReply, API!reply
  <1>3. PICK h, n : h = Hand /\ n = (IF out = API!NoReply THEN Latest + 1 ELSE out + 1)
    OBVIOUS
  <1>4. InLine(h, n)' <=> InLine(h, n)
    BY DEF API!client, InLine, Nth, Ahead, API!Requested, Sent, Follows, API!Size
  <1>5. (~Ending => InLine(Hand, IF out = API!NoReply THEN Latest + 1 ELSE out + 1))'
    <2>1. ~Ending => InLine(h, n)
      BY <1>3 DEF APIInv, APIOpen
    <2>2. Hand' = h /\ (IF out = API!NoReply THEN Latest + 1 ELSE out + 1)' = n
      BY <1>2, <1>3 DEF API!NoReply
    <2> QED
      BY <1>2, <1>4, <2>1, <2>2 DEF InLine, Nth
  <1>6. APIOpen'
    BY <1>1, <1>2, <1>5 DEF APIInv, APIOpen, API!NoReply
  <1>7. APIInv'
    BY <1>1, <1>6 DEF APIInv
  <1>8. Exchanged
    BY <1>1, <1>2, Unseen
  <1> QED
    BY <1>7, <1>8

LEMMA ClientKeepsAPI ==
  ASSUME APIInv, API!ClientSends \/ API!ClientCloses
  PROVE  APIInv' /\ Exchanged
  <1>1. CASE API!ClientCloses
    <2>1. UNCHANGED << script, part, sock, apiPc, in, buf, out, closeWhenWritten, apiAnswers >>
      BY <1>1 DEF API!ClientCloses, API!reply
    <2>2. Hand' = Hand /\ Latest' = Latest /\ Ending' = Ending /\ API!Requested' = API!Requested
      BY <2>1 DEF Hand, Latest, API!Exchange!LastAnswered, Ending, API!NoReply, API!Requested
    <2>3. ClientTypes'
      BY <2>1 DEF APIInv, ClientTypes, API!Size
    <2>4. PICK h, n : h = Hand /\ n = (IF out = API!NoReply THEN Latest + 1 ELSE out + 1)
      OBVIOUS
    <2>5. InLine(h, n)' <=> InLine(h, n)
      BY <2>1 DEF InLine, Nth, Ahead, API!Requested, Sent, Follows, API!Size
    <2>6. apiPc # "closed" =>
            (~Ending => InLine(Hand, IF out = API!NoReply THEN Latest + 1 ELSE out + 1))'
      <3>1. apiPc # "closed" /\ ~Ending => InLine(h, n)
        BY <2>4 DEF APIInv, APIOpen
      <3>2. Hand' = h /\ (IF out = API!NoReply THEN Latest + 1 ELSE out + 1)' = n
        BY <2>1, <2>2, <2>4 DEF API!NoReply
      <3> QED
        BY <2>2, <2>5, <3>1, <3>2 DEF InLine, Nth
    <2>7. apiPc # "closed" => APIOpen'
      BY <2>1, <2>2, <2>6 DEF APIInv, APIOpen, API!NoReply
    <2>8. APIInv'
      BY <2>1, <2>3, <2>7 DEF APIInv
    <2> QED
      BY <2>1, <2>2, <2>8, Unseen
  <1>2. CASE API!ClientSends
    <2>1. UNCHANGED << apiPc, in, buf, out, closeWhenWritten, apiAnswers >>
      BY <1>2 DEF API!ClientSends, API!reply
    <2>2. Hand' = Hand /\ Latest' = Latest /\ Ending' = Ending
      BY <2>1 DEF Hand, Latest, API!Exchange!LastAnswered, Ending, API!NoReply
    <2>3. PICK h, n : h = Hand /\ n = (IF out = API!NoReply THEN Latest + 1 ELSE out + 1)
      OBVIOUS
    <2>4. /\ ClientTypes' /\ API!Requested \in 0 .. NReq
          /\ \/ API!Requested' = API!Requested
             \/ API!Requested < NReq /\ API!Requested' = API!Requested + 1
      BY <1>2, ClientGoesOn, AheadIsAUnit DEF APIInv
    <2>5. apiPc # "closed" =>
            (~Ending => InLine(Hand, IF out = API!NoReply THEN Latest + 1 ELSE out + 1))'
      <3> SUFFICES ASSUME apiPc # "closed", ~Ending
                   PROVE  InLine(Hand, IF out = API!NoReply THEN Latest + 1 ELSE out + 1)'
        BY <2>2
      <3>1. InLine(h, n) /\ h \in Seq(Unit) /\ n \in Nat
        BY <2>3 DEF APIInv, APIOpen, Hand
      <3>2. InLine(h, n)'
        BY <1>2, <3>1, SentInLine DEF APIInv
      <3>3. Hand' = h /\ (IF out = API!NoReply THEN Latest + 1 ELSE out + 1)' = n
        BY <2>1, <2>2, <2>3 DEF API!NoReply
      <3> QED
        BY <3>2, <3>3 DEF InLine, Nth
    <2>6. apiPc # "closed" => APIOpen'
      <3>1. \A n_ \in Nat : n_ <= API!Requested => n_ <= API!Requested'
        BY <2>4, RequestsAssumption
      <3> QED
        BY <2>1, <2>2, <2>5, <3>1 DEF APIInv, APIOpen, API!NoReply
    <2>7. APIInv'
      BY <2>1, <2>4, <2>6 DEF APIInv
    <2>8. Exchanged
      <3>1. API!Exchange!Ask \/ UNCHANGED API!Exchange!vars
        BY <2>1, <2>4 DEF API!Exchange!Ask, API!Exchange!vars
      <3> QED
        BY <3>1 DEF Exchanged, API!Exchange!Next
    <2> QED
      BY <2>7, <2>8
  <1> QED
    BY <1>1, <1>2

LEMMA EventKeepsAPI ==
  ASSUME APIInv, API!Event \/ API!EventError \/ API!ReadNothing \/ API!ReadEnd \/ API!StillFull
                 \/ API!WriteFails
  PROVE  APIInv' /\ Exchanged
  <1>1. ASSUME API!Close, UNCHANGED << API!client, sock, apiAnswers >>, apiPc # "closed"
        PROVE  APIInv' /\ Exchanged
    BY <1>1, RestIsClosed, ConnectionEnds
  <1>2. CASE API!EventError \/ API!ReadEnd \/ API!WriteFails
    BY <1>1, <1>2 DEF API!EventError, API!ReadEnd, API!WriteFails, API!client
  <1>3. CASE API!Event
    <2>1. /\ apiPc = "wait" /\ apiPc' = IF out # API!NoReply THEN "write" ELSE "read"
          /\ UNCHANGED << API!client, sock, in, buf, API!reply >>
      BY <1>3 DEF API!Event
    <2> QED
      BY <2>1, WaitsOrReads
  <1>4. CASE API!ReadNothing \/ API!StillFull
    <2>1. /\ apiPc \in {"read", "write"} /\ apiPc' = "wait"
          /\ UNCHANGED << API!client, sock, in, buf, API!reply >>
      BY <1>4 DEF API!ReadNothing, API!StillFull
    <2> QED
      BY <2>1, WaitsOrReads
  <1> QED
    BY <1>2, <1>3, <1>4

LEMMA RefusalKeepsAPI ==
  ASSUME APIInv, API!ReadTooLarge \/ API!ServeRefused
  PROVE  APIInv' /\ Exchanged
  <1>1. PICK rest : /\ rest = Hand /\ API!Send(0, rest, TRUE, FALSE) /\ apiPc \in {"read", "serve"}
                    /\ UNCHANGED << API!client, sock >>
    BY DEF API!ReadTooLarge, API!ServeRefused, Hand
  <1>2. rest \in Seq(Unit) /\ Len(rest) <= API_MAX_REQUEST_SIZE /\ 0 \in 0 .. NReq
    BY <1>1, RequestsAssumption DEF APIInv, APIOpen, Hand
  <1>3. apiPc # "closed"
    BY <1>1
  <1> QED
    BY <1>1, <1>2, <1>3, ResponseIsSent

LEMMA ReadKeepsAPI ==
  ASSUME APIInv, API!Read
  PROVE  APIInv' /\ Exchanged
  <1>1. /\ apiPc = "read" /\ apiPc' = "serve" /\ UNCHANGED << API!client, in, API!reply >>
        /\ Len(in) < API_MAX_REQUEST_SIZE /\ in \in Seq(Unit) /\ Len(in) \in Nat
        /\ sock \in Seq(Unit) /\ Len(sock) \in Nat
    BY DEF API!Read, APIInv, ClientTypes
  <1>2. PICK taken \in 0 .. Len(sock) :
          /\ buf' = in \o SubSeq(sock, 1, taken) /\ sock' = SubSeq(sock, taken + 1, Len(sock))
          /\ Len(in) + taken <= API_MAX_REQUEST_SIZE
    <2>1. PICK space \in API!Space :
            LET taken == IF Len(sock) < space THEN Len(sock) ELSE space
            IN  /\ buf' = in \o SubSeq(sock, 1, taken)
                /\ sock' = SubSeq(sock, taken + 1, Len(sock))
                /\ again' = (taken = space)
      BY DEF API!Read
    <2>2. space \in Nat /\ Len(in) + space <= API_MAX_REQUEST_SIZE
      <3>1. CASE in = << >>
        <4>1. Len(in) = 0 /\ space = API_MAX_REQUEST_SIZE
          BY <3>1, <2>1 DEF API!Space
        <4> QED
          BY <4>1, SizeAssumption
      <3>2. CASE in # << >>
        <4>1. space \in 1 .. API_MAX_REQUEST_SIZE - Len(in)
          BY <3>2, <2>1 DEF API!Space
        <4> QED
          BY <4>1, <1>1, SizeAssumption
      <3> QED
        BY <3>1, <3>2
    <2>3. PICK taken : taken = IF Len(sock) < space THEN Len(sock) ELSE space
      OBVIOUS
    <2>4. taken \in 0 .. Len(sock) /\ Len(in) + taken <= API_MAX_REQUEST_SIZE
      BY <2>2, <2>3, <1>1, SizeAssumption
    <2> QED
      BY <2>1, <2>3, <2>4
  <1>3. PICK more, hand : more = buf' /\ hand = in
    OBVIOUS
  <1>4. Moves(hand, more, taken) /\ UNCHANGED << script, part >>
    BY <1>1, <1>2, <1>3 DEF Moves, API!client
  <1>5. /\ InLine(hand, Latest + 1) /\ hand \in Seq(Unit) /\ Latest + 1 \in Nat /\ ClientTypes
        /\ out = API!NoReply /\ Latest \in Nat
    BY <1>1, <1>3 DEF APIInv, APIOpen, Hand, Ending
  <1>6. PICK n : n = Latest + 1
    OBVIOUS
  <1>7. /\ ClientTypes' /\ more \in Seq(Unit) /\ Len(more) = Len(hand) + taken
        /\ InLine(more, n)'
    BY <1>4, <1>5, <1>6, ReadInLine
  <1>8. /\ Hand' = more /\ Latest' = Latest /\ API!Requested' = API!Requested
        /\ out' = out /\ apiAnswers' = apiAnswers
    BY <1>1, <1>3 DEF Hand, Latest, API!Exchange!LastAnswered, API!Requested, API!client, API!reply
  <1>9. InLine(Hand, IF out = API!NoReply THEN Latest + 1 ELSE out + 1)'
    <2>1. Hand' = more /\ (IF out = API!NoReply THEN Latest + 1 ELSE out + 1)' = n
      BY <1>5, <1>6, <1>8 DEF API!NoReply
    <2> QED
      BY <2>1, <1>7 DEF InLine, Nth
  <1>10. APIOpen'
    <2>1. Len(more) <= API_MAX_REQUEST_SIZE /\ Len(in') <= API_MAX_REQUEST_SIZE
      BY <1>1, <1>2, <1>3, <1>7 DEF APIInv, APIOpen
    <2>2. out' = API!NoReply /\ API!NoReply = NReq + 1
      BY <1>5, <1>8 DEF API!NoReply
    <2> QED
      BY <1>1, <1>5, <1>8, <1>9, <2>1, <2>2, RequestsAssumption DEF APIOpen, API!NoReply
  <1>11. APIInv'
    BY <1>1, <1>3, <1>7, <1>10 DEF APIInv
  <1> QED
    BY <1>1, <1>8, <1>11, Unseen

LEMMA RestKeepsAPI ==
  ASSUME APIInv, API!ServeRest
  PROVE  APIInv' /\ Exchanged
  <1>1. /\ apiPc = "serve" /\ apiPc' \in {"read", "wait"} /\ UNCHANGED << API!client, sock, API!reply >>
        /\ in' = SubSeq(buf, 0 + 1, Len(buf)) /\ buf' = << >>
    BY DEF API!ServeRest, API!KeepTail
  <1>2. in' = buf /\ buf \in Seq(Unit)
    <2>1. buf \in Seq(Unit)
      BY DEF APIInv
    <2>2. SubSeq(buf, 0 + 1, Len(buf)) = buf
      BY <2>1
    <2> QED
      BY <1>1, <2>1, <2>2
  <1>3. /\ ClientTypes' /\ API!Requested' = API!Requested
    BY <1>1 DEF APIInv, API!client, ClientTypes, API!Size, API!Requested
  <1>4. /\ Hand' = Hand /\ Hand = buf /\ Latest' = Latest /\ Ending' = Ending /\ out' = out
        /\ apiAnswers' = apiAnswers /\ closeWhenWritten' = closeWhenWritten
    BY <1>1, <1>2 DEF Hand, Latest, API!Exchange!LastAnswered, Ending, API!NoReply, API!reply
  <1>5. PICK h, n : h = Hand /\ n = (IF out = API!NoReply THEN Latest + 1 ELSE out + 1)
    OBVIOUS
  <1>6. InLine(h, n)' <=> InLine(h, n)
    BY <1>1 DEF API!client, InLine, Nth, Ahead, API!Requested, Sent, Follows, API!Size
  <1>7. (~Ending => InLine(Hand, IF out = API!NoReply THEN Latest + 1 ELSE out + 1))'
    <2>1. ~Ending => InLine(h, n)
      BY <1>1, <1>5 DEF APIInv, APIOpen
    <2>2. Hand' = h /\ (IF out = API!NoReply THEN Latest + 1 ELSE out + 1)' = n
      BY <1>4, <1>5 DEF API!NoReply
    <2> QED
      BY <1>4, <1>6, <2>1, <2>2 DEF InLine, Nth
  <1>8. APIOpen'
    BY <1>1, <1>2, <1>3, <1>4, <1>7 DEF APIInv, APIOpen, API!NoReply
  <1>9. APIInv'
    BY <1>1, <1>2, <1>3, <1>8 DEF APIInv
  <1> QED
    BY <1>1, <1>3, <1>4, <1>9, Unseen

\* A step after which the thread has hand in hand behind request n, just answered.
LEMMA GoesOnBehind ==
  ASSUME APIInv, apiPc # "closed", NEW n \in Nat, NEW hand \in Seq(Unit),
         n = Latest + 1, n <= API!Requested, apiAnswers' = Append(apiAnswers, n),
         Len(hand) <= API_MAX_REQUEST_SIZE, Len(in) <= API_MAX_REQUEST_SIZE,
         InLine(hand, n + 1), out' = API!NoReply, in' = in, buf' \in Seq(Unit),
         Hand' = hand, apiPc' \in {"wait", "serve"}, UNCHANGED << API!client, sock >>
  PROVE  APIInv' /\ Exchanged
  <1>1. /\ ClientTypes' /\ API!Requested' = API!Requested /\ API!Requested \in Nat
        /\ Latest \in Nat
    BY AheadIsAUnit, RequestsAssumption
    DEF APIInv, APIOpen, API!client, ClientTypes, API!Size, API!Requested
  <1>2. Latest' = n
    BY LatestIs
  <1>3. InLine(hand, n + 1)' <=> InLine(hand, n + 1)
    BY DEF API!client, InLine, Nth, Ahead, API!Requested, Sent, Follows, API!Size
  <1>4. InLine(Hand, IF out = API!NoReply THEN Latest + 1 ELSE out + 1)'
    <2>1. Hand' = hand /\ (IF out = API!NoReply THEN Latest + 1 ELSE out + 1)' = n + 1
      BY <1>2 DEF API!NoReply
    <2> QED
      BY <2>1, <1>3 DEF InLine, Nth
  <1>5. APIOpen'
    <2>1. out' = API!NoReply /\ API!NoReply = NReq + 1
      BY DEF API!NoReply
    <2> QED
      BY <1>1, <1>2, <1>4, <2>1, RequestsAssumption DEF APIOpen, API!NoReply
  <1>6. APIInv'
    BY <1>1, <1>5 DEF APIInv
  <1> QED
    BY <1>1, <1>6, RequestIsAnswered

LEMMA ServeKeepsAPI ==
  ASSUME APIInv, API!Serve
  PROVE  APIInv' /\ Exchanged
  <1>1. /\ apiPc = "serve" /\ API!NextFrame(buf) = "ready" /\ UNCHANGED << API!client, sock >>
        /\ buf \in Seq(Unit) /\ Len(buf) \in Nat /\ Len(buf) <= API_MAX_REQUEST_SIZE
        /\ Len(in) <= API_MAX_REQUEST_SIZE
    BY DEF API!Serve, APIInv, APIOpen, Hand
  <1>2. PICK n : n = Latest + 1
    OBVIOUS
  <1>3. InLine(buf, n) /\ n \in Nat \ {0} /\ out = API!NoReply /\ ClientTypes
    BY <1>1, <1>2 DEF APIInv, APIOpen, Hand, Ending
  <1>4. /\ buf # << >> /\ buf[1] \in Unit /\ buf[1].req = n /\ Head(buf) = buf[1]
        /\ Len(buf) >= 1
    <2>1. buf # << >>
      BY <1>1 DEF API!NextFrame
    <2>2. Len(buf) >= 1 /\ buf[1] \in Unit /\ Head(buf) = buf[1]
      BY <1>1, <2>1
    <2> QED
      BY <2>1, <2>2, <1>1, <1>3 DEF InLine, Nth
  <1>5. PICK k \in {1, 2} : k = API!Size(buf[1].kind) /\ k <= Len(buf)
    <2>1. buf[1].kind \in API!RequestKinds /\ Len(buf) >= API!Size(buf[1].kind)
      <3>1. API!Size(buf[1].kind) \in Nat
        BY <1>4, SizeIsPositive DEF Unit
      <3>2. ~(Len(buf) < API!Size(buf[1].kind))
        BY <1>1, <1>4 DEF API!NextFrame
      <3> QED
        BY <1>1, <1>4, <3>1, <3>2 DEF Unit
    <2>2. buf[1].kind # "huge"
      BY <2>1, <1>1, SizeAssumption DEF API!Size
    <2>3. API!Size(buf[1].kind) \in {1, 2}
      BY <2>1, <2>2 DEF API!Size, API!RequestKinds
    <2> QED
      BY <2>1, <2>3, <1>1
  <1>6. PICK rest : rest = SubSeq(buf, k + 1, Len(buf))
    OBVIOUS
  <1>7. /\ n <= API!Requested /\ rest \in Seq(Unit) /\ InLine(rest, n + 1)
        /\ API!KeepTail(buf, API!TotalLength(buf)) = rest
    BY <1>1, <1>3, <1>4, <1>5, <1>6, ConsumedInLine DEF API!KeepTail, API!TotalLength
  <1>8. Len(rest) <= API_MAX_REQUEST_SIZE
    <2>1. Len(rest) = Len(buf) - k
      BY <1>1, <1>5, <1>6
    <2> QED
      BY <2>1, <1>1, <1>5, SizeAssumption
  <1>9. n \in 0 .. NReq /\ 0 \in 0 .. NReq
    BY <1>3, <1>7, AheadIsAUnit, RequestsAssumption
  <1>10. CASE API!Send(0, rest, TRUE, FALSE)
    BY <1>1, <1>7, <1>8, <1>9, <1>10, ResponseIsSent
  <1>11. ASSUME NEW last \in BOOLEAN, API!Send(n, rest, last, FALSE)
         PROVE  APIInv' /\ Exchanged
    BY <1>1, <1>2, <1>3, <1>7, <1>8, <1>9, <1>11, ResponseIsSent
  <1>12. CASE /\ apiAnswers' = Append(apiAnswers, n) /\ buf' = rest
              /\ UNCHANGED << apiPc, in, out >>
    <2>1. Hand' = rest
      BY <1>1, <1>12 DEF Hand
    <2> QED
      BY <1>1, <1>2, <1>3, <1>7, <1>8, <1>12, <2>1, GoesOnBehind
  <1>13. \/ API!Send(0, rest, TRUE, FALSE)
         \/ \E last \in BOOLEAN : API!Send(n, rest, last, FALSE)
         \/ /\ apiAnswers' = Append(apiAnswers, n) /\ buf' = rest
            /\ UNCHANGED << apiPc, in, out >>
    <2>1. \/ API!Send(0, rest, TRUE, FALSE)
          \/ API!Send(n, rest, ~API!KeepAlive(buf),
                      buf' = rest /\ UNCHANGED << apiPc, in, again >>)
      BY <1>4, <1>7 DEF API!Serve
    <2>2. PICK last \in BOOLEAN : last = ~API!KeepAlive(buf)
      BY DEF API!KeepAlive
    <2>3. \/ API!Send(0, rest, TRUE, FALSE)
          \/ API!Send(n, rest, last, FALSE)
          \/ /\ apiAnswers' = Append(apiAnswers, n) /\ buf' = rest
             /\ UNCHANGED << apiPc, in, out >>
      BY <2>1, <2>2, Zenon DEF API!Send
    <2> QED
      BY <2>3
  <1> QED
    BY <1>10, <1>11, <1>12, <1>13

LEMMA WrittenKeepsAPI ==
  ASSUME APIInv, API!Written
  PROVE  APIInv' /\ Exchanged
  <1>1. /\ apiPc = "write" /\ apiAnswers' = Append(apiAnswers, out)
        /\ UNCHANGED << API!client, sock >> /\ APIOpen /\ ClientTypes /\ in \in Seq(Unit)
        /\ out # API!NoReply /\ out \in 0 .. NReq /\ API!Requested \in Nat /\ Latest \in Nat
    BY AheadIsAUnit, RequestsAssumption DEF API!Written, APIInv, APIOpen, API!NoReply
  <1>2. CASE closeWhenWritten
    <2>1. API!Close
      BY <1>2 DEF API!Written
    <2>2. APIInv' /\ apiPc' = "closed" /\ API!Requested' = API!Requested
      BY <1>1, <2>1, RestIsClosed
    <2>3. CASE out = 0
      BY <2>2, <2>3, <1>1, ConnectionEnds
    <2>4. CASE out # 0
      <3>1. out \in Nat /\ out = Latest + 1 /\ out <= API!Requested
        BY <1>1, <2>4 DEF APIOpen
      <3> QED
        BY <3>1, <2>2, <1>1, RequestIsAnswered
    <2> QED
      BY <2>3, <2>4
  <1>3. CASE ~closeWhenWritten
    <2>1. /\ out' = API!NoReply /\ buf' = in /\ in' = in
          /\ apiPc' = IF in # << >> THEN "serve" ELSE "wait"
      BY <1>3 DEF API!Written
    <2>2. PICK n, hand : n = out /\ hand = in
      OBVIOUS
    <2>3. /\ n \in Nat /\ n = Latest + 1 /\ n <= API!Requested
          /\ InLine(hand, n + 1) /\ Len(in) <= API_MAX_REQUEST_SIZE
      BY <1>1, <1>3, <2>2 DEF APIOpen, Hand, Ending
    <2>4. Hand' = hand
      BY <2>1, <2>2 DEF Hand
    <2> QED
      BY <1>1, <2>1, <2>2, <2>3, <2>4, GoesOnBehind
  <1> QED
    BY <1>2, <1>3

LEMMA APIStep ==
  ASSUME APIInv, API!Next
  PROVE  APIInv' /\ Exchanged
  <1>1. \/ API!ClientSends \/ API!ClientCloses
        \/ API!Event \/ API!EventError \/ API!ReadNothing \/ API!ReadEnd \/ API!StillFull
        \/ API!WriteFails
        \/ API!ReadTooLarge \/ API!ServeRefused \/ API!Read \/ API!ServeRest \/ API!Serve
        \/ API!Written
    BY DEF API!Next, API!Thread
  <1> QED
    BY <1>1, ClientKeepsAPI, EventKeepsAPI, RefusalKeepsAPI, ReadKeepsAPI, RestKeepsAPI,
       ServeKeepsAPI, WrittenKeepsAPI

LEMMA APIRests ==
  ASSUME APIInv, UNCHANGED apiVars
  PROVE  APIInv' /\ Exchanged
  <1>1. CASE apiPc = "closed"
    <2>1. ClientTypes' /\ API!Requested' = API!Requested
      BY DEF apiVars, APIInv, ClientTypes, API!Size, API!Requested
    <2>2. APIInv'
      BY <1>1, <2>1 DEF APIInv, apiVars
    <2> QED
      BY <2>1, <2>2, Unseen DEF apiVars
  <1>2. CASE apiPc # "closed"
    <2>1. APIInv' <=> APIInv
      BY DEF apiVars, APIInv, APIOpen, ClientTypes, InLine, Nth, Ahead, API!Requested, Sent, Follows,
             API!Size, Hand, Latest, API!Exchange!LastAnswered, Ending, API!NoReply
    <2>2. API!Requested' = API!Requested
      BY DEF apiVars, API!Requested
    <2> QED
      BY <2>1, <2>2, Unseen DEF apiVars
  <1> QED
    BY <1>1, <1>2

LEMMA ScriptIsASequence ==
  ASSUME NEW S, NEW n \in Nat, NEW s \in [1 .. n -> S]
  PROVE  s \in Seq(S) /\ Len(s) = n
  <1>1. s \in Seq(S) /\ DOMAIN s = 1 .. n
    OBVIOUS
  <1>2. DOMAIN s = 1 .. Len(s) /\ Len(s) \in Nat
    BY <1>1
  <1> QED
    BY <1>1, <1>2

LEMMA InitAPI ==
  ASSUME MCInit
  PROVE  APIInv /\ API!Exchange!Init
  <1>1. /\ script \in [1 .. NReq -> Kinds] \/ script \in [1 .. NReq -> {"get"}]
        /\ part = 0 /\ sock = << >> /\ apiPc = "wait" /\ in = << >> /\ buf = << >>
        /\ out = API!NoReply /\ apiAnswers = << >>
    BY DEF MCInit, API!Init, NoAPI
  <1>2. script \in Seq(API!RequestKinds) /\ Len(script) = NReq
    <2>1. CASE script \in [1 .. NReq -> Kinds]
      <3>1. script \in [1 .. NReq -> API!RequestKinds]
        BY <2>1, KindsAssumption
      <3> QED
        BY <3>1, ScriptIsASequence, RequestsAssumption
    <2>2. CASE script \in [1 .. NReq -> {"get"}]
      <3>1. script \in [1 .. NReq -> API!RequestKinds]
        BY <2>2 DEF API!RequestKinds
      <3> QED
        BY <3>1, ScriptIsASequence, RequestsAssumption
    <2> QED
      BY <1>1, <2>1, <2>2
  <1>3. API!Requested = 0
    BY <1>2, RequestsAssumption DEF API!Requested
  <1>4. ClientTypes
    <2>1. script # << >> => 0 < API!Size(Head(script))
      <3>1. ASSUME script # << >> PROVE Head(script) \in API!RequestKinds
        BY <3>1, <1>2
      <3> QED
        BY <3>1, SizeIsPositive
    <2>2. sock \in Seq(Unit)
      BY <1>1
    <2> QED
      BY <1>1, <1>2, <2>1, <2>2, RequestsAssumption DEF ClientTypes
  <1>5. Latest = 0 /\ Hand = << >> /\ Len(<< >>) = 0 /\ ~Ending
    BY <1>1 DEF Latest, API!Exchange!LastAnswered, Hand, Ending
  <1>6. InLine(<< >>, 1)
    <2>1. Nth(<< >>, 1) = Ahead
      BY <1>1 DEF Nth
    <2> QED
      BY <2>1, <1>1, <1>3 DEF InLine, Ahead
  <1>7. APIOpen
    BY <1>1, <1>3, <1>5, <1>6, RequestsAssumption, SizeAssumption DEF APIOpen, API!NoReply
  <1>8. APIInv
    BY <1>1, <1>4, <1>7 DEF APIInv
  <1>9. API!Exchange!Init
    BY <1>1, <1>3 DEF API!Exchange!Init
  <1> QED
    BY <1>8, <1>9

-----------------------------------------------------------------------------

\* A step of the run is a step of one of the four, and the others rest.
LEMMA RunOfFour ==
  ASSUME [MCNext]_<< view, vars, apiVars, fileVars, acceptVars >>
  PROVE  /\ API!Next \/ UNCHANGED apiVars
         /\ Files!Next \/ UNCHANGED fileVars
         /\ Accept!Next \/ UNCHANGED acceptVars
         /\ Next \/ UNCHANGED vars
  BY DEF MCNext

\* ExchangeSpec: an API connection of the epoll thread answers requests in order, each at
\* most once, skips none that its client has pipelined, and keeps what it received behind
\* a request whose response is deferred (SendApiResponse, HandleApiWritable), wherever
\* recv and send stop.
THEOREM APIImplementsExchange == MCSpec => ExchangeSpec
  <1>1. MCInit => APIInv /\ API!Exchange!Init
    BY InitAPI
  <1>2. APIInv /\ [MCNext]_<< view, vars, apiVars, fileVars, acceptVars >> => APIInv' /\ Exchanged
    BY RunOfFour, APIStep, APIRests
  <1> QED
    BY <1>1, <1>2, PTL DEF MCSpec, ExchangeSpec, API!ExchangeSpec, API!Exchange!Spec, Exchanged

-----------------------------------------------------------------------------
(* The file: ranges *)

RangeKinds == {"none", "bad", "suffix", "open", "closed"} \X Nat \X Nat

\* What is resolved is what was asked for, of a representation of any size.
LEMMA ResolvedAsWanted ==
  ASSUME NEW range \in RangeKinds, Files!RangeRequested(range), NEW size \in Nat,
         NEW s, s = Files!ResolveByteRange(range, size)
  PROVE  /\ s.start = -1 => Files!Wanted(range, size) = {}
         /\ s.start # -1 =>
              /\ s.start \in Nat /\ s.length \in Nat \ {0} /\ s.start + s.length <= size
              /\ s.start .. s.start + s.length - 1 = Files!Wanted(range, size)
  <1>1. range[1] \in {"suffix", "open", "closed"} /\ range[2] \in Nat /\ range[3] \in Nat
    BY DEF RangeKinds, Files!RangeRequested, Files!Closed
  <1>2. CASE range[1] = "suffix"
    <2>1. Files!Wanted(range, size) = {b \in 0 .. size - 1 : b >= size - range[2]}
      BY <1>2 DEF Files!Wanted
    <2>2. s = IF size = 0 \/ range[2] = 0 THEN [start |-> -1, length |-> 0]
              ELSE IF range[2] >= size THEN [start |-> 0, length |-> size]
              ELSE [start |-> size - range[2], length |-> range[2]]
      BY <1>1, <1>2 DEF Files!ResolveByteRange
    <2> QED
      BY <1>1, <2>1, <2>2
  <1>3. CASE range[1] = "open"
    <2>1. Files!Wanted(range, size) = {b \in 0 .. size - 1 : b >= range[2]}
      BY <1>3 DEF Files!Wanted
    <2>2. s = IF range[2] >= size THEN [start |-> -1, length |-> 0]
              ELSE [start |-> range[2], length |-> size - range[2]]
      BY <1>1, <1>3 DEF Files!ResolveByteRange
    <2> QED
      BY <1>1, <2>1, <2>2
  <1>4. CASE range[1] = "closed"
    <2>1. Files!Wanted(range, size) = {b \in 0 .. size - 1 : b \in range[2] .. range[3]}
      BY <1>4 DEF Files!Wanted
    <2>2. /\ range[2] <= range[3]
          /\ s = IF range[2] >= size THEN [start |-> -1, length |-> 0]
                 ELSE IF range[3] >= size THEN [start |-> range[2], length |-> size - range[2]]
                 ELSE [start |-> range[2], length |-> range[3] - range[2] + 1]
      BY <1>1, <1>4 DEF Files!ResolveByteRange, Files!RangeRequested, Files!Closed
    <2> QED
      BY <1>1, <2>1, <2>2
  <1> QED
    BY <1>1, <1>2, <1>3, <1>4

LEMMA SameSequences ==
  ASSUME NEW S, NEW s \in Seq(S), NEW t \in Seq(S), Len(s) = Len(t),
         \A i \in 1 .. Len(s) : s[i] = t[i]
  PROVE  s = t
  <1>1. s = [i \in 1 .. Len(s) |-> s[i]] /\ t = [i \in 1 .. Len(t) |-> t[i]]
    OBVIOUS
  <1> QED
    BY <1>1

LEMMA Joined ==
  ASSUME NEW S, NEW s \in Seq(S), NEW t \in Seq(S)
  PROVE  s \o t \in Seq(S) /\ Len(s \o t) = Len(s) + Len(t)
  OBVIOUS

LEMMA BytesAreBytes ==
  ASSUME NEW a \in Nat, NEW n \in Nat
  PROVE  /\ Files!Bytes(a, n) \in Seq(Int) /\ Len(Files!Bytes(a, n)) = n
         /\ \A i \in 1 .. n : Files!Bytes(a, n)[i] = a + i - 1
  BY DEF Files!Bytes

LEMMA NoBytes == \A a \in Nat : Files!Bytes(a, 0) = << >>
  <1> SUFFICES ASSUME NEW a \in Nat PROVE Files!Bytes(a, 0) = << >>
    OBVIOUS
  <1>1. Files!Bytes(a, 0) \in Seq(Int) /\ Len(Files!Bytes(a, 0)) = 0
    BY BytesAreBytes
  <1> QED
    BY <1>1

LEMMA BytesGoOn ==
  ASSUME NEW a \in Nat, NEW n \in Nat, NEW m \in Nat
  PROVE  Files!Bytes(a, n) \o Files!Bytes(a + n, m) = Files!Bytes(a, n + m)
  <1>1. /\ Files!Bytes(a, n) \in Seq(Int) /\ Len(Files!Bytes(a, n)) = n
        /\ \A i \in 1 .. n : Files!Bytes(a, n)[i] = a + i - 1
    BY BytesAreBytes
  <1>2. /\ Files!Bytes(a + n, m) \in Seq(Int) /\ Len(Files!Bytes(a + n, m)) = m
        /\ \A i \in 1 .. m : Files!Bytes(a + n, m)[i] = (a + n) + i - 1
    <2>1. a + n \in Nat
      OBVIOUS
    <2> QED
      BY <2>1, BytesAreBytes
  <1>3. /\ Files!Bytes(a, n + m) \in Seq(Int) /\ Len(Files!Bytes(a, n + m)) = n + m
        /\ \A i \in 1 .. n + m : Files!Bytes(a, n + m)[i] = a + i - 1
    BY BytesAreBytes
  <1>4. PICK s, t : s = Files!Bytes(a, n) \o Files!Bytes(a + n, m) /\ t = Files!Bytes(a, n + m)
    OBVIOUS
  <1>5. s \in Seq(Int) /\ Len(s) = n + m /\ Len(t) = n + m /\ t \in Seq(Int)
    <2>1. /\ Files!Bytes(a, n) \o Files!Bytes(a + n, m) \in Seq(Int)
          /\ Len(Files!Bytes(a, n) \o Files!Bytes(a + n, m)) = n + m
      BY <1>1, <1>2, Joined, ZenonT(30)
    <2> QED
      BY <2>1, <1>3, <1>4
  <1>6. ASSUME NEW i \in 1 .. n + m PROVE s[i] = t[i]
    <2>1. CASE i <= n
      <3>1. s[i] = Files!Bytes(a, n)[i] /\ i \in 1 .. n
        BY <2>1, <1>1, <1>2, <1>4
      <3> QED
        BY <3>1, <1>1, <1>3, <1>4
    <2>2. CASE i > n
      <3>1. i - n \in 1 .. m /\ s[i] = Files!Bytes(a + n, m)[i - n]
        BY <2>2, <1>1, <1>2, <1>4, SMTT(20)
      <3>2. (a + n) + (i - n) - 1 = a + i - 1
        BY <3>1
      <3> QED
        BY <3>1, <3>2, <1>2, <1>3, <1>4
    <2> QED
      BY <2>1, <2>2
  <1>7. s = t
    BY <1>5, <1>6, SameSequences
  <1> QED
    BY <1>4, <1>7

\* What is left to send, as an unsigned number, after g bytes of length.
Leftover(w, length, g) == IF g <= length THEN length - g ELSE w + length - g

LEMMA Wrapped ==
  ASSUME NEW w \in Nat \ {0}, NEW x \in Int
  PROVE  /\ x \in 0 .. w - 1 => x % w = x
         /\ x \in -w .. -1 => x % w = x + w
  OBVIOUS

LEMMA LessLeftover ==
  ASSUME NEW w \in Nat, NEW most \in Nat, most < w, NEW length \in Nat, length <= most,
         NEW g \in Nat, NEW n \in Nat, g + n <= most
  PROVE  (Leftover(w, length, g) - n) % w = Leftover(w, length, g + n)
  <1>1. PICK x : x = Leftover(w, length, g) - n
    OBVIOUS
  <1>2. CASE g + n <= length
    <2>1. x \in 0 .. w - 1 /\ x = Leftover(w, length, g + n)
      BY <1>1, <1>2 DEF Leftover
    <2> QED
      BY <1>1, <2>1, Wrapped
  <1>3. CASE g <= length /\ g + n > length
    <2>1. x \in -w .. -1 /\ x + w = Leftover(w, length, g + n)
      BY <1>1, <1>3 DEF Leftover
    <2> QED
      BY <1>1, <2>1, Wrapped
  <1>4. CASE g > length
    <2>1. x \in 0 .. w - 1 /\ x = Leftover(w, length, g + n)
      BY <1>1, <1>4 DEF Leftover
    <2> QED
      BY <1>1, <2>1, Wrapped
  <1> QED
    BY <1>2, <1>3, <1>4

LEMMA PositionsMove ==
  ASSUME NEW a \in Nat, NEW c \in Nat, NEW s \in Nat, NEW n \in 1 .. c, a - c - s \in Nat
  PROVE  /\ a - c = s + (a - c - s)
         /\ a - (c - n) - s = (a - c - s) + n
         /\ (a - c - s) + n \in Nat /\ (a - c - s) + n <= a
         /\ n \in Nat /\ c - n \in Nat
  OBVIOUS

-----------------------------------------------------------------------------
(* The file: the answer *)

Promised == status \in {200, 206} /\ slice.start \in Nat /\ slice.length \in Nat

\* The bytes of the transfer that have gone out, in a file that has not changed.
Gone == at - chunk - slice.start

Transferring ==
  /\ file.size = rep.size
  /\ slice.start + slice.length <= rep.size
  /\ at \in Nat /\ chunk \in Nat /\ at <= rep.size
  /\ Gone \in Nat
  /\ body = Files!Bytes(slice.start, Gone)
  /\ left = Leftover(Width, slice.length, Gone)

\* Which answer is under way at which place in the code, and what of it has been sent.
FileInv ==
  /\ asked \in Files!RequestKinds
  /\ file.size \in -1 .. MaxSize /\ cached.size \in 0 .. MaxSize /\ rep.size \in 0 .. MaxSize
  /\ changes \in Nat
  /\ changes = 0 => file = cached
  /\ filePc \in {"decide", "open", "disk", "memory", "done"}
  /\ kept => filePc = "done"
  /\ filePc = "decide" => status = 0
  /\ filePc \in {"decide", "open", "memory"} => body = << >> /\ chunk = 0
  /\ filePc \in {"open", "disk", "memory"} => Promised /\ (whole \/ slow)
  /\ filePc \in {"open", "disk"} => asked.method # "HEAD"
  /\ filePc = "memory" /\ asked.method = "HEAD" => asked.target \in {"directory", "template"}
  /\ filePc \in {"open", "disk"} /\ changes = 0 =>
       file.size = rep.size /\ slice.start + slice.length <= rep.size
  /\ filePc = "disk" => at \in Int
  /\ filePc = "disk" /\ changes = 0 => Transferring
  /\ status = 206 => /\ Files!RangeRequested(asked.range)
                     /\ slice = Files!ResolveByteRange(asked.range, rep.size)
                     /\ slice.start # -1
  /\ status = 416 /\ changes = 0 =>
       /\ Files!RangeRequested(asked.range)
       /\ Files!ResolveByteRange(asked.range, cached.size).start = -1
  /\ KeptInStep

LEMMA FileInvIsRight ==
  ASSUME FileInv
  PROVE  RangeAsAsked /\ KeptInStep
  <1>1. asked.range \in RangeKinds
    BY DEF FileInv, Files!RequestKinds, RangeKinds
  <1>2. ASSUME status = 206
        PROVE  /\ slice.length > 0
               /\ slice.start .. slice.start + slice.length - 1
                    = Files!Wanted(asked.range, rep.size)
    <2>1. rep.size \in Nat
      BY WidthAssumption DEF FileInv
    <2> QED
      BY <1>1, <1>2, <2>1, ResolvedAsWanted DEF FileInv
  <1>3. ASSUME status = 416, changes = 0
        PROVE  \A size \in {file.size, cached.size} : Files!Wanted(asked.range, size) = {}
    <2>1. cached.size \in Nat /\ file.size = cached.size
      BY <1>3, WidthAssumption DEF FileInv
    <2>2. Files!Wanted(asked.range, cached.size) = {}
      BY <1>1, <1>3, <2>1, ResolvedAsWanted DEF FileInv
    <2> QED
      BY <2>1, <2>2
  <1> QED
    BY <1>2, <1>3 DEF FileInv, RangeAsAsked, Files!RangeAsAsked

LEMMA ChangeKeepsFile ==
  ASSUME FileInv, Files!Change
  PROVE  FileInv'
  <1>1. /\ changes' = changes + 1 /\ changes \in Nat /\ filePc # "done"
        /\ UNCHANGED << asked, cached, filePc, rep, slice, status, whole, at, chunk, body, kept,
                     slow >>
        /\ file'.size \in -1 .. MaxSize
    BY WidthAssumption DEF FileInv, Files!Change, Files!given, Files!transfer
  <1>2. changes' # 0 /\ changes' \in Nat /\ ~kept'
    BY <1>1 DEF FileInv
  <1>3. KeptInStep'
    BY <1>2 DEF KeptInStep, Files!KeptInStep
  <1> QED
    BY <1>1, <1>2, <1>3 DEF FileInv, Promised

LEMMA InitFile ==
  ASSUME MCInit
  PROVE  FileInv
  <1>1. asked \in Files!RequestKinds
    <2>1. asked \in Asked \/ asked = Ask("missing")
      BY DEF MCInit, NoFile, Files!Init
    <2>2. Ask("missing") \in Files!RequestKinds
      BY DEF Ask, Files!RequestKinds, NoRange
    <2> QED
      BY <2>1, <2>2, AskedAssumption
  <1>2. /\ file = cached /\ rep = file /\ file.size \in 0 .. MaxSize /\ changes = 0
        /\ body = << >> /\ chunk = 0 /\ kept = FALSE
        /\ (filePc = "decide" /\ status = 0) \/ (filePc = "done" /\ status = 404)
    BY WidthAssumption DEF MCInit, NoFile, Files!Init, Files!Files
  <1>3. KeptInStep
    BY <1>2 DEF KeptInStep, Files!KeptInStep
  <1> QED
    BY <1>1, <1>2, <1>3, WidthAssumption DEF FileInv

Unchanging == UNCHANGED << asked, cached, file, changes >>

Refused(code) == \E result \in BOOLEAN : Files!SendError(code, result)

LEMMA ErrorKeepsFile ==
  ASSUME FileInv, filePc = "decide", NEW code \in Nat \ {206},
         Refused(code), Unchanging,
         code = 416 /\ changes = 0 =>
           /\ Files!RangeRequested(asked.range)
           /\ Files!ResolveByteRange(asked.range, cached.size).start = -1
  PROVE  FileInv'
  <1>1. /\ UNCHANGED << asked, cached, file, changes, rep, body, chunk >> /\ body = << >> /\ chunk = 0
        /\ status' = code /\ filePc' = "done"
        /\ kept' = FALSE \/ slow' = TRUE
    BY DEF Refused, Files!SendError, Files!Return, Files!transfer, FileInv, Unchanging
  <1>2. KeptInStep'
    BY <1>1 DEF KeptInStep, Files!KeptInStep
  <1> QED
    BY <1>1, <1>2 DEF FileInv

LEMMA NotModifiedKeepsFile ==
  ASSUME FileInv, filePc = "decide", NEW rep_, rep_.size \in 0 .. MaxSize,
         Files!SendNotModified(rep_), Unchanging
  PROVE  FileInv'
  <1>1. /\ UNCHANGED << asked, cached, file, changes, body, chunk >> /\ body = << >> /\ chunk = 0 /\ rep' = rep_
        /\ status' = 304 /\ filePc' = "done"
        /\ whole' = TRUE \/ slow' = TRUE
    BY DEF Files!SendNotModified, Files!Return, Files!transfer, FileInv, Unchanging
  <1>2. KeptInStep'
    BY <1>1 DEF KeptInStep, Files!KeptInStep
  <1> QED
    BY <1>1, <1>2 DEF FileInv

LEMMA HeaderKeepsFile ==
  ASSUME FileInv, filePc = "decide", NEW rep_, rep_.size \in 0 .. MaxSize,
         NEW part_, part_.start \in Nat, part_.length \in Nat,
         part_.start + part_.length <= rep_.size,
         NEW code \in {200, 206}, NEW next \in {"memory", "open"},
         next = "open" /\ changes = 0 => file.size = rep_.size,
         code = 206 => /\ Files!RangeRequested(asked.range)
                       /\ part_ = Files!ResolveByteRange(asked.range, rep_.size),
         Files!SendHeader(rep_, part_, code, next), Unchanging
  PROVE  FileInv'
  <1>1. /\ UNCHANGED << asked, cached, file, changes, body, chunk >> /\ body = << >> /\ chunk = 0 /\ rep' = rep_
        /\ status' = code /\ slice' = part_ /\ ~kept
    BY DEF Files!SendHeader, Files!transfer, FileInv, Unchanging
  <1>2. \/ asked.method = "HEAD" /\ filePc' = "done" /\ whole' = TRUE
        \/ asked.method # "HEAD" /\ filePc' = next /\ whole' = TRUE /\ kept' = kept
        \/ filePc' = "done" /\ kept' = FALSE
    BY DEF Files!SendHeader, Files!Return
  <1>3. KeptInStep'
    BY <1>1, <1>2 DEF KeptInStep, Files!KeptInStep
  <1>4. part_.start # -1
    OBVIOUS
  <1> QED
    BY <1>1, <1>2, <1>3, <1>4 DEF FileInv, Promised

LEMMA RespondKeepsFile ==
  ASSUME FileInv, filePc = "decide", NEW rep_, rep_.size \in 0 .. MaxSize,
         changes = 0 => rep_.size = cached.size /\ rep_.size = file.size,
         NEW next \in {"memory", "open"}, Files!Respond(rep_, next), Unchanging
  PROVE  FileInv'
  <1> DEFINE resolved == Files!ResolveByteRange(asked.range, rep_.size)
             all      == [start |-> 0, length |-> rep_.size]
  <1>1. \/ Refused(412)
        \/ Files!SendNotModified(rep_)
        \/ Files!SendHeader(rep_, all, 200, next)
        \/ Files!Ranged(asked) /\ resolved.start = -1 /\ Refused(416)
        \/ Files!Ranged(asked) /\ resolved.start # -1 /\ Files!SendHeader(rep_, resolved, 206, next)
    BY Zenon DEF Files!Respond, Refused
  <1>2. CASE Refused(412)
    BY <1>2, ErrorKeepsFile
  <1>3. CASE Files!SendNotModified(rep_)
    BY <1>3, NotModifiedKeepsFile
  <1>4. CASE Files!SendHeader(rep_, all, 200, next)
    <2>1. all.start = 0 /\ all.length = rep_.size /\ rep_.size \in Nat /\ 0 \in Nat
          /\ 0 + rep_.size <= rep_.size
      BY WidthAssumption
    <2> HIDE DEF all
    <2> QED
      BY <1>4, <2>1, HeaderKeepsFile
  <1>5. CASE Files!Ranged(asked) /\ resolved.start = -1 /\ Refused(416)
    BY <1>5, ErrorKeepsFile DEF Files!Ranged
  <1>6. CASE Files!Ranged(asked) /\ resolved.start # -1
             /\ Files!SendHeader(rep_, resolved, 206, next)
    <2>1. asked.range \in RangeKinds /\ rep_.size \in Nat /\ Files!RangeRequested(asked.range)
      BY <1>6, WidthAssumption DEF FileInv, Files!RequestKinds, RangeKinds, Files!Ranged
    <2>2. PICK s : s = resolved
      OBVIOUS
    <2> HIDE DEF resolved
    <2>3. s.start \in Nat /\ s.length \in Nat /\ s.start + s.length <= rep_.size
      BY <1>6, <2>1, <2>2, ResolvedAsWanted DEF resolved
    <2> QED
      BY <1>6, <2>1, <2>2, <2>3, HeaderKeepsFile DEF resolved
  <1> QED
    BY <1>1, <1>2, <1>3, <1>4, <1>5, <1>6

LEMMA ServeKeepsFile ==
  ASSUME FileInv, Files!ServeRequest
  PROVE  FileInv'
  <1>1. /\ filePc = "decide" /\ Unchanging /\ body = << >> /\ chunk = 0 /\ ~kept
        /\ cached.size \in 0 .. MaxSize
        /\ asked.target \in {"cached", "disk", "dynamic", "template", "directory", "missing"}
    BY DEF Files!ServeRequest, Files!given, Files!disk, Unchanging, FileInv, Files!RequestKinds
  <1>2. CASE ~asked.authorized
    <2>1. /\ UNCHANGED << asked, cached, file, changes, rep, body, chunk >>
          /\ status' = 401 /\ filePc' = "done" /\ kept' = FALSE
      BY <1>1, <1>2 DEF Files!ServeRequest, Files!Return, Files!transfer, Unchanging
    <2>2. KeptInStep'
      BY <2>1 DEF KeptInStep, Files!KeptInStep
    <2> QED
      BY <1>1, <2>1, <2>2 DEF FileInv
  <1>3. CASE Refused(404) \/ Refused(400)
    BY <1>1, <1>3, ErrorKeepsFile
  <1>4. CASE asked.target \in {"directory", "template"} /\ Files!SendGenerated
    <2>1. /\ UNCHANGED << asked, cached, file, changes, body, chunk, kept >>
          /\ status' = 200 /\ filePc' = "memory" /\ rep' = cached
          /\ slice'.start = 0 /\ slice'.length = cached.size
          /\ whole' \in BOOLEAN /\ slow' = ~whole'
      BY <1>1, <1>4 DEF Files!SendGenerated, Files!transfer, Unchanging
    <2>2. KeptInStep'
      BY <1>1, <2>1 DEF KeptInStep, Files!KeptInStep
    <2>3. cached.size \in Nat
      BY <1>1, WidthAssumption
    <2>4. whole' \/ slow'
      BY <2>1
    <2>5. Promised'
      BY <2>1, <2>3 DEF Promised
    <2> QED
      BY <1>1, <1>4, <2>1, <2>2, <2>4, <2>5 DEF FileInv
  <1>5. CASE Files!Respond(cached, "memory")
    <2>1. changes = 0 => cached.size = file.size
      BY DEF FileInv
    <2> QED
      BY <1>1, <1>5, <2>1, RespondKeepsFile
  <1>6. CASE Files!SendNotModified(cached)
    BY <1>1, <1>6, NotModifiedKeepsFile
  <1>7. CASE file.size # -1 /\ Files!Respond(file, "open")
    <2>1. file.size \in 0 .. MaxSize /\ (changes = 0 => cached.size = file.size)
      BY <1>7, WidthAssumption DEF FileInv
    <2> QED
      BY <1>1, <1>7, <2>1, RespondKeepsFile
  <1>8. \/ ~asked.authorized
        \/ Refused(404) \/ Refused(400)
        \/ asked.target \in {"directory", "template"} /\ Files!SendGenerated
        \/ Files!Respond(cached, "memory") \/ Files!SendNotModified(cached)
        \/ file.size # -1 /\ Files!Respond(file, "open")
    <2>1. \/ ~asked.authorized
          \/ Files!SendError(404, FALSE) \/ Files!SendError(400, TRUE)
          \/ asked.target \in {"directory", "template"} /\ Files!SendGenerated
          \/ Files!Respond(cached, "memory") \/ Files!SendNotModified(cached)
          \/ file.size # -1 /\ Files!Respond(file, "open")
      BY <1>1, Zenon DEF Files!ServeRequest
    <2> QED
      BY <2>1, Zenon DEF Refused
  <1> QED
    BY <1>2, <1>3, <1>4, <1>5, <1>6, <1>7, <1>8

LEMMA MemoryKeepsFile ==
  ASSUME FileInv, Files!SendMemory
  PROVE  FileInv'
  <1>1. /\ UNCHANGED << asked, cached, file, changes, rep, slice, status, whole >>
        /\ filePc = "memory" /\ filePc' = "done" /\ Promised /\ (whole \/ slow)
        /\ asked.method = "HEAD" => asked.target \in {"directory", "template"}
    BY DEF Files!SendMemory, Files!Return, Files!given, Files!disk, FileInv
  <1>2. PICK n \in 0 .. slice.length :
          /\ body' = Files!Bytes(slice.start, n)
          /\ slow' = (slow \/ n < slice.length)
          /\ kept' => asked.target # "directory"
    BY Zenon DEF Files!SendMemory, Files!Return
  <1>3. KeptInStep'
    <2> SUFFICES ASSUME kept', ~slow', ~(asked.target = "template" /\ asked.method = "HEAD")
                 PROVE  /\ whole /\ asked.method # "HEAD" /\ status \in {200, 206}
                        /\ body' = Files!Bytes(slice.start, slice.length)
      BY <1>1 DEF KeptInStep, Files!KeptInStep
    <2>1. ~slow /\ ~(n < slice.length)
      BY <1>2
    <2>2. n = slice.length
      BY <2>1, <1>1 DEF Promised
    <2> QED
      BY <1>1, <1>2, <2>1, <2>2 DEF Promised
  <1> QED
    BY <1>1, <1>3 DEF FileInv

LEMMA OpenKeepsFile ==
  ASSUME FileInv, Files!OpenFile
  PROVE  FileInv'
  <1>1. /\ UNCHANGED << asked, cached, file, changes, rep, slice, status, whole, body, slow, chunk >>
        /\ filePc = "open" /\ body = << >> /\ chunk = 0 /\ Promised /\ (whole \/ slow) /\ ~kept
        /\ asked.method # "HEAD"
    BY DEF Files!OpenFile, Files!given, Files!disk, FileInv
  <1>2. CASE slice.length = 0
    <2>1. filePc' = "done"
      BY <1>2 DEF Files!OpenFile, Files!Return
    <2>2. body = Files!Bytes(slice.start, slice.length)
      BY <1>1, <1>2, NoBytes DEF Promised
    <2>3. KeptInStep'
      BY <1>1, <2>2 DEF KeptInStep, Files!KeptInStep, Promised
    <2> QED
      BY <1>1, <2>1, <2>3 DEF FileInv, Promised
  <1>3. CASE slice.length # 0 /\ file.size = -1
    <2>1. filePc' = "done" /\ kept' = FALSE
      BY <1>3 DEF Files!OpenFile, Files!Return
    <2>2. KeptInStep'
      BY <2>1 DEF KeptInStep, Files!KeptInStep
    <2> QED
      BY <1>1, <2>1, <2>2 DEF FileInv, Promised
  <1>4. CASE slice.length # 0 /\ file.size # -1
    <2>1. at' = slice.start /\ left' = slice.length /\ filePc' = "disk" /\ kept' = kept
      BY <1>4 DEF Files!OpenFile
    <2>2. KeptInStep'
      BY <1>1, <2>1 DEF KeptInStep, Files!KeptInStep
    <2>3. changes' = 0 => Transferring'
      <3> SUFFICES ASSUME changes' = 0 PROVE Transferring'
        OBVIOUS
      <3>1. /\ file'.size = rep'.size /\ slice'.start + slice'.length <= rep'.size
            /\ rep'.size \in Nat
        BY <1>1, WidthAssumption DEF FileInv
      <3>2. Gone' = 0
        BY <1>1, <2>1 DEF Gone, Promised
      <3>3. body' = Files!Bytes(slice'.start, 0)
        BY <1>1, NoBytes DEF Promised
      <3> QED
        BY <1>1, <2>1, <3>1, <3>2, <3>3 DEF Transferring, Promised, Leftover
    <2> QED
      BY <1>1, <2>1, <2>2, <2>3 DEF FileInv, Promised
  <1> QED
    BY <1>2, <1>3, <1>4

LEMMA ReadKeepsFile ==
  ASSUME FileInv, Files!ReadBlock
  PROVE  FileInv'
  <1>1. /\ UNCHANGED << asked, cached, file, changes, rep, slice, status, whole, left, body, slow >>
        /\ filePc = "disk" /\ chunk = 0 /\ Promised /\ (whole \/ slow) /\ ~kept
        /\ asked.method # "HEAD"
    BY DEF Files!ReadBlock, Files!given, Files!disk, FileInv
  <1>2. CASE filePc' = "done" /\ kept' = FALSE
    <2>1. KeptInStep'
      BY <1>2 DEF KeptInStep, Files!KeptInStep
    <2> QED
      BY <1>1, <1>2, <2>1 DEF FileInv, Promised
  <1>3. ASSUME NEW n \in Nat \ {0}, chunk' = n, at' = at + n, filePc' = filePc, kept' = kept,
               file.size # -1 => n <= file.size - at
        PROVE  FileInv'
    <2>1. KeptInStep'
      BY <1>1, <1>3 DEF KeptInStep, Files!KeptInStep
    <2>2. changes' = 0 => Transferring'
      <3> SUFFICES ASSUME changes = 0 PROVE Transferring'
        BY <1>1
      <3>1. Transferring /\ rep.size \in Nat
        BY <1>1, WidthAssumption DEF FileInv
      <3>2. Gone' = Gone /\ at' \in Nat /\ at' <= rep.size
        BY <1>1, <1>3, <3>1 DEF Gone, Transferring, Promised
      <3> QED
        BY <1>1, <1>3, <3>1, <3>2 DEF Transferring
    <2> QED
      BY <1>1, <1>3, <2>1, <2>2 DEF FileInv, Promised
  <1>4. \/ filePc' = "done" /\ kept' = FALSE
        \/ \E n \in Nat \ {0} :
             /\ chunk' = n /\ at' = at + n /\ filePc' = filePc /\ kept' = kept
             /\ file.size # -1 => n <= file.size - at
    <2>1. Files!ReadSize \in Nat /\ MaxSize \in Nat /\ file.size \in Int /\ at \in Int
      BY <1>1, BlockAssumption, WidthAssumption DEF Files!ReadSize, Promised, FileInv
    <2>2. PICK size : /\ size \in IF file.size = -1 THEN 0 .. MaxSize ELSE {file.size}
                      /\ LET n == IF size - at < Files!ReadSize THEN size - at
                                                               ELSE Files!ReadSize
                         IN  IF n <= 0
                             THEN Files!Return(FALSE, FALSE) /\ UNCHANGED << at, chunk >>
                             ELSE chunk' = n /\ at' = at + n /\ UNCHANGED << filePc, kept >>
      BY Zenon DEF Files!ReadBlock
    <2>3. PICK n : n = IF size - at < Files!ReadSize THEN size - at ELSE Files!ReadSize
      OBVIOUS
    <2>4. size \in Int /\ n \in Int /\ n <= size - at /\ (file.size # -1 => size = file.size)
      BY <2>1, <2>2, <2>3
    <2>5. CASE n <= 0
      BY <2>2, <2>3, <2>5 DEF Files!Return
    <2>6. CASE ~(n <= 0)
      <3>1. chunk' = n /\ at' = at + n /\ filePc' = filePc /\ kept' = kept
        BY <2>2, <2>3, <2>6
      <3> QED
        BY <2>4, <2>6, <3>1
    <2> QED
      BY <2>5, <2>6
  <1> QED
    BY <1>2, <1>3, <1>4

LEMMA SendKeepsFile ==
  ASSUME FileInv, Files!SendBlock
  PROVE  FileInv'
  <1>1. /\ UNCHANGED << asked, cached, file, changes, rep, slice, status, whole, at, slow, filePc,
                        kept >>
        /\ filePc = "disk" /\ Promised /\ (whole \/ slow) /\ ~kept /\ asked.method # "HEAD"
    BY DEF Files!SendBlock, Files!given, Files!disk, FileInv
  <1>2. PICK n \in 1 .. chunk :
          /\ body' = body \o Files!Bytes(at - chunk, n)
          /\ chunk' = chunk - n
          /\ left' = (left - n) % Width
    BY DEF Files!SendBlock
  <1>3. KeptInStep'
    BY <1>1 DEF KeptInStep, Files!KeptInStep
  <1>4. changes' = 0 => Transferring'
    <2> SUFFICES ASSUME changes = 0 PROVE Transferring'
      BY <1>1
    <2>1. Transferring /\ rep.size \in Nat /\ rep.size <= MaxSize /\ chunk \in Nat
      BY <1>1, WidthAssumption DEF FileInv, Transferring
    <2>2. /\ at - chunk = slice.start + Gone /\ Gone' = Gone + n /\ n \in Nat
          /\ Gone \in Nat /\ Gone + n \in Nat /\ Gone + n <= at /\ chunk' \in Nat
      <3>1. at \in Nat /\ chunk \in Nat /\ slice.start \in Nat /\ Gone \in Nat
        BY <1>1, <2>1 DEF Transferring, Promised
      <3>2. Gone' = at - (chunk - n) - slice.start
        BY <1>1, <1>2 DEF Gone
      <3> QED
        BY <1>2, <3>1, <3>2, PositionsMove DEF Gone
    <2>3. body' = Files!Bytes(slice.start, Gone + n)
      <3>1. body = Files!Bytes(slice.start, Gone) /\ slice.start \in Nat
        BY <1>1, <2>1 DEF Transferring, Promised
      <3>2. body' = Files!Bytes(slice.start, Gone) \o Files!Bytes(slice.start + Gone, n)
        BY <1>2, <2>2, <3>1
      <3> HIDE DEF Gone
      <3> QED
        BY <2>2, <3>1, <3>2, BytesGoOn
    <2>4. left' = Leftover(Width, slice.length, Gone + n)
      <3>1. /\ slice.length \in Nat /\ slice.length <= MaxSize /\ Gone + n <= MaxSize
            /\ left = Leftover(Width, slice.length, Gone)
        BY <1>1, <2>1, <2>2, WidthAssumption DEF Transferring, Promised
      <3>2. left' = (Leftover(Width, slice.length, Gone) - n) % Width
        BY <1>2, <3>1
      <3> QED
        BY <2>2, <3>1, <3>2, WidthAssumption, LessLeftover
    <2>5. Gone' \in Nat /\ body' = Files!Bytes(slice'.start, Gone')
          /\ left' = Leftover(Width, slice'.length, Gone')
      BY <1>1, <2>2, <2>3, <2>4
    <2> QED
      BY <1>1, <2>1, <2>2, <2>5 DEF Transferring
  <1> QED
    BY <1>1, <1>3, <1>4 DEF FileInv, Promised

LEMMA EndKeepsFile ==
  ASSUME FileInv, Files!ReadFails \/ Files!SendFails \/ Files!Transmitted
  PROVE  FileInv'
  <1>1. /\ UNCHANGED << asked, cached, file, changes, rep, slice, status, whole, body >>
        /\ filePc = "disk" /\ filePc' = "done" /\ Promised /\ (whole \/ slow)
        /\ asked.method # "HEAD"
    BY DEF Files!ReadFails, Files!SendFails, Files!Transmitted, Files!Return, Files!given,
           Files!disk, Files!transfer, FileInv
  <1>2. KeptInStep'
    <2>1. CASE Files!ReadFails \/ Files!SendFails
      BY <2>1 DEF Files!ReadFails, Files!SendFails, Files!Return, KeptInStep, Files!KeptInStep
    <2>2. CASE Files!Transmitted
      <3> SUFFICES ASSUME ~slow, changes = 0
                   PROVE  body = Files!Bytes(slice.start, slice.length)
        BY <1>1, <2>2 DEF Files!Transmitted, KeptInStep, Files!KeptInStep, Promised
      <3>1. Transferring /\ chunk = 0 /\ left = 0
        BY <1>1, <2>2 DEF FileInv, Files!Transmitted
      <3>2. Gone = slice.length
        <4>1. /\ slice.length \in Nat /\ Gone \in Nat /\ Gone <= MaxSize
              /\ Leftover(Width, slice.length, Gone) = 0
          BY <1>1, <3>1, WidthAssumption DEF FileInv, Transferring, Promised, Gone
        <4> QED
          BY <4>1, WidthAssumption DEF Leftover
      <3> QED
        BY <3>1, <3>2 DEF Transferring
    <2> QED
      BY <2>1, <2>2
  <1> QED
    BY <1>1, <1>2 DEF FileInv, Promised

LEMMA FileStep ==
  ASSUME FileInv, Files!Next
  PROVE  FileInv'
  BY ChangeKeepsFile, ServeKeepsFile, MemoryKeepsFile, OpenKeepsFile, ReadKeepsFile,
     SendKeepsFile, EndKeepsFile DEF Files!Next

LEMMA FileRests ==
  ASSUME FileInv, UNCHANGED fileVars
  PROVE  FileInv'
  BY DEF FileInv, fileVars, Promised, Transferring, Gone, KeptInStep, Files!KeptInStep

LEMMA FileIsRight == MCSpec => []FileInv
  <1>1. MCInit => FileInv
    BY InitFile
  <1>2. FileInv /\ [MCNext]_<< view, vars, apiVars, fileVars, acceptVars >> => FileInv'
    BY RunOfFour, FileStep, FileRests
  <1> QED
    BY <1>1, <1>2, PTL DEF MCSpec

\* RangeAsAsked: whatever the suffix, first and last byte of a range and the size of the
\* file, a 206 promises just the bytes that were asked for and exist, and a 416 is sent
\* only if there are none (ResolveByteRange).
THEOREM RangesAreAsAsked == MCSpec => []RangeAsAsked
  BY FileIsRight, FileInvIsRight, PTL

\* KeptInStep: behind an answer with a file, a connection is kept only if the header was
\* complete and just the promised bytes followed, wherever the reads and sends of the body
\* stop and although bytesToSend wraps when a block is longer than what is left
\* (TransmitFileBodyToSocket, ServeClientKeepAliveLoop).
THEOREM KeptConnectionsAreInStep == MCSpec => []KeptInStep
  BY FileIsRight, FileInvIsRight, PTL

-----------------------------------------------------------------------------
(* The accept of the rings: what is on its way, counted *)

Rings == Accept!Rings

Submissions == {"accept", "cancel", "close"}
Completions ==
  {Accept!AcceptCompletion("slot", TRUE), [op |-> "close"]}
  \cup {Accept!AcceptCompletion(res, FALSE) : res \in {"slot", "EMFILE", "error", "ECANCELED"}}

Ends    == {e \in Completions : e.op = "accept" /\ ~e.more}
Brought == {e \in Completions : e.op = "accept" /\ e.res = "slot"}
Cancels == {e \in Completions : e.op = "accept" /\ e.res = "ECANCELED"}
Closed  == {e \in Completions : e.op = "close"}

Count(s, Q) == Cardinality({i \in DOMAIN s : s[i] \in Q})
Bit(b)      == IF b THEN 1 ELSE 0

\* A state of the thread, and what it has submitted.
Threads == [acceptRing : Rings, acceptStalled : BOOLEAN,
            acceptArmed : [Rings -> BOOLEAN], connectionsOpen : [Rings -> Nat]]
Working == [t : Threads, q : [Rings -> Seq(Submissions)]]

AcceptTypes ==
  /\ ringCount \in RingCounts
  /\ th \in Threads
  /\ sq \in [Rings -> Seq(Submissions)]
  /\ cq \in [Rings -> Seq(Completions)]
  /\ ringArmed \in [Rings -> BOOLEAN]
  /\ used \in [Rings -> 0 .. connectionSlots]

\* The accept of a ring that is marked is in one place; a slot that the kernel has
\* given out belongs to a connection, to a completion that brings it, or to a close.
Marked(g) ==
  Bit(th.acceptArmed[g]) = Count(sq[g], {"accept"}) + Bit(ringArmed[g]) + Count(cq[g], Ends)
GivenOut(g) ==
  used[g] = th.connectionsOpen[g] + Count(cq[g], Brought) + Count(sq[g], {"close"})

\* With one ring no accept is canceled, and it has stopped only when no slot is left
\* that no close gives back.
OneRing ==
  /\ Count(sq[0], {"cancel"}) = 0 /\ Count(cq[0], Cancels) = 0
  /\ th.acceptStalled <=> ~th.acceptArmed[0]
  /\ th.acceptStalled =>
       \/ th.connectionsOpen[0] = connectionSlots
       \/ Count(sq[0], {"close"}) + Count(cq[0], Closed) > 0

AcceptInv ==
  /\ AcceptTypes
  /\ \A g \in Rings : Marked(g) /\ GivenOut(g)
  /\ ringCount = 1 => OneRing

-----------------------------------------------------------------------------
(* Counting in a sequence *)

LEMMA CountIsNat ==
  ASSUME NEW S, NEW s \in Seq(S), NEW Q
  PROVE  /\ Count(s, Q) \in Nat
         /\ IsFiniteSet({i \in DOMAIN s : s[i] \in Q})
         /\ Count(s, Q) > 0 <=> \E i \in DOMAIN s : s[i] \in Q
  <1> DEFINE places == {i \in DOMAIN s : s[i] \in Q}
  <1>1. places \subseteq 1 .. Len(s)
    OBVIOUS
  <1>2. IsFiniteSet(places)
    BY <1>1, FS_Interval, FS_Subset
  <1>3. Cardinality(places) \in Nat /\ (Cardinality(places) = 0 <=> places = {})
    BY <1>2, FS_CardinalityType, FS_EmptySet
  <1> QED
    BY <1>2, <1>3 DEF Count

LEMMA NoneInEmpty == \A Q : Count(<< >>, Q) = 0
  <1> SUFFICES ASSUME NEW Q PROVE Count(<< >>, Q) = 0
    OBVIOUS
  <1>1. {i \in DOMAIN << >> : << >>[i] \in Q} = {}
    OBVIOUS
  <1> QED
    BY <1>1, FS_EmptySet DEF Count

LEMMA OneMore ==
  ASSUME NEW S, NEW s \in Seq(S), NEW e \in S, NEW Q
  PROVE  Count(Append(s, e), Q) = Count(s, Q) + Bit(e \in Q)
  <1> DEFINE places  == {i \in DOMAIN s : s[i] \in Q}
             now == {i \in DOMAIN Append(s, e) : Append(s, e)[i] \in Q}
  <1>1. /\ DOMAIN Append(s, e) = (DOMAIN s) \cup {Len(s) + 1} /\ Len(s) + 1 \notin DOMAIN s
        /\ Append(s, e)[Len(s) + 1] = e
        /\ \A i \in DOMAIN s : Append(s, e)[i] = s[i]
    OBVIOUS
  <1>2. now = IF e \in Q THEN places \cup {Len(s) + 1} ELSE places
    BY <1>1
  <1>3. IsFiniteSet(places) /\ Len(s) + 1 \notin places
    BY CountIsNat, <1>1
  <1>4. Cardinality(places \cup {Len(s) + 1}) = Cardinality(places) + 1
    BY <1>3, FS_AddElement
  <1>5. Cardinality(places) \in Nat
    BY <1>3, FS_CardinalityType
  <1>6. CASE e \in Q
    <2>1. Count(Append(s, e), Q) = Cardinality(places \cup {Len(s) + 1}) /\ Count(s, Q) = Cardinality(places)
      BY <1>2, <1>6 DEF Count
    <2> QED
      BY <2>1, <1>4, <1>6 DEF Bit
  <1>7. CASE e \notin Q
    <2>1. Count(Append(s, e), Q) = Count(s, Q) /\ Count(s, Q) \in Nat
      BY <1>2, <1>5, <1>7 DEF Count
    <2> QED
      BY <2>1, <1>7 DEF Bit
  <1> QED
    BY <1>6, <1>7

LEMMA OneLess ==
  ASSUME NEW S, NEW s \in Seq(S), s # << >>, NEW Q
  PROVE  Count(s, Q) = Count(Tail(s), Q) + Bit(Head(s) \in Q)
  <1> DEFINE places   == {i \in DOMAIN s : s[i] \in Q}
             rest == {i \in DOMAIN Tail(s) : Tail(s)[i] \in Q}
             next == [i \in rest |-> i + 1]
  <1>1. /\ Tail(s) \in Seq(S) /\ DOMAIN s = 1 .. Len(s) /\ Len(s) \in Nat \ {0}
        /\ DOMAIN Tail(s) = 1 .. Len(s) - 1
        /\ \A i \in 1 .. Len(s) - 1 : Tail(s)[i] = s[i + 1]
        /\ Head(s) = s[1]
    OBVIOUS
  <1>2. IsFiniteSet(rest) /\ IsFiniteSet(places)
    BY <1>1, CountIsNat
  <1>3. next \in Bijection(rest, places \ {1})
    <2>1. next \in [rest -> places \ {1}]
      BY <1>1
    <2>2. \A i, j \in rest : next[i] = next[j] => i = j
      BY <1>1
    <2>3. ASSUME NEW j \in places \ {1} PROVE \E i \in rest : next[i] = j
      <3>1. j - 1 \in rest
        BY <1>1
      <3> QED
        BY <3>1, <1>1
    <2> QED
      BY <2>1, <2>2, <2>3 DEF Bijection, Injection, Surjection, IsInjective
  <1>4. Cardinality(places \ {1}) = Cardinality(rest)
    BY <1>2, <1>3, FS_Bijection DEF ExistsBijection
  <1>5. Cardinality(places \ {1}) = IF 1 \in places THEN Cardinality(places) - 1 ELSE Cardinality(places)
    BY <1>2, FS_RemoveElement
  <1>6. 1 \in places <=> Head(s) \in Q
    BY <1>1
  <1>7. Cardinality(places) \in Nat
    BY <1>2, FS_CardinalityType
  <1>8. Count(s, Q) = Cardinality(places) /\ Count(Tail(s), Q) = Cardinality(rest)
    BY DEF Count
  <1> HIDE DEF places, rest
  <1>9. CASE Head(s) \in Q
    BY <1>4, <1>5, <1>6, <1>7, <1>8, <1>9 DEF Bit
  <1>10. CASE Head(s) \notin Q
    BY <1>4, <1>5, <1>6, <1>7, <1>8, <1>10 DEF Bit
  <1> QED
    BY <1>9, <1>10

-----------------------------------------------------------------------------
(* What the thread's functions leave behind *)

\* What a mark is owed besides the submissions.
Owes(x, g) == Bit(x.t.acceptArmed[g]) - Count(x.q[g], {"accept"})

\* Only marks and submissions of accepts change, and together.
Keeps(x, y) ==
  /\ y \in Working
  /\ y.t.connectionsOpen = x.t.connectionsOpen
  /\ \A g \in Rings : /\ Owes(y, g) = Owes(x, g)
                      /\ Count(y.q[g], {"close"}) = Count(x.q[g], {"close"})

LEMMA RingsAre ==
  ASSUME ringCount \in RingCounts
  PROVE  /\ ringCount \in Nat \ {0} /\ Rings \subseteq Nat /\ 0 \in Rings
         /\ Rings = 0 .. ringCount - 1
         /\ ringCount = 1 => Rings = {0}
         /\ \A n \in Nat : n % ringCount \in Rings
  BY RingsAssumption DEF Rings, Accept!Rings

LEMMA NextRing ==
  ASSUME ringCount \in RingCounts, NEW g \in Rings
  PROVE  g \in Nat /\ g + 1 \in Nat
  <1>1. g \in Nat
    BY RingsAre, Zenon
  <1> QED
    BY <1>1

LEMMA KeepsIsTransitive ==
  ASSUME NEW x, NEW y, NEW z, Keeps(x, y), Keeps(y, z)
  PROVE  Keeps(x, z)
  BY DEF Keeps

LEMMA WorkingIs ==
  ASSUME NEW x \in Working
  PROVE  /\ x.t \in Threads /\ x.t.acceptRing \in Rings /\ x.t.acceptStalled \in BOOLEAN
         /\ x.t.acceptArmed \in [Rings -> BOOLEAN] /\ x.t.connectionsOpen \in [Rings -> Nat]
         /\ x.q \in [Rings -> Seq(Submissions)]
         /\ \A g \in Rings : \A Q : Count(x.q[g], Q) \in Nat
         /\ \A g \in Rings : Owes(x, g) \in Int
  <1>1. /\ x.t \in Threads /\ x.q \in [Rings -> Seq(Submissions)]
    BY DEF Working
  <1>2. /\ x.t.acceptRing \in Rings /\ x.t.acceptStalled \in BOOLEAN
        /\ x.t.acceptArmed \in [Rings -> BOOLEAN] /\ x.t.connectionsOpen \in [Rings -> Nat]
    BY <1>1 DEF Threads
  <1>3. \A g \in Rings : \A Q : Count(x.q[g], Q) \in Nat
    BY <1>1, CountIsNat
  <1>4. ASSUME NEW g \in Rings PROVE Owes(x, g) \in Int
    <2>1. Count(x.q[g], {"accept"}) \in Nat /\ Bit(x.t.acceptArmed[g]) \in Nat
      BY <1>3 DEF Bit
    <2> QED
      BY <2>1 DEF Owes
  <1> QED
    BY <1>1, <1>2, <1>3, <1>4

LEMMA ArmAcceptDoes ==
  ASSUME ringCount \in RingCounts, NEW x \in Working, NEW g \in Rings,
         NEW y, y = Accept!ArmAccept(x, g)
  PROVE  /\ Keeps(x, y)
         /\ y.t.acceptArmed[g]
         /\ ~x.t.acceptArmed[g] => ~y.t.acceptStalled
         /\ x.t.acceptArmed[g] => y = x
         /\ \A h \in Rings : Count(y.q[h], {"cancel"}) = Count(x.q[h], {"cancel"})
  <1>1. CASE x.t.acceptArmed[g]
    BY <1>1 DEF Accept!ArmAccept, Keeps
  <1>2. CASE ~x.t.acceptArmed[g]
    <2> DEFINE t == [x.t EXCEPT !.acceptArmed[g] = TRUE, !.acceptStalled = FALSE]
               q == [x.q EXCEPT ![g] = Append(@, "accept")]
    <2>1. y = [t |-> t, q |-> q]
      BY <1>2 DEF Accept!ArmAccept
    <2>2. t \in Threads /\ t.connectionsOpen = x.t.connectionsOpen /\ ~t.acceptStalled
          /\ t.acceptArmed = [x.t.acceptArmed EXCEPT ![g] = TRUE]
      BY WorkingIs DEF Threads
    <2>3. q \in [Rings -> Seq(Submissions)]
      BY WorkingIs DEF Submissions
    <2>4. ASSUME NEW h \in Rings
          PROVE  /\ Count(q[h], {"accept"}) = Count(x.q[h], {"accept"}) + Bit(h = g)
                 /\ Count(q[h], {"close"}) = Count(x.q[h], {"close"})
                 /\ Count(q[h], {"cancel"}) = Count(x.q[h], {"cancel"})
      <3>1. CASE h = g
        <4>1. q[h] = Append(x.q[h], "accept") /\ x.q[h] \in Seq(Submissions)
          BY <3>1, WorkingIs
        <4>2. "accept" \in Submissions
          BY DEF Submissions
        <4>3. ASSUME NEW Q
              PROVE  /\ Count(q[h], Q) = Count(x.q[h], Q) + Bit("accept" \in Q)
                     /\ Count(x.q[h], Q) \in Nat
          <5>1. Count(Append(x.q[h], "accept"), Q) = Count(x.q[h], Q) + Bit("accept" \in Q)
            BY <4>1, <4>2, OneMore
          <5> QED
            BY <5>1, <4>1, WorkingIs
        <4>4. Bit("accept" \in {"accept"}) = 1 /\ Bit("accept" \in {"close"}) = 0
              /\ Bit("accept" \in {"cancel"}) = 0 /\ Bit(h = g) = 1
          BY <3>1 DEF Bit
        <4> QED
          BY <4>3, <4>4
      <3>2. CASE h # g
        <4>1. q[h] = x.q[h] /\ Bit(h = g) = 0 /\ Count(x.q[h], {"accept"}) \in Nat
          BY <3>2, WorkingIs DEF Bit
        <4> QED
          BY <4>1
      <3> QED
        BY <3>1, <3>2
    <2>5. ASSUME NEW h \in Rings PROVE Owes(y, h) = Owes(x, h)
      <3>1. Bit(t.acceptArmed[h]) = Bit(x.t.acceptArmed[h]) + Bit(h = g)
        <4>1. CASE h = g
          BY <4>1, <2>2, <1>2, WorkingIs DEF Bit
        <4>2. CASE h # g
          BY <4>2, <2>2, WorkingIs DEF Bit
        <4> QED
          BY <4>1, <4>2
      <3>2. Bit(x.t.acceptArmed[h]) \in Nat /\ Bit(h = g) \in Nat
            /\ Count(x.q[h], {"accept"}) \in Nat
        BY WorkingIs DEF Bit
      <3> HIDE DEF t, q
      <3> QED
        BY <3>1, <3>2, <2>4, <2>1 DEF Owes
    <2> HIDE DEF t, q
    <2> QED
      BY <1>2, <2>1, <2>2, <2>3, <2>4, <2>5, WorkingIs DEF Keeps, Working
  <1> QED
    BY <1>1, <1>2

LessThan == {p \in Nat \X Nat : p[1] < p[2]}

LEMMA LeastIs ==
  ASSUME NEW S \in SUBSET Nat, S # {}
  PROVE  Accept!Min(S) \in S
  <1>1. IsWellFoundedOn(LessThan, Nat)
    BY NatLessThanWellFounded, Zenon DEF OpToRel, LessThan
  <1>2. PICK i \in S : \A j \in S : << j, i >> \notin LessThan
    BY <1>1, WFMin, Zenon
  <1>3. ASSUME NEW j \in S PROVE i <= j
    <2>1. i \in Nat /\ j \in Nat /\ << j, i >> \in Nat \X Nat
      OBVIOUS
    <2>2. ~(<< j, i >>[1] < << j, i >>[2])
      BY <1>2, <2>1 DEF LessThan
    <2> QED
      BY <2>1, <2>2
  <1> QED
    BY <1>3 DEF Accept!Min

\* Wherever it is armed, the accounts are kept; with one ring the accept is either armed
\* or, without a slot left, stalled.
LEMMA ArmSomewhereDoes ==
  ASSUME ringCount \in RingCounts, NEW x \in Working, NEW n \in Nat,
         NEW y, y = Accept!ArmAcceptSomewhere(x, n)
  PROVE  /\ Keeps(x, y)
         /\ ringCount = 1 /\ ~x.t.acceptArmed[0] =>
              /\ y.t.acceptStalled <=> ~y.t.acceptArmed[0]
              /\ y.t.acceptStalled => x.t.connectionsOpen[0] >= connectionSlots
              /\ Count(y.q[0], {"cancel"}) = Count(x.q[0], {"cancel"})
  <1> DEFINE ring(i)        == (n + i) % ringCount
             roomy(reserve) == {i \in Rings : Accept!FreeSlots(x.t, ring(i)) > reserve}
             choice         == IF roomy(URING_ACCEPT_RESERVE) # {}
                               THEN roomy(URING_ACCEPT_RESERVE) ELSE roomy(0)
             which          == ring(Accept!Min(choice))
             z              == [x EXCEPT !.t.acceptRing = which]
  <1>1. choice \in SUBSET Rings
    OBVIOUS
  <1>2. CASE choice = {}
    <2>1. y = [x EXCEPT !.t.acceptStalled = TRUE]
      BY <1>2 DEF Accept!ArmAcceptSomewhere, Rings
    <2>2. y \in Working /\ y.t.connectionsOpen = x.t.connectionsOpen /\ y.q = x.q
          /\ y.t.acceptArmed = x.t.acceptArmed /\ y.t.acceptStalled
      BY <2>1, WorkingIs DEF Working, Threads
    <2>3. ringCount = 1 => x.t.connectionsOpen[0] >= connectionSlots
      <3> SUFFICES ASSUME ringCount = 1 PROVE x.t.connectionsOpen[0] >= connectionSlots
        OBVIOUS
      <3>1. 0 \in Rings /\ ring(0) = 0 /\ x.t.connectionsOpen[0] \in Nat
        BY RingsAre, WorkingIs
      <3>2. 0 \notin roomy(0)
        BY <1>2
      <3> QED
        BY <3>1, <3>2, RingsAssumption DEF Accept!FreeSlots
    <2> QED
      BY <2>2, <2>3 DEF Keeps, Owes
  <1>3. CASE choice # {}
    <2>1. Accept!Min(choice) \in Nat
      BY <1>1, <1>3, LeastIs, RingsAre
    <2>2. which \in Rings
      <3>1. n + Accept!Min(choice) \in Nat
        BY <2>1
      <3> HIDE DEF choice
      <3> QED
        BY <3>1, RingsAre
    <2>3. y = Accept!ArmAccept(z, which)
      BY <1>3, Zenon DEF Accept!ArmAcceptSomewhere, Rings
    <2> HIDE DEF which, choice
    <2>4. /\ z \in Working /\ z.t.connectionsOpen = x.t.connectionsOpen /\ z.q = x.q
          /\ z.t.acceptArmed = x.t.acceptArmed
      BY <2>2, WorkingIs DEF Working, Threads
    <2> HIDE DEF z
    <2>5. Keeps(x, z)
      BY <2>4 DEF Keeps, Owes
    <2>6. /\ Keeps(z, y) /\ y.t.acceptArmed[which]
          /\ ~z.t.acceptArmed[which] => ~y.t.acceptStalled
          /\ \A h \in Rings : Count(y.q[h], {"cancel"}) = Count(z.q[h], {"cancel"})
      BY <2>2, <2>3, <2>4, ArmAcceptDoes
    <2>7. ringCount = 1 => which = 0 /\ 0 \in Rings
      BY <2>2, RingsAre
    <2> QED
      BY <2>4, <2>5, <2>6, <2>7, KeepsIsTransitive
  <1> QED
    BY <1>2, <1>3

LEMMA CancelDoes ==
  ASSUME ringCount \in RingCounts, NEW x \in Working, NEW g \in Rings
  PROVE  Keeps(x, Accept!CancelAccept(x, g))
  <1> DEFINE y == [x EXCEPT !.q[g] = Append(@, "cancel")]
  <1>1. /\ y.t = x.t /\ y.q = [x.q EXCEPT ![g] = Append(x.q[g], "cancel")]
    BY WorkingIs DEF Working
  <1>0. y \in Working
    <2>1. "cancel" \in Submissions /\ x.q[g] \in Seq(Submissions)
      BY WorkingIs DEF Submissions
    <2>2. Append(x.q[g], "cancel") \in Seq(Submissions)
      BY <2>1
    <2> QED
      BY <2>2, WorkingIs DEF Working
  <1>2. ASSUME NEW h \in Rings, NEW Q \in {{"accept"}, {"close"}}
        PROVE  Count(y.q[h], Q) = Count(x.q[h], Q)
    <2>1. CASE h = g
      <3>1. y.q[h] = Append(x.q[h], "cancel") /\ x.q[h] \in Seq(Submissions)
            /\ "cancel" \in Submissions
        BY <2>1, <1>1, WorkingIs DEF Submissions
      <3>2. Count(Append(x.q[h], "cancel"), Q) = Count(x.q[h], Q) + Bit("cancel" \in Q)
        BY <3>1, OneMore
      <3>3. Bit("cancel" \in Q) = 0 /\ Count(x.q[h], Q) \in Nat
        BY <3>1, CountIsNat DEF Bit
      <3> QED
        BY <3>1, <3>2, <3>3
    <2>2. CASE h # g
      BY <2>2, <1>1, WorkingIs
    <2> QED
      BY <2>1, <2>2
  <1>3. Keeps(x, y)
    <2> HIDE DEF y
    <2> QED
      BY <1>0, <1>1, <1>2 DEF Keeps, Owes
  <1> QED
    BY <1>3 DEF Accept!CancelAccept, Keeps

LEMMA MoveDoes ==
  ASSUME ringCount \in RingCounts, NEW x \in Working, NEW g \in Rings
  PROVE  Keeps(x, Accept!MoveAcceptOn(x, g))
  <1> DEFINE y == Accept!ArmAcceptSomewhere(x, g + 1)
  <1>1. Keeps(x, y) /\ y \in Working
    <2>1. g + 1 \in Nat
      BY NextRing, Zenon
    <2> QED
      BY <2>1, ArmSomewhereDoes DEF Keeps
  <1> HIDE DEF y
  <1>2. Keeps(x, Accept!CancelAccept(y, g))
    BY <1>1, CancelDoes, KeepsIsTransitive
  <1> QED
    BY <1>1, <1>2 DEF y, Accept!MoveAcceptOn

\* A completion of the accept, taken into the ring's state.
Taken(x, g, e) ==
  LET y == IF e.more THEN x ELSE [x EXCEPT !.t.acceptArmed[g] = FALSE]
  IN  IF e.res = "slot" THEN [y EXCEPT !.t.connectionsOpen[g] = @ + 1] ELSE y

LEMMA CompletionIs ==
  ASSUME NEW e \in Completions, e.op = "accept"
  PROVE  /\ e.res \in {"slot", "EMFILE", "error", "ECANCELED"} /\ e.more \in BOOLEAN
         /\ e.more => e.res = "slot"
         /\ e = Accept!AcceptCompletion(e.res, e.more)
  <1>1. CASE e = Accept!AcceptCompletion("slot", TRUE)
    BY <1>1 DEF Accept!AcceptCompletion
  <1>2. CASE e = [op |-> "close"]
    BY <1>2
  <1>3. CASE \E res \in {"slot", "EMFILE", "error", "ECANCELED"} :
               e = Accept!AcceptCompletion(res, FALSE)
    BY <1>3 DEF Accept!AcceptCompletion
  <1> QED
    BY <1>1, <1>2, <1>3 DEF Completions

LEMMA TakenIs ==
  ASSUME ringCount \in RingCounts, NEW x \in Working, NEW g \in Rings,
         NEW e \in Completions, e.op = "accept"
  PROVE  /\ Taken(x, g, e) \in Working /\ Taken(x, g, e).q = x.q
         /\ Taken(x, g, e).t.acceptRing = x.t.acceptRing
         /\ Taken(x, g, e).t.acceptStalled = x.t.acceptStalled
         /\ Taken(x, g, e).t.acceptArmed =
              IF e.more THEN x.t.acceptArmed ELSE [x.t.acceptArmed EXCEPT ![g] = FALSE]
         /\ Taken(x, g, e).t.connectionsOpen =
              IF e.res = "slot" THEN [x.t.connectionsOpen EXCEPT ![g] = @ + 1]
              ELSE x.t.connectionsOpen
  <1> DEFINE y == IF e.more THEN x ELSE [x EXCEPT !.t.acceptArmed[g] = FALSE]
             z == IF e.res = "slot" THEN [y EXCEPT !.t.connectionsOpen[g] = @ + 1] ELSE y
  <1>1. /\ y \in Working /\ y.q = x.q
        /\ y.t.acceptRing = x.t.acceptRing /\ y.t.acceptStalled = x.t.acceptStalled
        /\ y.t.acceptArmed = IF e.more THEN x.t.acceptArmed
                             ELSE [x.t.acceptArmed EXCEPT ![g] = FALSE]
        /\ y.t.connectionsOpen = x.t.connectionsOpen
    BY WorkingIs DEF Working, Threads
  <1> HIDE DEF y
  <1>2. /\ z \in Working /\ z.q = y.q
        /\ z.t.acceptRing = y.t.acceptRing /\ z.t.acceptStalled = y.t.acceptStalled
        /\ z.t.acceptArmed = y.t.acceptArmed
        /\ z.t.connectionsOpen = IF e.res = "slot" THEN [y.t.connectionsOpen EXCEPT ![g] = @ + 1]
                                 ELSE y.t.connectionsOpen
    <2>1. CASE e.res # "slot"
      BY <1>1, <2>1
    <2>2. CASE e.res = "slot"
      <3>1. z = [y EXCEPT !.t.connectionsOpen[g] = y.t.connectionsOpen[g] + 1]
        BY <2>2
      <3>2. y.t.connectionsOpen[g] + 1 \in Nat
        BY <1>1, WorkingIs
      <3>3. y.t \in Threads /\ y = [t |-> y.t, q |-> y.q]
        BY <1>1 DEF Working
      <3>4. z.t = [y.t EXCEPT !.connectionsOpen[g] = y.t.connectionsOpen[g] + 1] /\ z.q = y.q
            /\ z = [t |-> z.t, q |-> z.q]
        BY <3>1, <3>3
      <3>5. z.t \in Threads
        BY <3>2, <3>3, <3>4 DEF Threads
      <3> QED
        BY <2>2, <3>3, <3>4, <3>5, <1>1 DEF Working, Threads
    <2> QED
      BY <2>1, <2>2
  <1>3. z = Taken(x, g, e)
    BY DEF Taken, y
  <1> HIDE DEF z
  <1> QED
    BY <1>1, <1>2, <1>3

LEMMA AcceptHandled ==
  ASSUME ringCount \in RingCounts, NEW x \in Working, NEW g \in Rings,
         NEW e \in Completions, e.op = "accept",
         NEW w, w = Accept!HandleAcceptCompletion(x, g, e)
  PROVE  /\ Keeps(Taken(x, g, e), w)
         /\ ringCount = 1 /\ e.res # "ECANCELED" /\ (x.t.acceptStalled <=> ~x.t.acceptArmed[0])
              /\ (e.more \/ x.t.acceptArmed[0]) =>
              /\ w.t.acceptStalled <=> ~w.t.acceptArmed[0]
              /\ w.t.acceptStalled =>
                   x.t.acceptStalled \/ w.t.connectionsOpen[0] >= connectionSlots
              /\ Count(w.q[0], {"cancel"}) = Count(x.q[0], {"cancel"})
  <1> DEFINE z == Taken(x, g, e)
             rearm == IF ~e.more /\ z.t.acceptRing = g /\ ~z.t.acceptStalled
                      THEN Accept!ArmAccept(z, g) ELSE z
             here  == ringCount > 1 /\ z.t.acceptRing = g
                        /\ Accept!FreeSlots(z.t, g) <= URING_ACCEPT_RESERVE
  <1>1. w = CASE e.res = "slot" -> IF here THEN Accept!MoveAcceptOn(z, g) ELSE rearm
              [] e.res = "ECANCELED" -> z
              [] e.res = "EMFILE"    -> Accept!ArmAcceptSomewhere(z, g + 1)
              [] OTHER               -> rearm
    BY Zenon DEF Accept!HandleAcceptCompletion, Taken
  <1>2. z \in Working
    BY TakenIs
  <1>3. e.res \in {"slot", "EMFILE", "error", "ECANCELED"} /\ (e.more => e.res = "slot")
        /\ e.more \in BOOLEAN
    BY CompletionIs
  <1>4. g + 1 \in Nat
    BY NextRing, Zenon
  <1>5. Keeps(z, z) /\ Keeps(z, Accept!ArmAccept(z, g)) /\ Keeps(z, Accept!MoveAcceptOn(z, g))
        /\ Keeps(z, Accept!ArmAcceptSomewhere(z, g + 1))
    <2>1. Keeps(z, z)
      BY <1>2 DEF Keeps
    <2> HIDE DEF z
    <2>2. Keeps(z, Accept!ArmAccept(z, g))
      BY <1>2, ArmAcceptDoes
    <2>3. Keeps(z, Accept!MoveAcceptOn(z, g))
      BY <1>2, MoveDoes
    <2>4. Keeps(z, Accept!ArmAcceptSomewhere(z, g + 1))
      BY <1>2, <1>4, ArmSomewhereDoes
    <2> QED
      BY <2>1, <2>2, <2>3, <2>4
  <1>6. Keeps(z, w)
    BY <1>1, <1>3, <1>5
  <1>7. ASSUME ringCount = 1, e.res # "ECANCELED", x.t.acceptStalled <=> ~x.t.acceptArmed[0],
               e.more \/ x.t.acceptArmed[0]
        PROVE  /\ w.t.acceptStalled <=> ~w.t.acceptArmed[0]
               /\ w.t.acceptStalled =>
                    x.t.acceptStalled \/ w.t.connectionsOpen[0] >= connectionSlots
               /\ Count(w.q[0], {"cancel"}) = Count(x.q[0], {"cancel"})
    <2>1. g = 0 /\ 0 \in Rings /\ z.t.acceptRing = 0 /\ ~here
      BY <1>7, <1>2, RingsAre, WorkingIs
    <2>2. z.q = x.q /\ z.t.acceptStalled = x.t.acceptStalled
      BY TakenIs
    <2>3. CASE e.more
      <3>1. w = z
        BY <2>3, <2>1, <1>1, <1>3
      <3>2. z.t.acceptArmed = x.t.acceptArmed
        BY <2>3, TakenIs
      <3> HIDE DEF z
      <3> QED
        BY <3>1, <3>2, <2>2, <1>7
    <2>4. CASE ~e.more
      <3>1. ~z.t.acceptArmed[0] /\ ~z.t.acceptStalled
        <4>1. z.t.acceptArmed = [x.t.acceptArmed EXCEPT ![0] = FALSE]
          BY <2>4, <2>1, TakenIs
        <4>2. x.t.acceptArmed \in [Rings -> BOOLEAN]
          BY WorkingIs
        <4> HIDE DEF z
        <4> QED
          BY <4>1, <4>2, <2>4, <2>1, <2>2, <1>7
      <3> HIDE DEF z
      <3>2. CASE e.res = "EMFILE"
        <4>1. w = Accept!ArmAcceptSomewhere(z, g + 1)
          BY <3>2, <1>1
        <4>2. /\ w.t.acceptStalled <=> ~w.t.acceptArmed[0]
              /\ w.t.acceptStalled => z.t.connectionsOpen[0] >= connectionSlots
              /\ Count(w.q[0], {"cancel"}) = Count(z.q[0], {"cancel"})
          BY <4>1, <3>1, <1>2, <1>4, <1>7, ArmSomewhereDoes
        <4>3. w.t.connectionsOpen = z.t.connectionsOpen
          BY <1>6 DEF Keeps
        <4> QED
          BY <4>2, <4>3, <2>2
      <3>3. CASE e.res # "EMFILE"
        <4>1. w = Accept!ArmAccept(z, g)
          BY <3>3, <3>1, <2>1, <2>4, <1>1, <1>3, <1>7
        <4>2. /\ w.t.acceptArmed[0] /\ ~w.t.acceptStalled
              /\ Count(w.q[0], {"cancel"}) = Count(z.q[0], {"cancel"})
          BY <4>1, <3>1, <2>1, <1>2, ArmAcceptDoes
        <4> QED
          BY <4>2, <2>2
      <3> QED
        BY <3>2, <3>3
    <2> QED
      BY <2>3, <2>4, <1>3
  <1> QED
    BY <1>6, <1>7

-----------------------------------------------------------------------------
(* The steps of the rings *)

Back == [op |-> "close"]

LEMMA KindsOfCompletions ==
  /\ \A res \in {"slot", "EMFILE", "error", "ECANCELED"}, more \in BOOLEAN :
       LET e == Accept!AcceptCompletion(res, more)
       IN  /\ more => res = "slot"
           => /\ e \in Completions /\ e.op = "accept"
              /\ e \in Ends <=> ~more
              /\ e \in Brought <=> res = "slot"
              /\ e \in Cancels <=> res = "ECANCELED"
              /\ e \notin Closed
  /\ Back \in Completions /\ Back \in Closed /\ Back.op = "close"
  /\ Back \notin Ends /\ Back \notin Brought /\ Back \notin Cancels
  <1>1. ASSUME NEW res \in {"slot", "EMFILE", "error", "ECANCELED"}, NEW more \in BOOLEAN,
               more => res = "slot", NEW e, e = Accept!AcceptCompletion(res, more)
        PROVE  /\ e \in Completions /\ e.op = "accept"
               /\ e \in Ends <=> ~more
               /\ e \in Brought <=> res = "slot"
               /\ e \in Cancels <=> res = "ECANCELED"
               /\ e \notin Closed
    <2>1. e \in Completions
      <3>1. CASE more
        BY <1>1, <3>1 DEF Completions
      <3>2. CASE ~more
        <4>1. more = FALSE
          BY <3>2
        <4> QED
          BY <1>1, <4>1 DEF Completions
      <3> QED
        BY <3>1, <3>2
    <2>2. e.op = "accept" /\ e.res = res /\ e.more = more
      BY <1>1 DEF Accept!AcceptCompletion
    <2> QED
      BY <2>1, <2>2 DEF Ends, Brought, Cancels, Closed
  <1>2. Back \in Completions /\ Back.op = "close"
    BY DEF Completions, Back
  <1>3. Back \in Closed /\ Back \notin Ends /\ Back \notin Brought /\ Back \notin Cancels
    BY <1>2 DEF Ends, Brought, Cancels, Closed
  <1> QED
    BY <1>1, <1>2, <1>3, Zenon

\* Counts are numbers, and follow what is appended and taken.
LEMMA QueuesCount ==
  ASSUME AcceptTypes, NEW g \in Rings
  PROVE  /\ sq[g] \in Seq(Submissions) /\ cq[g] \in Seq(Completions)
         /\ \A Q : Count(sq[g], Q) \in Nat /\ Count(cq[g], Q) \in Nat
         /\ \A Q : \A d \in Submissions :
              Count(Append(sq[g], d), Q) = Count(sq[g], Q) + Bit(d \in Q)
         /\ \A Q : \A e \in Completions :
              Count(Append(cq[g], e), Q) = Count(cq[g], Q) + Bit(e \in Q)
         /\ sq[g] # << >> => \A Q : Count(sq[g], Q) = Count(Tail(sq[g]), Q) + Bit(Head(sq[g]) \in Q)
         /\ cq[g] # << >> => \A Q : Count(cq[g], Q) = Count(Tail(cq[g]), Q) + Bit(Head(cq[g]) \in Q)
         /\ sq[g] # << >> => /\ Tail(sq[g]) \in Seq(Submissions) /\ Head(sq[g]) \in Submissions
                             /\ \A Q : Count(Tail(sq[g]), Q) \in Nat
         /\ cq[g] # << >> => /\ Tail(cq[g]) \in Seq(Completions) /\ Head(cq[g]) \in Completions
                             /\ \A Q : Count(Tail(cq[g]), Q) \in Nat
  <1>1. sq[g] \in Seq(Submissions) /\ cq[g] \in Seq(Completions)
    BY DEF AcceptTypes
  <1>2. /\ sq[g] # << >> => Tail(sq[g]) \in Seq(Submissions) /\ Head(sq[g]) \in Submissions
        /\ cq[g] # << >> => Tail(cq[g]) \in Seq(Completions) /\ Head(cq[g]) \in Completions
    BY <1>1
  <1>3. \A Q : Count(sq[g], Q) \in Nat /\ Count(cq[g], Q) \in Nat
    BY <1>1, CountIsNat
  <1>4. \A Q : \A d \in Submissions :
          Count(Append(sq[g], d), Q) = Count(sq[g], Q) + Bit(d \in Q)
    BY <1>1, OneMore, Zenon
  <1>5. \A Q : \A e \in Completions :
          Count(Append(cq[g], e), Q) = Count(cq[g], Q) + Bit(e \in Q)
    BY <1>1, OneMore, Zenon
  <1>6. sq[g] # << >> => /\ \A Q : Count(sq[g], Q) = Count(Tail(sq[g]), Q) + Bit(Head(sq[g]) \in Q)
                         /\ \A Q : Count(Tail(sq[g]), Q) \in Nat
    BY <1>1, <1>2, OneLess, CountIsNat, Zenon
  <1>7. cq[g] # << >> => /\ \A Q : Count(cq[g], Q) = Count(Tail(cq[g]), Q) + Bit(Head(cq[g]) \in Q)
                         /\ \A Q : Count(Tail(cq[g]), Q) \in Nat
    BY <1>1, <1>2, OneLess, CountIsNat, Zenon
  <1> QED
    BY <1>1, <1>2, <1>3, <1>4, <1>5, <1>6, <1>7

\* What is the same for a ring keeps its accounts.
SameRing(h) ==
  /\ sq'[h] = sq[h] /\ cq'[h] = cq[h] /\ ringArmed'[h] = ringArmed[h] /\ used'[h] = used[h]
  /\ th'.acceptArmed[h] = th.acceptArmed[h] /\ th'.connectionsOpen[h] = th.connectionsOpen[h]

LEMMA OtherRings ==
  ASSUME AcceptInv, AcceptTypes', ringCount' = ringCount, NEW g \in Rings,
         \A h \in Rings \ {g} : SameRing(h),
         Marked(g)', GivenOut(g)', ringCount = 1 => OneRing'
  PROVE  AcceptInv'
  <1>1. Rings' = Rings
    BY DEF Rings, Accept!Rings
  <1>2. ASSUME NEW h \in Rings PROVE Marked(h)' /\ GivenOut(h)'
    <2>1. CASE h = g
      BY <2>1
    <2>2. CASE h # g
      BY <2>2 DEF AcceptInv, SameRing, Marked, GivenOut
    <2> QED
      BY <2>1, <2>2
  <1> QED
    BY <1>1, <1>2 DEF AcceptInv

LEMMA SameTypes ==
  ASSUME AcceptTypes, ringCount' = ringCount,
         th' \in Threads, sq' \in [Rings -> Seq(Submissions)],
         cq' \in [Rings -> Seq(Completions)], ringArmed' \in [Rings -> BOOLEAN],
         used' \in [Rings -> 0 .. connectionSlots]
  PROVE  AcceptTypes'
  <1>1. Rings' = Rings
    BY DEF Rings, Accept!Rings
  <1>2. Threads' = Threads
    BY <1>1 DEF Threads
  <1> QED
    BY <1>1, <1>2 DEF AcceptTypes

LEMMA CloseKeepsAccept ==
  ASSUME AcceptInv, NEW g \in Rings, Accept!CloseConnection(g)
  PROVE  AcceptInv'
  <1>0. AcceptTypes /\ ringCount \in RingCounts /\ Marked(g) /\ GivenOut(g)
        /\ (ringCount = 1 => OneRing)
    BY DEF AcceptInv, AcceptTypes
  <1>1. /\ th.connectionsOpen[g] > 0
        /\ th' = [th EXCEPT !.connectionsOpen[g] = @ - 1]
        /\ sq' = [sq EXCEPT ![g] = Append(@, "close")]
        /\ ringCount' = ringCount /\ cq' = cq /\ ringArmed' = ringArmed /\ used' = used
    BY DEF Accept!CloseConnection
  <1>2. th.connectionsOpen \in [Rings -> Nat] /\ th.acceptArmed \in [Rings -> BOOLEAN]
        /\ th \in Threads /\ "close" \in Submissions /\ used[g] \in Nat
    BY <1>0, RingsAssumption DEF AcceptTypes, Threads, Submissions
  <1>3. th' \in Threads /\ th'.acceptArmed = th.acceptArmed
        /\ th'.acceptStalled = th.acceptStalled
        /\ th'.connectionsOpen = [th.connectionsOpen EXCEPT ![g] = @ - 1]
    <2>1. th.connectionsOpen[g] - 1 \in Nat
      BY <1>1, <1>2
    <2> QED
      BY <2>1, <1>1, <1>2 DEF Threads
  <1>4. sq' \in [Rings -> Seq(Submissions)] /\ sq'[g] = Append(sq[g], "close")
    <2>1. Append(sq[g], "close") \in Seq(Submissions)
      BY <1>0, <1>2, QueuesCount
    <2> QED
      BY <2>1, <1>0, <1>1 DEF AcceptTypes
  <1>5. AcceptTypes'
    BY <1>0, <1>1, <1>3, <1>4, SameTypes DEF AcceptTypes
  <1>6. \A h \in Rings \ {g} : SameRing(h)
    BY <1>0, <1>1, <1>2, <1>3 DEF SameRing, AcceptTypes
  <1>7. /\ \A Q : Count(sq'[g], Q) = Count(sq[g], Q) + Bit("close" \in Q)
        /\ \A Q : Count(sq[g], Q) \in Nat /\ Count(cq[g], Q) \in Nat
        /\ Bit("close" \in {"accept"}) = 0 /\ Bit("close" \in {"cancel"}) = 0
        /\ Bit("close" \in {"close"}) = 1
    <2>1. \A Q : Count(Append(sq[g], "close"), Q) = Count(sq[g], Q) + Bit("close" \in Q)
      BY <1>0, <1>2, QueuesCount, Zenon
    <2>2. \A Q : Count(sq[g], Q) \in Nat /\ Count(cq[g], Q) \in Nat
      BY <1>0, QueuesCount, Zenon
    <2>3. /\ Bit("close" \in {"accept"}) = 0 /\ Bit("close" \in {"cancel"}) = 0
          /\ Bit("close" \in {"close"}) = 1
      BY DEF Bit
    <2> QED
      BY <2>1, <2>2, <2>3, <1>4, Zenon
  <1>8. Marked(g)'
    BY <1>0, <1>1, <1>3, <1>7 DEF Marked
  <1>9. GivenOut(g)'
    <2>1. Count(sq'[g], {"close"}) = Count(sq[g], {"close"}) + 1
      BY <1>7
    <2>2. th'.connectionsOpen[g] = th.connectionsOpen[g] - 1 /\ th.connectionsOpen[g] \in Nat
      BY <1>2, <1>3
    <2>3. Count(sq[g], {"close"}) \in Nat /\ Count(cq[g], Brought) \in Nat
      BY <1>7
    <2> QED
      BY <2>1, <2>2, <2>3, <1>0, <1>1, <1>2 DEF GivenOut
  <1>10. ASSUME ringCount = 1 PROVE OneRing'
    <2>1. g = 0
      BY <1>0, <1>10, RingsAre
    <2>2. /\ Count(sq'[0], {"cancel"}) = 0 /\ Count(cq'[0], Cancels) = 0
      BY <2>1, <1>0, <1>1, <1>7, <1>10 DEF OneRing
    <2>3. Count(sq'[0], {"close"}) + Count(cq'[0], Closed) > 0
      <3>1. Count(sq'[0], {"close"}) = Count(sq[0], {"close"}) + 1
        BY <2>1, <1>7
      <3>2. Count(sq[0], {"close"}) \in Nat /\ Count(cq'[0], Closed) \in Nat
        BY <2>1, <1>1, <1>7
      <3> QED
        BY <3>1, <3>2
    <2> QED
      BY <2>2, <2>3, <1>0, <1>3, <1>10 DEF OneRing
  <1> QED
    BY <1>1, <1>5, <1>6, <1>8, <1>9, <1>10, OtherRings

LEMMA KernelArmsKeeps ==
  ASSUME AcceptInv, NEW g \in Rings, Accept!KernelArms(g)
  PROVE  AcceptInv'
  <1>0. AcceptTypes /\ ringCount \in RingCounts /\ Marked(g) /\ GivenOut(g)
        /\ (ringCount = 1 => OneRing)
    BY DEF AcceptInv, AcceptTypes
  <1>1. /\ sq[g] # << >> /\ Head(sq[g]) = "accept"
        /\ ringArmed' = [ringArmed EXCEPT ![g] = TRUE]
        /\ sq' = [sq EXCEPT ![g] = Tail(@)]
        /\ ringCount' = ringCount /\ th' = th /\ cq' = cq /\ used' = used
    BY DEF Accept!KernelArms
  <1>2. sq' \in [Rings -> Seq(Submissions)] /\ sq'[g] = Tail(sq[g])
    <2>1. Tail(sq[g]) \in Seq(Submissions)
      BY <1>0, <1>1, QueuesCount
    <2> QED
      BY <2>1, <1>0, <1>1 DEF AcceptTypes
  <1>3. AcceptTypes'
    BY <1>0, <1>1, <1>2, SameTypes DEF AcceptTypes
  <1>4. \A h \in Rings \ {g} : SameRing(h)
    BY <1>0, <1>1 DEF SameRing, AcceptTypes
  <1>5. /\ \A Q : Count(sq[g], Q) = Count(sq'[g], Q) + Bit("accept" \in Q)
        /\ \A Q : Count(sq'[g], Q) \in Nat /\ Count(cq[g], Q) \in Nat
        /\ Bit("accept" \in {"accept"}) = 1 /\ Bit("accept" \in {"cancel"}) = 0
        /\ Bit("accept" \in {"close"}) = 0
    <2>1. \A Q : Count(sq[g], Q) = Count(Tail(sq[g]), Q) + Bit(Head(sq[g]) \in Q)
      BY <1>0, <1>1, QueuesCount, Zenon
    <2>2. \A Q : Count(Tail(sq[g]), Q) \in Nat /\ Count(cq[g], Q) \in Nat
      BY <1>0, <1>1, QueuesCount, Zenon
    <2>3. /\ Bit("accept" \in {"accept"}) = 1 /\ Bit("accept" \in {"cancel"}) = 0
          /\ Bit("accept" \in {"close"}) = 0
      BY DEF Bit
    <2> QED
      BY <2>1, <2>2, <2>3, <1>1, <1>2, Zenon
  <1>6. /\ Count(sq[g], {"accept"}) = Count(sq'[g], {"accept"}) + 1
        /\ Count(sq[g], {"close"}) = Count(sq'[g], {"close"})
        /\ Count(sq[g], {"cancel"}) = Count(sq'[g], {"cancel"})
        /\ Count(cq[g], Ends) \in Nat /\ Count(sq'[g], {"accept"}) \in Nat
    BY <1>5
  <1>7. Marked(g)'
    <2>1. Bit(ringArmed'[g]) = 1 /\ Bit(ringArmed[g]) \in {0, 1} /\ Bit(th.acceptArmed[g]) \in {0, 1}
      BY <1>0, <1>1 DEF Bit, AcceptTypes
    <2> QED
      BY <2>1, <1>0, <1>1, <1>6 DEF Marked
  <1>8. GivenOut(g)'
    BY <1>0, <1>1, <1>6 DEF GivenOut
  <1>9. ringCount = 1 => OneRing'
    <2>1. ringCount = 1 => g = 0
      BY <1>0, RingsAre
    <2> QED
      BY <2>1, <1>0, <1>1, <1>6 DEF OneRing
  <1> QED
    BY <1>1, <1>3, <1>4, <1>7, <1>8, <1>9, OtherRings

LEMMA KernelCancelsKeeps ==
  ASSUME AcceptInv, NEW g \in Rings, Accept!KernelCancels(g)
  PROVE  AcceptInv'
  <1> DEFINE e == Accept!AcceptCompletion("ECANCELED", FALSE)
  <1>0. AcceptTypes /\ ringCount \in RingCounts /\ Marked(g) /\ GivenOut(g)
        /\ (ringCount = 1 => OneRing)
    BY DEF AcceptInv, AcceptTypes
  <1>1. /\ sq[g] # << >> /\ Head(sq[g]) = "cancel"
        /\ cq' = IF ringArmed[g] THEN [cq EXCEPT ![g] = Append(@, e)] ELSE cq
        /\ ringArmed' = [ringArmed EXCEPT ![g] = FALSE]
        /\ sq' = [sq EXCEPT ![g] = Tail(@)]
        /\ ringCount' = ringCount /\ th' = th /\ used' = used
    BY DEF Accept!KernelCancels, Accept!Post
  <1> HIDE DEF e
  <1>2. e \in Completions /\ e \in Ends /\ e \notin Brought
    BY KindsOfCompletions DEF e
  <1>3. sq' \in [Rings -> Seq(Submissions)] /\ sq'[g] = Tail(sq[g])
    <2>1. Tail(sq[g]) \in Seq(Submissions)
      BY <1>0, <1>1, QueuesCount
    <2> QED
      BY <2>1, <1>0, <1>1 DEF AcceptTypes
  <1>4. cq' \in [Rings -> Seq(Completions)]
        /\ cq'[g] = IF ringArmed[g] THEN Append(cq[g], e) ELSE cq[g]
    <2>1. Append(cq[g], e) \in Seq(Completions)
      BY <1>0, <1>2, QueuesCount
    <2> QED
      BY <2>1, <1>0, <1>1 DEF AcceptTypes
  <1>5. AcceptTypes'
    BY <1>0, <1>1, <1>3, <1>4, SameTypes DEF AcceptTypes
  <1>6. \A h \in Rings \ {g} : SameRing(h)
    BY <1>0, <1>1 DEF SameRing, AcceptTypes
  <1>7. /\ \A Q : Count(sq[g], Q) = Count(sq'[g], Q) + Bit("cancel" \in Q)
        /\ \A Q : Count(sq'[g], Q) \in Nat /\ Count(cq[g], Q) \in Nat
        /\ Bit("cancel" \in {"accept"}) = 0 /\ Bit("cancel" \in {"cancel"}) = 1
        /\ Bit("cancel" \in {"close"}) = 0
    <2>1. \A Q : Count(sq[g], Q) = Count(Tail(sq[g]), Q) + Bit(Head(sq[g]) \in Q)
      BY <1>0, <1>1, QueuesCount, Zenon
    <2>2. \A Q : Count(Tail(sq[g]), Q) \in Nat /\ Count(cq[g], Q) \in Nat
      BY <1>0, <1>1, QueuesCount, Zenon
    <2>3. /\ Bit("cancel" \in {"accept"}) = 0 /\ Bit("cancel" \in {"cancel"}) = 1
          /\ Bit("cancel" \in {"close"}) = 0
      BY DEF Bit
    <2> QED
      BY <2>1, <2>2, <2>3, <1>1, <1>3, Zenon
  <1>8. /\ Count(sq[g], {"accept"}) = Count(sq'[g], {"accept"})
        /\ Count(sq[g], {"close"}) = Count(sq'[g], {"close"})
        /\ Count(sq[g], {"cancel"}) > 0
        /\ Count(cq[g], Ends) \in Nat /\ Count(cq[g], Brought) \in Nat
    BY <1>7
  <1>9. /\ Count(cq'[g], Ends) = Count(cq[g], Ends) + Bit(ringArmed[g])
        /\ Count(cq'[g], Brought) = Count(cq[g], Brought)
    <2>1. CASE ringArmed[g]
      <3>1. \A Q : Count(cq'[g], Q) = Count(cq[g], Q) + Bit(e \in Q)
        BY <2>1, <1>0, <1>2, <1>4, QueuesCount
      <3>2. Bit(e \in Ends) = 1 /\ Bit(e \in Brought) = 0 /\ Bit(ringArmed[g]) = 1
        BY <2>1, <1>2 DEF Bit
      <3> QED
        BY <3>1, <3>2, <1>8
    <2>2. CASE ~ringArmed[g]
      BY <2>2, <1>4, <1>8 DEF Bit
    <2> QED
      BY <2>1, <2>2
  <1>10. Marked(g)'
    <2>1. Bit(ringArmed'[g]) = 0 /\ Bit(ringArmed[g]) \in {0, 1}
      BY <1>0, <1>1 DEF Bit, AcceptTypes
    <2>2. Count(sq'[g], {"accept"}) \in Nat
      BY <1>7
    <2> QED
      BY <2>1, <2>2, <1>0, <1>1, <1>8, <1>9 DEF Marked
  <1>11. GivenOut(g)'
    BY <1>0, <1>1, <1>8, <1>9 DEF GivenOut
  <1>12. ringCount # 1
    <2>1. ringCount = 1 => g = 0
      BY <1>0, RingsAre
    <2> QED
      BY <2>1, <1>0, <1>8 DEF OneRing
  <1> QED
    BY <1>1, <1>5, <1>6, <1>10, <1>11, <1>12, OtherRings

LEMMA KernelClosesKeeps ==
  ASSUME AcceptInv, NEW g \in Rings, Accept!KernelCloses(g)
  PROVE  AcceptInv'
  <1>0. AcceptTypes /\ ringCount \in RingCounts /\ Marked(g) /\ GivenOut(g)
        /\ (ringCount = 1 => OneRing)
    BY DEF AcceptInv, AcceptTypes
  <1>1. /\ sq[g] # << >> /\ Head(sq[g]) = "close"
        /\ cq' = [cq EXCEPT ![g] = Append(@, Back)]
        /\ used' = [used EXCEPT ![g] = @ - 1]
        /\ sq' = [sq EXCEPT ![g] = Tail(@)]
        /\ ringCount' = ringCount /\ th' = th /\ ringArmed' = ringArmed
    BY DEF Accept!KernelCloses, Accept!Post, Back
  <1>2. sq' \in [Rings -> Seq(Submissions)] /\ sq'[g] = Tail(sq[g])
    <2>1. Tail(sq[g]) \in Seq(Submissions)
      BY <1>0, <1>1, QueuesCount
    <2> QED
      BY <2>1, <1>0, <1>1 DEF AcceptTypes
  <1>3. cq' \in [Rings -> Seq(Completions)] /\ cq'[g] = Append(cq[g], Back)
    <2>1. Append(cq[g], Back) \in Seq(Completions)
      BY <1>0, QueuesCount, KindsOfCompletions
    <2> QED
      BY <2>1, <1>0, <1>1 DEF AcceptTypes
  <1>4. /\ \A Q : Count(sq[g], Q) = Count(sq'[g], Q) + Bit("close" \in Q)
        /\ \A Q : Count(sq'[g], Q) \in Nat /\ Count(cq[g], Q) \in Nat
        /\ \A Q : Count(cq'[g], Q) = Count(cq[g], Q) + Bit(Back \in Q)
    <2>1. \A Q : Count(sq[g], Q) = Count(Tail(sq[g]), Q) + Bit(Head(sq[g]) \in Q)
      BY <1>0, <1>1, QueuesCount, Zenon
    <2>2. \A Q : Count(Tail(sq[g]), Q) \in Nat /\ Count(cq[g], Q) \in Nat
      BY <1>0, <1>1, QueuesCount, Zenon
    <2>3. \A Q : Count(Append(cq[g], Back), Q) = Count(cq[g], Q) + Bit(Back \in Q)
      BY <1>0, QueuesCount, KindsOfCompletions, Zenon
    <2> QED
      BY <2>1, <2>2, <2>3, <1>1, <1>2, <1>3, Zenon
  <1>5. /\ Bit("close" \in {"accept"}) = 0 /\ Bit("close" \in {"cancel"}) = 0
        /\ Bit("close" \in {"close"}) = 1
        /\ Bit(Back \in Ends) = 0 /\ Bit(Back \in Brought) = 0 /\ Bit(Back \in Cancels) = 0
        /\ Bit(Back \in Closed) = 1
    BY KindsOfCompletions DEF Bit
  <1>6. /\ Count(sq[g], {"accept"}) = Count(sq'[g], {"accept"})
        /\ Count(sq[g], {"cancel"}) = Count(sq'[g], {"cancel"})
        /\ Count(sq[g], {"close"}) = Count(sq'[g], {"close"}) + 1
        /\ Count(cq'[g], Ends) = Count(cq[g], Ends)
        /\ Count(cq'[g], Brought) = Count(cq[g], Brought)
        /\ Count(cq'[g], Cancels) = Count(cq[g], Cancels)
        /\ Count(cq'[g], Closed) = Count(cq[g], Closed) + 1
        /\ Count(sq'[g], {"close"}) \in Nat /\ Count(cq[g], Brought) \in Nat
        /\ Count(cq[g], Closed) \in Nat
    BY <1>4, <1>5
  <1>7. /\ th.connectionsOpen[g] \in Nat /\ used[g] \in 0 .. connectionSlots
        /\ connectionSlots \in Nat
    BY <1>0, RingsAssumption DEF AcceptTypes, Threads
  <1>8. used[g] - 1 \in 0 .. connectionSlots
    BY <1>0, <1>6, <1>7 DEF GivenOut
  <1>9. used' \in [Rings -> 0 .. connectionSlots] /\ used'[g] = used[g] - 1
    BY <1>0, <1>1, <1>8 DEF AcceptTypes
  <1>10. AcceptTypes'
    BY <1>0, <1>1, <1>2, <1>3, <1>9, SameTypes DEF AcceptTypes
  <1>11. \A h \in Rings \ {g} : SameRing(h)
    BY <1>0, <1>1 DEF SameRing, AcceptTypes
  <1>12. Marked(g)'
    BY <1>0, <1>1, <1>6 DEF Marked
  <1>13. GivenOut(g)'
    <2>1. used[g] = th.connectionsOpen[g] + Count(cq[g], Brought) + Count(sq[g], {"close"})
      BY <1>0 DEF GivenOut
    <2>2. used[g] - 1 = th.connectionsOpen[g] + Count(cq[g], Brought) + Count(sq'[g], {"close"})
      BY <2>1, <1>6, <1>7
    <2> QED
      BY <2>2, <1>1, <1>6, <1>9 DEF GivenOut
  <1>14. ringCount = 1 => OneRing'
    <2>1. ringCount = 1 => g = 0
      BY <1>0, RingsAre
    <2> QED
      BY <2>1, <1>0, <1>1, <1>6 DEF OneRing
  <1> QED
    BY <1>1, <1>10, <1>11, <1>12, <1>13, <1>14, OtherRings

LEMMA KernelAcceptsKeeps ==
  ASSUME AcceptInv, NEW g \in Rings, Accept!KernelAccepts(g)
  PROVE  AcceptInv'
  <1>0. AcceptTypes /\ ringCount \in RingCounts /\ Marked(g) /\ GivenOut(g)
        /\ (ringCount = 1 => OneRing)
    BY DEF AcceptInv, AcceptTypes
  <1>1. PICK res \in {"slot", "EMFILE", "error"}, more \in BOOLEAN :
          /\ more => res = "slot"
          /\ res = "slot" => used[g] < connectionSlots
          /\ cq' = [cq EXCEPT ![g] = Append(@, Accept!AcceptCompletion(res, more))]
          /\ used' = IF res = "slot" THEN [used EXCEPT ![g] = @ + 1] ELSE used
          /\ ringArmed' = [ringArmed EXCEPT ![g] = more]
    <2>1. CASE \E more \in BOOLEAN :
                 /\ used[g] < connectionSlots
                 /\ Accept!Post(g, Accept!AcceptCompletion("slot", more))
                 /\ used' = [used EXCEPT ![g] = @ + 1]
                 /\ ringArmed' = [ringArmed EXCEPT ![g] = more]
      BY <2>1 DEF Accept!Post
    <2>2. CASE /\ Accept!Post(g, Accept!AcceptCompletion("EMFILE", FALSE))
               /\ ringArmed' = [ringArmed EXCEPT ![g] = FALSE]
               /\ UNCHANGED used
      BY <2>2 DEF Accept!Post
    <2>3. CASE /\ Accept!Post(g, Accept!AcceptCompletion("error", FALSE))
               /\ ringArmed' = [ringArmed EXCEPT ![g] = FALSE]
               /\ UNCHANGED used
      BY <2>3 DEF Accept!Post
    <2> QED
      BY <2>1, <2>2, <2>3 DEF Accept!KernelAccepts
  <1>2. ringArmed[g] /\ ringCount' = ringCount /\ th' = th /\ sq' = sq
    BY DEF Accept!KernelAccepts
  <1> DEFINE e == Accept!AcceptCompletion(res, more)
  <1>3. /\ e \in Completions /\ (e \in Ends <=> ~more) /\ (e \in Brought <=> res = "slot")
        /\ e \notin Cancels /\ e \notin Closed
    BY <1>1, KindsOfCompletions
  <1> HIDE DEF e
  <1>4. cq' \in [Rings -> Seq(Completions)] /\ cq'[g] = Append(cq[g], e)
    <2>1. Append(cq[g], e) \in Seq(Completions)
      BY <1>0, <1>3, QueuesCount
    <2> QED
      BY <2>1, <1>0, <1>1 DEF AcceptTypes, e
  <1>5. /\ \A Q : Count(cq[g], Q) \in Nat
        /\ \A Q : Count(cq'[g], Q) = Count(cq[g], Q) + Bit(e \in Q)
    <2>1. \A Q : Count(cq[g], Q) \in Nat
      BY <1>0, QueuesCount, Zenon
    <2>2. \A Q : Count(Append(cq[g], e), Q) = Count(cq[g], Q) + Bit(e \in Q)
      BY <1>0, <1>3, QueuesCount, Zenon
    <2> QED
      BY <2>1, <2>2, <1>4, Zenon
  <1>6. /\ Bit(e \in Ends) = Bit(~more) /\ Bit(e \in Brought) = Bit(res = "slot")
        /\ Bit(e \in Cancels) = 0 /\ Bit(e \in Closed) = 0
    BY <1>3 DEF Bit
  <1>7. /\ Count(cq'[g], Ends) = Count(cq[g], Ends) + Bit(~more)
        /\ Count(cq'[g], Brought) = Count(cq[g], Brought) + Bit(res = "slot")
        /\ Count(cq'[g], Cancels) = Count(cq[g], Cancels)
        /\ Count(cq'[g], Closed) = Count(cq[g], Closed)
        /\ Count(cq[g], Ends) \in Nat /\ Count(cq[g], Brought) \in Nat
    BY <1>5, <1>6
  <1>8. /\ th.connectionsOpen[g] \in Nat /\ used[g] \in 0 .. connectionSlots
        /\ connectionSlots \in Nat
        /\ Count(sq[g], {"close"}) \in Nat /\ Count(sq[g], {"accept"}) \in Nat
    <2>1. Count(sq[g], {"close"}) \in Nat /\ Count(sq[g], {"accept"}) \in Nat
      BY <1>0, QueuesCount, Zenon
    <2> QED
      BY <2>1, <1>0, RingsAssumption DEF AcceptTypes, Threads
  <1>9. /\ used' \in [Rings -> 0 .. connectionSlots]
        /\ used'[g] = used[g] + Bit(res = "slot")
    <2>1. CASE res = "slot"
      <3>1. used[g] + 1 \in 0 .. connectionSlots
        BY <2>1, <1>1, <1>8
      <3> QED
        BY <3>1, <2>1, <1>0, <1>1 DEF AcceptTypes, Bit
    <2>2. CASE res # "slot"
      BY <2>2, <1>0, <1>1, <1>8 DEF AcceptTypes, Bit
    <2> QED
      BY <2>1, <2>2
  <1>10. AcceptTypes'
    <2>1. ringArmed' \in [Rings -> BOOLEAN]
      BY <1>0, <1>1 DEF AcceptTypes
    <2> QED
      BY <2>1, <1>0, <1>2, <1>4, <1>9, SameTypes DEF AcceptTypes
  <1>11. \A h \in Rings \ {g} : SameRing(h)
    BY <1>0, <1>1, <1>2 DEF SameRing, AcceptTypes
  <1>12. Marked(g)'
    <2>1. ringArmed'[g] = more
      BY <1>0, <1>1 DEF AcceptTypes
    <2>2. Bit(ringArmed[g]) = Bit(ringArmed'[g]) + Bit(~more)
          /\ Bit(ringArmed'[g]) \in {0, 1} /\ Bit(~more) \in {0, 1}
      BY <2>1, <1>1, <1>2 DEF Bit
    <2> QED
      BY <2>2, <1>0, <1>2, <1>7, <1>8 DEF Marked
  <1>13. GivenOut(g)'
    <2>1. Bit(res = "slot") \in {0, 1}
      BY DEF Bit
    <2> QED
      BY <2>1, <1>0, <1>2, <1>7, <1>8, <1>9 DEF GivenOut
  <1>14. ringCount = 1 => OneRing'
    <2>1. ringCount = 1 => g = 0
      BY <1>0, RingsAre
    <2> QED
      BY <2>1, <1>0, <1>2, <1>7 DEF OneRing
  <1> QED
    BY <1>2, <1>10, <1>11, <1>12, <1>13, <1>14, OtherRings

\* The completion e, read from ring g, was one of Q on ring k.
Read(k, g, e, Q) == IF k = g /\ e \in Q THEN 1 ELSE 0

\* What a completion that is read changes, for each kind of it.
LEMMA ReadCounts ==
  ASSUME AcceptTypes, NEW g \in Rings, cq[g] # << >>, cq' = [cq EXCEPT ![g] = Tail(@)],
         NEW h \in Rings, NEW Q
  PROVE  /\ Count(cq[h], Q) = Count(cq'[h], Q) + Read(h, g, Head(cq[g]), Q)
         /\ Count(cq'[h], Q) \in Nat /\ Count(sq[h], Q) \in Nat
  <1>1. Count(sq[h], Q) \in Nat /\ Count(cq[h], Q) \in Nat
    BY QueuesCount, Zenon
  <1>2. CASE h = g
    <2>1. /\ Count(cq[g], Q) = Count(Tail(cq[g]), Q) + Bit(Head(cq[g]) \in Q)
          /\ Count(Tail(cq[g]), Q) \in Nat
      BY QueuesCount, Zenon
    <2>2. cq'[h] = Tail(cq[g])
      BY <1>2 DEF AcceptTypes
    <2> QED
      BY <1>1, <1>2, <2>1, <2>2 DEF Read, Bit
  <1>3. CASE h # g
    <2>1. Read(h, g, Head(cq[g]), Q) = 0 /\ cq'[h] = cq[h]
      BY <1>3 DEF Read, AcceptTypes
    <2> QED
      BY <1>1, <2>1
  <1> QED
    BY <1>2, <1>3

LEMMA HeadIs ==
  ASSUME AcceptTypes, NEW g \in Rings, cq[g] # << >>, NEW e, e = Head(cq[g])
  PROVE  /\ e \in Completions
         /\ Tail(cq[g]) \in Seq(Completions)
         /\ e.op = "accept" => /\ e \in Ends <=> ~e.more
                               /\ e \in Brought <=> e.res = "slot"
                               /\ e \in Cancels <=> e.res = "ECANCELED"
                               /\ e \notin Closed
         /\ e.op # "accept" => e \in Closed /\ e \notin Ends /\ e \notin Brought /\ e \notin Cancels
  <1>1. e \in Completions /\ Tail(cq[g]) \in Seq(Completions)
    BY QueuesCount, Zenon
  <1>2. e.op = "accept" => /\ e \in Ends <=> ~e.more
                           /\ e \in Brought <=> e.res = "slot"
                           /\ e \in Cancels <=> e.res = "ECANCELED"
                           /\ e \notin Closed
    BY <1>1 DEF Ends, Brought, Cancels, Closed
  <1>3. e.op # "accept" => e \in Closed /\ e \notin Ends /\ e \notin Brought /\ e \notin Cancels
    <2>1. e.op # "accept" => e = Back
      BY <1>1 DEF Completions, Back, Accept!AcceptCompletion
    <2> QED
      BY <2>1, KindsOfCompletions
  <1> QED
    BY <1>1, <1>2, <1>3

\* A completion of the accept that ends it belongs to a ring that is marked.
LEMMA EndsAMark ==
  ASSUME AcceptInv, NEW g \in Rings, NEW c \in Nat, Count(cq[g], Ends) = c + 1
  PROVE  th.acceptArmed[g] /\ Bit(th.acceptArmed[g]) = 1
  <1>1. Count(sq[g], {"accept"}) \in Nat
    BY QueuesCount, Zenon DEF AcceptInv
  <1>2. Bit(ringArmed[g]) \in Nat
    BY DEF Bit
  <1>3. Marked(g)
    BY DEF AcceptInv
  <1>4. th.acceptArmed[g] \in BOOLEAN
    BY DEF AcceptInv, AcceptTypes, Threads
  <1>5. Bit(th.acceptArmed[g]) >= 1
    BY <1>1, <1>2, <1>3 DEF Marked
  <1> QED
    BY <1>4, <1>5 DEF Bit

\* The thread's state once the completion is taken: Taken is about one of the accept.
TakenIn(x, g, e) == IF e.op = "accept" THEN Taken(x, g, e) ELSE x

LEMMA TakenAccounts ==
  ASSUME AcceptInv, NEW g \in Rings, cq[g] # << >>,
         cq' = [cq EXCEPT ![g] = Tail(@)], NEW e, e = Head(cq[g]),
         NEW x \in Working, x.t = th, x.q = sq, NEW z, z = TakenIn(x, g, e)
  PROVE  /\ z \in Working
         /\ \A h \in Rings :
              /\ Owes(z, h) = Bit(ringArmed[h]) + Count(cq'[h], Ends)
              /\ used[h] = z.t.connectionsOpen[h] + Count(cq'[h], Brought)
                             + Count(z.q[h], {"close"})
              /\ z.t.connectionsOpen[h] >= th.connectionsOpen[h]
  <1>0. AcceptTypes /\ ringCount \in RingCounts
    BY DEF AcceptInv, AcceptTypes
  <1>2. e \in Completions
    BY <1>0, HeadIs
  <1>3. /\ e.op = "accept" => (e \in Ends <=> ~e.more) /\ (e \in Brought <=> e.res = "slot")
        /\ e.op # "accept" => e \notin Ends /\ e \notin Brought
    BY <1>0, HeadIs
  <1>4. /\ z \in Working /\ z.q = sq
        /\ z.t.acceptArmed = IF e \in Ends THEN [th.acceptArmed EXCEPT ![g] = FALSE]
                             ELSE th.acceptArmed
        /\ z.t.connectionsOpen = IF e \in Brought THEN [th.connectionsOpen EXCEPT ![g] = @ + 1]
                                 ELSE th.connectionsOpen
    <2>1. CASE e.op = "accept"
      <3>1. z = Taken(x, g, e)
        BY <2>1 DEF TakenIn
      <3>2. /\ z \in Working /\ z.q = x.q
            /\ z.t.acceptArmed = IF e.more THEN x.t.acceptArmed
                                 ELSE [x.t.acceptArmed EXCEPT ![g] = FALSE]
            /\ z.t.connectionsOpen = IF e.res = "slot" THEN [x.t.connectionsOpen EXCEPT ![g] = @ + 1]
                                     ELSE x.t.connectionsOpen
        <4> DEFINE y == Taken(x, g, e)
        <4>1. /\ y \in Working /\ y.q = x.q
              /\ y.t.acceptArmed = IF e.more THEN x.t.acceptArmed
                                   ELSE [x.t.acceptArmed EXCEPT ![g] = FALSE]
              /\ y.t.connectionsOpen = IF e.res = "slot" THEN [x.t.connectionsOpen EXCEPT ![g] = @ + 1]
                                       ELSE x.t.connectionsOpen
          BY <2>1, <1>0, <1>2, TakenIs
        <4> HIDE DEF y
        <4> QED
          BY <4>1, <3>1 DEF y
      <3> QED
        BY <3>2, <2>1, <1>3
    <2>2. CASE e.op # "accept"
      BY <2>2, <1>3 DEF TakenIn
    <2> QED
      BY <2>1, <2>2
  <1>5. ASSUME NEW h \in Rings
        PROVE  Owes(z, h) = Bit(ringArmed[h]) + Count(cq'[h], Ends)
    <2>1. /\ Bit(th.acceptArmed[h]) = Count(sq[h], {"accept"}) + Bit(ringArmed[h]) + Count(cq[h], Ends)
          /\ Count(cq[h], Ends) = Count(cq'[h], Ends) + Read(h, g, e, Ends)
          /\ Count(sq[h], {"accept"}) \in Nat /\ Count(cq'[h], Ends) \in Nat
      BY <1>0, ReadCounts DEF AcceptInv, Marked
    <2>2. Bit(z.t.acceptArmed[h]) = Bit(th.acceptArmed[h]) - Read(h, g, e, Ends)
      <3>1. CASE h = g /\ e \in Ends
        <4>1. Read(h, g, e, Ends) = 1
          BY <3>1 DEF Read
        <4>2. Bit(th.acceptArmed[h]) = 1
          BY <4>1, <2>1, <3>1, EndsAMark
        <4>3. Bit(z.t.acceptArmed[h]) = 0
          BY <3>1, <1>0, <1>4 DEF Bit, AcceptTypes, Threads
        <4> QED
          BY <4>1, <4>2, <4>3
      <3>2. CASE ~(h = g /\ e \in Ends)
        <4>1. z.t.acceptArmed[h] = th.acceptArmed[h]
          BY <3>2, <1>0, <1>4 DEF AcceptTypes, Threads
        <4> QED
          BY <3>2, <4>1 DEF Bit, Read
      <3> QED
        BY <3>1, <3>2
    <2>3. Bit(th.acceptArmed[h]) \in Nat /\ Bit(ringArmed[h]) \in Nat
          /\ Read(h, g, e, Ends) \in Nat
      BY DEF Bit, Read
    <2> QED
      BY <2>1, <2>2, <2>3, <1>4 DEF Owes
  <1>6. ASSUME NEW h \in Rings
        PROVE  /\ used[h] = z.t.connectionsOpen[h] + Count(cq'[h], Brought) + Count(z.q[h], {"close"})
               /\ z.t.connectionsOpen[h] >= th.connectionsOpen[h]
    <2>1. /\ used[h] = th.connectionsOpen[h] + Count(cq[h], Brought) + Count(sq[h], {"close"})
          /\ Count(cq[h], Brought) = Count(cq'[h], Brought) + Read(h, g, e, Brought)
          /\ Count(sq[h], {"close"}) \in Nat /\ Count(cq'[h], Brought) \in Nat
          /\ th.connectionsOpen[h] \in Nat
      <3>1. th.connectionsOpen[h] \in Nat
        BY <1>0 DEF AcceptTypes, Threads
      <3> QED
        BY <3>1, <1>0, ReadCounts DEF AcceptInv, GivenOut
    <2>2. z.t.connectionsOpen[h] = th.connectionsOpen[h] + Read(h, g, e, Brought)
      <3>1. th.connectionsOpen \in [Rings -> Nat]
        BY <1>0 DEF AcceptTypes, Threads
      <3> QED
        BY <3>1, <1>4 DEF Read
    <2>3. Read(h, g, e, Brought) \in Nat
      BY DEF Read
    <2> QED
      BY <2>1, <2>2, <2>3, <1>4
  <1> QED
    BY <1>4, <1>5, <1>6

\* What the thread does once it has read a completion.
LEMMA ReadDoes ==
  ASSUME AcceptInv, NEW g \in Rings, NEW e \in Completions,
         NEW x \in Working, x.t = th, x.q = sq, NEW w,
         w = IF e.op = "accept" THEN Accept!HandleAcceptCompletion(x, g, e)
                                ELSE Accept!HandleCloseCompletion(x, g)
  PROVE  /\ Keeps(TakenIn(x, g, e), w)
         /\ OneRing /\ ringCount = 1 /\ (e.op = "accept" => e.res # "ECANCELED")
              /\ (e.op = "accept" => e.more \/ th.acceptArmed[0]) =>
              /\ w.t.acceptStalled <=> ~w.t.acceptArmed[0]
              /\ w.t.acceptStalled =>
                   (e.op = "accept" /\ th.acceptStalled) \/ w.t.connectionsOpen[0] >= connectionSlots
              /\ Count(w.q[0], {"cancel"}) = Count(sq[0], {"cancel"})
  <1>0. ringCount \in RingCounts
    BY DEF AcceptInv, AcceptTypes
  <1>1. CASE e.op = "accept"
    <2>1. w = Accept!HandleAcceptCompletion(x, g, e) /\ TakenIn(x, g, e) = Taken(x, g, e)
      BY <1>1 DEF TakenIn
    <2>2. Keeps(Taken(x, g, e), w)
      BY <2>1, <1>0, <1>1, AcceptHandled
    <2>3. OneRing /\ ringCount = 1 /\ e.res # "ECANCELED" /\ (e.more \/ th.acceptArmed[0]) =>
            /\ w.t.acceptStalled <=> ~w.t.acceptArmed[0]
            /\ w.t.acceptStalled => th.acceptStalled \/ w.t.connectionsOpen[0] >= connectionSlots
            /\ Count(w.q[0], {"cancel"}) = Count(sq[0], {"cancel"})
      BY <2>1, <1>0, <1>1, AcceptHandled DEF OneRing
    <2> QED
      BY <2>1, <2>2, <2>3, <1>1
  <1>2. CASE e.op # "accept"
    <2>1. w = (IF th.acceptStalled THEN Accept!ArmAcceptSomewhere(x, g) ELSE x)
          /\ TakenIn(x, g, e) = x
      BY <1>2 DEF TakenIn, Accept!HandleCloseCompletion
    <2>2. CASE th.acceptStalled
      <3>1. w = Accept!ArmAcceptSomewhere(x, g) /\ g \in Nat
        BY <2>1, <2>2, <1>0, NextRing
      <3>2. /\ Keeps(x, w)
            /\ ringCount = 1 /\ ~x.t.acceptArmed[0] =>
                 /\ w.t.acceptStalled <=> ~w.t.acceptArmed[0]
                 /\ w.t.acceptStalled => x.t.connectionsOpen[0] >= connectionSlots
                 /\ Count(w.q[0], {"cancel"}) = Count(x.q[0], {"cancel"})
        BY <3>1, <1>0, ArmSomewhereDoes
      <3>3. w.t.connectionsOpen = x.t.connectionsOpen
        BY <3>2 DEF Keeps
      <3> QED
        BY <3>2, <3>3, <2>1, <2>2, <1>2 DEF OneRing
    <2>3. CASE ~th.acceptStalled
      BY <2>1, <2>3, <1>2 DEF OneRing, Keeps
    <2> QED
      BY <2>2, <2>3
  <1> QED
    BY <1>1, <1>2

LEMMA DrainKeeps ==
  ASSUME AcceptInv, NEW g \in Rings, Accept!DrainRing(g)
  PROVE  AcceptInv'
  <1>0. AcceptTypes /\ ringCount \in RingCounts
    BY DEF AcceptInv, AcceptTypes
  <1>1. /\ cq[g] # << >> /\ cq' = [cq EXCEPT ![g] = Tail(@)]
        /\ ringCount' = ringCount /\ ringArmed' = ringArmed /\ used' = used
    BY DEF Accept!DrainRing
  <1>2. Rings' = Rings /\ Working' = Working /\ Threads' = Threads
    BY <1>1 DEF Rings, Accept!Rings, Working, Threads
  <1> SUFFICES ASSUME NEW e, e = Head(cq[g]), NEW x, x = [t |-> th, q |-> sq],
                      NEW w, w = (IF e.op = "accept" THEN Accept!HandleAcceptCompletion(x, g, e)
                                  ELSE Accept!HandleCloseCompletion(x, g)),
                      th' = w.t, sq' = w.q
               PROVE  AcceptInv'
    BY Zenon DEF Accept!DrainRing
  <1>3. x \in Working /\ x.t = th /\ x.q = sq
    BY <1>0 DEF AcceptTypes, Working
  <1>4. e \in Completions /\ Tail(cq[g]) \in Seq(Completions)
    BY <1>0, <1>1, HeadIs
  <1> DEFINE z == TakenIn(x, g, e)
  <1>5. /\ z \in Working
        /\ \A h \in Rings :
             /\ Owes(z, h) = Bit(ringArmed[h]) + Count(cq'[h], Ends)
             /\ used[h] = z.t.connectionsOpen[h] + Count(cq'[h], Brought)
                            + Count(z.q[h], {"close"})
             /\ z.t.connectionsOpen[h] >= th.connectionsOpen[h]
    BY <1>1, <1>3, TakenAccounts
  <1>6. Keeps(z, w)
    BY <1>3, <1>4, ReadDoes
  <1> HIDE DEF z
  <1>7. /\ w \in Working /\ w.t.connectionsOpen = z.t.connectionsOpen
        /\ \A h \in Rings : /\ Owes(w, h) = Owes(z, h)
                            /\ Count(w.q[h], {"close"}) = Count(z.q[h], {"close"})
    BY <1>6 DEF Keeps
  <1>8. AcceptTypes'
    <2>1. th' \in Threads /\ sq' \in [Rings -> Seq(Submissions)]
      BY <1>7, WorkingIs
    <2>2. cq' \in [Rings -> Seq(Completions)]
      BY <1>0, <1>1, <1>4 DEF AcceptTypes
    <2> QED
      BY <2>1, <2>2, <1>0, <1>1, SameTypes DEF AcceptTypes
  <1>9. ASSUME NEW h \in Rings PROVE Marked(h)' /\ GivenOut(h)'
    <2>1. Bit(th'.acceptArmed[h]) - Count(sq'[h], {"accept"}) = Bit(ringArmed[h]) + Count(cq'[h], Ends)
      BY <1>5, <1>7 DEF Owes
    <2>2. /\ Count(sq'[h], {"accept"}) \in Nat /\ Count(cq'[h], Ends) \in Nat
      <3>1. sq'[h] \in Seq(Submissions) /\ cq'[h] \in Seq(Completions)
        BY <1>2, <1>8 DEF AcceptTypes
      <3> QED
        BY <3>1, CountIsNat
    <2>3. Bit(ringArmed[h]) \in Nat /\ Bit(th'.acceptArmed[h]) \in Nat
      BY DEF Bit
    <2>4. Marked(h)'
      <3>1. Bit(th'.acceptArmed[h])
              = Count(sq'[h], {"accept"}) + Bit(ringArmed[h]) + Count(cq'[h], Ends)
        BY <2>1, <2>2, <2>3
      <3> QED
        BY <3>1, <1>1 DEF Marked
    <2>5. GivenOut(h)'
      BY <1>1, <1>5, <1>7 DEF GivenOut
    <2> QED
      BY <2>4, <2>5
  <1>10. ASSUME ringCount = 1 PROVE OneRing'
    <2>1. g = 0 /\ 0 \in Rings /\ OneRing
      BY <1>0, <1>10, RingsAre DEF AcceptInv
    <2>2. /\ e.op = "accept" => /\ e \in Ends <=> ~e.more
                                /\ e \in Cancels <=> e.res = "ECANCELED"
                                /\ e \notin Closed
      BY <1>0, <1>1, HeadIs
    <2>3. /\ Count(cq[0], Cancels) = Count(cq'[0], Cancels) + Read(0, g, Head(cq[g]), Cancels)
          /\ Count(cq[0], Ends) = Count(cq'[0], Ends) + Read(0, g, Head(cq[g]), Ends)
          /\ Count(cq[0], Closed) = Count(cq'[0], Closed) + Read(0, g, Head(cq[g]), Closed)
          /\ Count(cq'[0], Cancels) \in Nat /\ Count(cq'[0], Ends) \in Nat
          /\ Count(cq'[0], Closed) \in Nat
      BY <2>1, <1>0, <1>1, ReadCounts
    <2>4. Count(cq'[0], Cancels) = 0 /\ e \notin Cancels
      BY <2>1, <2>3 DEF OneRing, Read
    <2>5. e \in Ends => th.acceptArmed[0]
      BY <2>1, <2>3, EndsAMark DEF Read
    <2>6. /\ w.t.acceptStalled <=> ~w.t.acceptArmed[0]
          /\ w.t.acceptStalled =>
               (e.op = "accept" /\ th.acceptStalled) \/ w.t.connectionsOpen[0] >= connectionSlots
          /\ Count(w.q[0], {"cancel"}) = Count(sq[0], {"cancel"})
      <3>1. (e.op = "accept" => e.res # "ECANCELED") /\ (e.op = "accept" => e.more \/ th.acceptArmed[0])
        BY <2>2, <2>4, <2>5
      <3> QED
        BY <3>1, <2>1, <1>3, <1>4, <1>10, ReadDoes
    <2>7. th'.connectionsOpen[0] >= connectionSlots => th'.connectionsOpen[0] = connectionSlots
      <3>1. th'.connectionsOpen[0] \in Nat /\ used[0] \in 0 .. connectionSlots /\ connectionSlots \in Nat
        BY <2>1, <1>0, <1>7, WorkingIs, RingsAssumption DEF AcceptTypes
      <3>2. Count(cq'[0], Brought) \in Nat /\ Count(sq'[0], {"close"}) \in Nat
        <4>1. sq'[0] \in Seq(Submissions) /\ cq'[0] \in Seq(Completions)
          BY <2>1, <1>2, <1>8 DEF AcceptTypes
        <4> QED
          BY <4>1, CountIsNat
      <3>3. used[0] = th'.connectionsOpen[0] + Count(cq'[0], Brought) + Count(sq'[0], {"close"})
        BY <2>1, <1>5, <1>7
      <3> QED
        BY <3>1, <3>2, <3>3
    <2>8. ASSUME e.op = "accept", th.acceptStalled
          PROVE  \/ th'.connectionsOpen[0] = connectionSlots
                 \/ Count(sq'[0], {"close"}) + Count(cq'[0], Closed) > 0
      <3>1. CASE th.connectionsOpen[0] = connectionSlots
        BY <3>1, <2>1, <2>7, <1>5, <1>7
      <3>2. CASE Count(sq[0], {"close"}) + Count(cq[0], Closed) > 0
        <4>1. Count(cq'[0], Closed) = Count(cq[0], Closed)
          BY <2>2, <2>3, <2>8 DEF Read
        <4>2. z.q = sq
          <5>1. z = Taken(x, g, e)
            BY <2>8 DEF z, TakenIn
          <5> QED
            BY <5>1, <2>8, <1>0, <1>3, <1>4, TakenIs
        <4> QED
          BY <3>2, <4>1, <4>2, <2>1, <1>7
      <3> QED
        BY <3>1, <3>2, <2>1, <2>8 DEF OneRing
    <2> QED
      BY <2>1, <2>4, <2>6, <2>7, <2>8 DEF OneRing
  <1> QED
    BY <1>1, <1>2, <1>8, <1>9, <1>10 DEF AcceptInv

LEMMA InitAccept ==
  ASSUME Accept!Init
  PROVE  AcceptInv
  <1>0. ringCount \in RingCounts
    BY DEF Accept!Init
  <1> DEFINE t == [ acceptRing |-> 0, acceptStalled |-> FALSE,
                    acceptArmed |-> [k \in Rings |-> FALSE],
                    connectionsOpen |-> [k \in Rings |-> 0] ]
             q == [k \in Rings |-> << >>]
             x == [t |-> t, q |-> q]
             y == Accept!ArmAcceptSomewhere(x, 0)
  <1>1. /\ th = y.t /\ sq = y.q
        /\ cq = [k \in Rings |-> << >>]
        /\ ringArmed = [k \in Rings |-> FALSE]
        /\ used = [k \in Rings |-> 0]
    BY DEF Accept!Init, Rings
  <1>2. x \in Working
    <2>1. 0 \in Rings
      BY <1>0, RingsAre
    <2> QED
      BY <2>1 DEF Working, Threads
  <1>3. /\ x.q = q /\ x.t.connectionsOpen = [k \in Rings |-> 0]
        /\ x.t.acceptArmed = [k \in Rings |-> FALSE] /\ 0 \in Nat
    OBVIOUS
  <1>4. ASSUME NEW g \in Rings
        PROVE  /\ Owes(x, g) = 0 /\ Count(x.q[g], {"close"}) = 0
               /\ Count(x.q[g], {"cancel"}) = 0
    BY <1>3, NoneInEmpty DEF Owes, Bit
  <1> HIDE DEF x
  <1>5. /\ Keeps(x, y)
        /\ ringCount = 1 /\ ~x.t.acceptArmed[0] =>
             /\ y.t.acceptStalled <=> ~y.t.acceptArmed[0]
             /\ y.t.acceptStalled => x.t.connectionsOpen[0] >= connectionSlots
             /\ Count(y.q[0], {"cancel"}) = Count(x.q[0], {"cancel"})
    BY <1>0, <1>2, <1>3, ArmSomewhereDoes
  <1> HIDE DEF y
  <1>6. /\ y \in Working /\ y.t.connectionsOpen = [k \in Rings |-> 0]
        /\ \A g \in Rings : Owes(y, g) = 0 /\ Count(y.q[g], {"close"}) = 0
    BY <1>3, <1>4, <1>5 DEF Keeps
  <1>7. connectionSlots \in Nat
    BY RingsAssumption
  <1>8. AcceptTypes
    <2>1. th \in Threads /\ sq \in [Rings -> Seq(Submissions)]
      BY <1>1, <1>6, WorkingIs
    <2>2. cq \in [Rings -> Seq(Completions)] /\ ringArmed \in [Rings -> BOOLEAN]
      BY <1>1
    <2>3. used \in [Rings -> 0 .. connectionSlots]
      BY <1>1, <1>7
    <2> QED
      BY <1>0, <2>1, <2>2, <2>3 DEF AcceptTypes
  <1>9. ASSUME NEW g \in Rings PROVE Marked(g) /\ GivenOut(g)
    <2>1. \A Q : Count(cq[g], Q) = 0
      BY <1>1, NoneInEmpty
    <2>2. Bit(th.acceptArmed[g]) - Count(sq[g], {"accept"}) = 0
      BY <1>1, <1>6 DEF Owes
    <2>3. Count(sq[g], {"accept"}) \in Nat /\ Bit(th.acceptArmed[g]) \in Nat
          /\ Bit(ringArmed[g]) = 0
      BY <1>1, <1>8, QueuesCount DEF Bit
    <2>4. Marked(g)
      BY <2>1, <2>2, <2>3 DEF Marked
    <2>5. GivenOut(g)
      BY <2>1, <1>1, <1>6 DEF GivenOut
    <2> QED
      BY <2>4, <2>5
  <1>10. ASSUME ringCount = 1 PROVE OneRing
    <2>1. 0 \in Rings /\ ~x.t.acceptArmed[0] /\ x.t.connectionsOpen[0] = 0
      BY <1>0, <1>3, RingsAre
    <2>2. Count(cq[0], Cancels) = 0 /\ Count(sq[0], {"cancel"}) = 0
      BY <2>1, <1>1, <1>4, <1>5, <1>10, NoneInEmpty
    <2>3. th.acceptStalled => th.connectionsOpen[0] = connectionSlots
      BY <2>1, <1>1, <1>5, <1>6, <1>7, <1>10
    <2> QED
      BY <2>1, <2>2, <2>3, <1>1, <1>5, <1>10 DEF OneRing
  <1> QED
    BY <1>8, <1>9, <1>10 DEF AcceptInv

LEMMA AcceptStep ==
  ASSUME AcceptInv, Accept!Next \/ UNCHANGED acceptVars
  PROVE  AcceptInv'
  <1>1. CASE Accept!Next
    <2>1. PICK g \in Rings :
            \/ Accept!DrainRing(g) \/ Accept!CloseConnection(g)
            \/ Accept!KernelArms(g) \/ Accept!KernelCancels(g)
            \/ Accept!KernelCloses(g) \/ Accept!KernelAccepts(g)
      BY <1>1 DEF Accept!Next, Rings
    <2> QED
      BY <2>1, DrainKeeps, CloseKeepsAccept, KernelArmsKeeps, KernelCancelsKeeps,
         KernelClosesKeeps, KernelAcceptsKeeps
  <1>2. CASE UNCHANGED acceptVars
    BY <1>2 DEF acceptVars, AcceptInv, AcceptTypes, Marked, GivenOut, OneRing, Threads,
       Rings, Accept!Rings
  <1> QED
    BY <1>1, <1>2

\* A count is positive when there is something to count.
LEMMA AcceptIsTrue ==
  ASSUME AcceptInv
  PROVE  OneRingAccepts
  <1>0. AcceptTypes /\ ringCount \in RingCounts
    BY DEF AcceptInv, AcceptTypes
  <1>1. ASSUME NEW g \in Rings
        PROVE  /\ Count(sq[g], {"accept"}) \in Nat /\ Count(cq[g], Ends) \in Nat
               /\ Count(sq[g], {"close"}) \in Nat /\ Count(cq[g], Closed) \in Nat
               /\ Count(sq[g], {"accept"}) > 0 <=> "accept" \in Accept!ToSet(sq[g])
               /\ Count(sq[g], {"close"}) > 0 => "close" \in Accept!ToSet(sq[g])
               /\ Count(cq[g], Ends) > 0 <=> \E i \in DOMAIN cq[g] : cq[g][i].op = "accept" /\ ~cq[g][i].more
               /\ Count(cq[g], Closed) > 0 => \E i \in DOMAIN cq[g] : cq[g][i].op = "close"
    <2>1. sq[g] \in Seq(Submissions) /\ cq[g] \in Seq(Completions)
      BY <1>0, QueuesCount
    <2>2. \A Q : /\ Count(sq[g], Q) \in Nat /\ Count(cq[g], Q) \in Nat
                 /\ Count(sq[g], Q) > 0 <=> \E i \in DOMAIN sq[g] : sq[g][i] \in Q
                 /\ Count(cq[g], Q) > 0 <=> \E i \in DOMAIN cq[g] : cq[g][i] \in Q
      BY <2>1, CountIsNat
    <2>3. /\ Count(sq[g], {"accept"}) > 0 <=> "accept" \in Accept!ToSet(sq[g])
          /\ Count(sq[g], {"close"}) > 0 => "close" \in Accept!ToSet(sq[g])
      BY <2>2 DEF Accept!ToSet
    <2>4. \A i \in DOMAIN cq[g] : cq[g][i] \in Completions
      BY <2>1
    <2>5. /\ Count(cq[g], Ends) > 0 <=> \E i \in DOMAIN cq[g] : cq[g][i].op = "accept" /\ ~cq[g][i].more
          /\ Count(cq[g], Closed) > 0 => \E i \in DOMAIN cq[g] : cq[g][i].op = "close"
      BY <2>2, <2>4 DEF Ends, Closed
    <2> QED
      BY <2>2, <2>3, <2>5
  <1>2. Accept!ArmedIsArmed
    <2> SUFFICES ASSUME NEW g \in Rings
                 PROVE  th.acceptArmed[g] <=>
                          \/ ringArmed[g]
                          \/ "accept" \in Accept!ToSet(sq[g])
                          \/ \E i \in DOMAIN cq[g] : cq[g][i].op = "accept" /\ ~cq[g][i].more
      BY DEF Accept!ArmedIsArmed, Accept!Pending, Rings
    <2>1. /\ Bit(th.acceptArmed[g]) = Count(sq[g], {"accept"}) + Bit(ringArmed[g]) + Count(cq[g], Ends)
          /\ Count(sq[g], {"accept"}) \in Nat /\ Count(cq[g], Ends) \in Nat
      BY <1>1 DEF AcceptInv, Marked
    <2>2. /\ th.acceptArmed[g] \in BOOLEAN /\ ringArmed[g] \in BOOLEAN
      BY <1>0 DEF AcceptTypes, Threads
    <2>3. th.acceptArmed[g] <=>
            ringArmed[g] \/ Count(sq[g], {"accept"}) > 0 \/ Count(cq[g], Ends) > 0
      <3>1. CASE th.acceptArmed[g] /\ ringArmed[g]
        BY <3>1
      <3>2. CASE th.acceptArmed[g] /\ ~ringArmed[g]
        <4>1. Bit(th.acceptArmed[g]) = 1 /\ Bit(ringArmed[g]) = 0
          BY <3>2 DEF Bit
        <4>2. Count(sq[g], {"accept"}) > 0 \/ Count(cq[g], Ends) > 0
          BY <4>1, <2>1
        <4> QED
          BY <3>2, <4>2
      <3>3. CASE ~th.acceptArmed[g]
        <4>1. /\ Bit(th.acceptArmed[g]) = 0
              /\ Bit(ringArmed[g]) = IF ringArmed[g] THEN 1 ELSE 0
          BY <3>3 DEF Bit
        <4>2. Bit(ringArmed[g]) = 0 /\ ~(Count(sq[g], {"accept"}) > 0) /\ ~(Count(cq[g], Ends) > 0)
          BY <4>1, <2>1
        <4> QED
          BY <3>3, <4>1, <4>2
      <3> QED
        BY <2>2, <3>1, <3>2, <3>3
    <2> QED
      BY <2>3, <1>1
  <1>3. ASSUME ringCount = 1 PROVE Accept!NeverDeaf /\ Accept!StalledMeansFull
    <2>1. Rings = {0} /\ OneRing
      BY <1>0, <1>3, RingsAre DEF AcceptInv
    <2>2. Accept!NeverDeaf
      BY <2>1 DEF OneRing, Accept!NeverDeaf, Rings
    <2>3. ASSUME th.acceptStalled
          PROVE  \/ \A k \in Rings : th.connectionsOpen[k] = connectionSlots
                 \/ \E k \in Rings : \/ "close" \in Accept!ToSet(sq[k])
                                     \/ \E i \in DOMAIN cq[k] : cq[k][i].op = "close"
      <3>1. CASE th.connectionsOpen[0] = connectionSlots
        BY <3>1, <2>1
      <3>2. CASE Count(sq[0], {"close"}) + Count(cq[0], Closed) > 0
        <4>1. Count(sq[0], {"close"}) > 0 \/ Count(cq[0], Closed) > 0
          BY <3>2, <2>1, <1>1
        <4> QED
          BY <4>1, <2>1, <1>1
      <3> QED
        BY <3>1, <3>2, <2>1, <2>3 DEF OneRing
    <2> QED
      BY <2>2, <2>3 DEF Accept!StalledMeansFull, Accept!Pending, Rings
  <1> QED
    BY <1>2, <1>3 DEF OneRingAccepts, Accept!OneRingAccepts

LEMMA AcceptIsRight == MCSpec => []AcceptInv
  <1>1. MCInit => AcceptInv
    BY InitAccept DEF MCInit, NoAccept
  <1>2. AcceptInv /\ [MCNext]_<< view, vars, apiVars, fileVars, acceptVars >> => AcceptInv'
    BY RunOfFour, AcceptStep
  <1> QED
    BY <1>1, <1>2, PTL DEF MCSpec

\* OneRingAccepts: for any number of rings and slots and any reserve, acceptArmed of a ring
\* is true to the kernel (an accept is submitted, armed, or its last completion is not
\* read yet), and a server with one ring has its accept armed or, only while every slot is
\* taken or a close that will arm it is on its way, stalled (ArmAcceptSomewhere,
\* HandleAcceptCompletion, HandleCloseCompletion).
THEOREM OneRingGoesOnAccepting == MCSpec => []OneRingAccepts
  BY AcceptIsRight, AcceptIsTrue, PTL
=============================================================================
