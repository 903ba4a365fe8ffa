-------------------------- MODULE SessionList_proofs --------------------------
(***************************************************************************)
(* The size of the session table and the session-fixation defence of the   *)
(* login, for any number of threads, tokens and sessions.                  *)
(***************************************************************************)
EXTENDS SessionList, FiniteSetTheorems, TLAPS

\* What evictOldestSessionIfAtCapacity leaves is a smaller table with room.
LEMMA EvictionMakesRoom ==
  ASSUME NEW table \in SUBSET Tokens, Cardinality(table) <= MAX_SESSIONS,
         NEW room \in EvictOldest(table)
  PROVE  /\ room \subseteq table
         /\ IsFiniteSet(room)
         /\ Cardinality(room) < MAX_SESSIONS
<1>1. IsFiniteSet(table) /\ Cardinality(table) \in Nat
  BY SessionAssumption, FS_Subset, FS_CardinalityType DEF SessionAssumption
<1>2. CASE Cardinality(table) < MAX_SESSIONS
  BY <1>1, <1>2 DEF EvictOldest
<1>3. CASE ~(Cardinality(table) < MAX_SESSIONS)
  <2>1. PICK s \in table : room = table \ {s}
    BY <1>3 DEF EvictOldest
  <2>2. IsFiniteSet(room) /\ Cardinality(room) = Cardinality(table) - 1
    BY <1>1, <2>1, FS_RemoveElement
  <2> QED
    BY <1>1, <2>1, <2>2, SessionAssumption DEF SessionAssumption
<1> QED
  BY <1>2, <1>3

Bounded == sessionTable \subseteq Tokens /\ SessionsBounded

\* A smaller table is within the bound.
LEMMA SmallerBounded ==
  ASSUME Bounded, sessionTable' \subseteq sessionTable
  PROVE  Bounded'
<1>1. IsFiniteSet(sessionTable) /\ Cardinality(sessionTable) \in Nat
  BY SessionAssumption, FS_Subset, FS_CardinalityType DEF SessionAssumption, Bounded
<1>2. Cardinality(sessionTable') <= Cardinality(sessionTable)
  BY <1>1, FS_Subset
<1>3. Cardinality(sessionTable') \in Nat
  BY <1>1, FS_Subset, FS_CardinalityType
<1> QED
  BY <1>1, <1>2, <1>3, SessionAssumption DEF Bounded, SessionsBounded, SessionAssumption

\* A session made in an evicted table fits.
LEMMA CreationBounded ==
  ASSUME NEW table \in SUBSET Tokens, Cardinality(table) <= MAX_SESSIONS,
         NEW t \in Threads, CreateSession(t, table)
  PROVE  Bounded'
<1>1. PICK room \in EvictOldest(table) :
         sessionTable' = room \/ \E s \in Tokens : sessionTable' = room \cup {s}
  BY DEF CreateSession
<1>2. room \subseteq table /\ IsFiniteSet(room) /\ Cardinality(room) < MAX_SESSIONS
  BY EvictionMakesRoom
<1>3. Cardinality(room) \in Nat
  BY <1>2, FS_CardinalityType
<1>4. CASE sessionTable' = room
  BY <1>2, <1>3, <1>4, SessionAssumption DEF Bounded, SessionsBounded, SessionAssumption
<1>5. ASSUME NEW s \in Tokens, sessionTable' = room \cup {s} PROVE Bounded'
  <2> DEFINE larger == room \cup {s}
  <2>1. Cardinality(larger) = Cardinality(room) \/ Cardinality(larger) = Cardinality(room) + 1
    BY <1>2, FS_AddElement
  <2>2. sessionTable' = larger
    BY <1>5
  <2> HIDE DEF larger
  <2>3. Cardinality(sessionTable') <= MAX_SESSIONS
    BY <1>2, <1>3, <2>1, <2>2, SessionAssumption DEF SessionAssumption
  <2> QED
    BY <1>2, <1>5, <2>3 DEF Bounded, SessionsBounded
<1> QED
  BY <1>1, <1>4, <1>5

LEMMA BoundedStep == Bounded /\ [Next]_vars => Bounded'
<1> SUFFICES ASSUME Bounded, [Next]_vars PROVE Bounded'
  OBVIOUS
<1>1. CASE UNCHANGED vars
  BY <1>1, SmallerBounded DEF vars, store
<1>2. CASE Tick
  BY <1>2, SmallerBounded DEF Tick, store
<1>3. ASSUME NEW t \in Threads, Serve(t) PROVE Bounded'
  <2>1. ASSUME NEW cookie \in drawn \cup {NoToken}, Resolve(t, cookie) PROVE Bounded'
    <3>1. CASE Found(cookie)
      BY <2>1, <3>1, SmallerBounded DEF Resolve
    <3>2. CASE ~Found(cookie)
      <4> DEFINE table == IF cookie = NoToken THEN sessionTable ELSE Swept(cookie)
      <4>1. table \subseteq sessionTable
        BY DEF Swept
      <4>2. table \in SUBSET Tokens /\ Cardinality(table) <= MAX_SESSIONS
        <5>1. IsFiniteSet(sessionTable) /\ Cardinality(sessionTable) \in Nat
          BY SessionAssumption, FS_Subset, FS_CardinalityType DEF SessionAssumption, Bounded
        <5>2. Cardinality(table) <= Cardinality(sessionTable) /\ IsFiniteSet(table)
          BY <4>1, <5>1, FS_Subset
        <5>3. Cardinality(table) \in Nat
          BY <5>2, FS_CardinalityType
        <5> QED
          BY <4>1, <5>1, <5>2, <5>3, SessionAssumption
          DEF Bounded, SessionsBounded, SessionAssumption
      <4>3. CreateSession(t, table)
        BY <2>1, <3>2 DEF Resolve
      <4> QED
        BY <4>2, <4>3, CreationBounded
    <3> QED
      BY <3>1, <3>2
  <2>2. CASE \E op \in AppOps : Call(t, op)
    BY <2>2, SmallerBounded DEF Call, store
  <2>3. CASE LookFinds(t)
    BY <2>3, SmallerBounded DEF LookFinds, store
  <2>4. CASE LookFails(t)
    BY <2>4, SmallerBounded DEF LookFails, Swept
  <2>5. CASE Access(t)
    BY <2>5, SmallerBounded DEF Access
  <2>6. CASE Login(t)
    BY <2>6, SmallerBounded DEF Login
  <2>7. CASE LoginCreates(t)
    BY <2>7, CreationBounded DEF LoginCreates, Bounded, SessionsBounded
  <2>8. CASE Logout(t)
    BY <2>8, SmallerBounded DEF Logout
  <2>9. CASE Return(t)
    BY <2>9, SmallerBounded DEF Return, store
  <2> QED
    BY <1>3, <2>1, <2>2, <2>3, <2>4, <2>5, <2>6, <2>7, <2>8, <2>9 DEF Serve
<1> QED
  BY <1>1, <1>2, <1>3 DEF Next

\* The store never outgrows MAX_SESSIONS, over every order of requests, logins,
\* logouts, expiries and failed allocations.
THEOREM SessionStoreBounded == Spec => []SessionsBounded
<1>1. Init => Bounded
  BY FS_EmptySet, SessionAssumption DEF Init, Bounded, SessionsBounded, SessionAssumption
<1>2. Bounded => SessionsBounded
  BY DEF Bounded
<1> QED
  BY <1>1, <1>2, BoundedStep, PTL DEF Spec

-----------------------------------------------------------------------------
SetUsername == [kind |-> "set", name |-> "username"]
SetUid      == [kind |-> "set", name |-> "uid"]
LoginOps    == << SetUsername, SetUid >>
SmallOps    == {op \in Ops : op.name # "username"}

\* The accesses a call still has to make: none, one that is not about the user,
\* or the two of a login.
Accesses == {<< >>, LoginOps} \cup {<< op >> : op \in SmallOps}

\* The locals of the threads: a call is in progress exactly while there is
\* something to look up, and tokens are ones that were drawn.
Locals ==
  /\ drawn \subseteq Tokens
  /\ anonymous \subseteq drawn
  /\ data \in [Tokens -> [Names -> Nat]]
  /\ pc \in [Threads -> {"idle", "callback", "look", "access", "login"}]
  /\ sessionToken \in [Threads -> drawn \cup {NoToken}]
  /\ todo \in [Threads -> Accesses]
  /\ \A t \in Threads : pc[t] \in {"look", "access"} <=> todo[t] # << >>

\* What LoginGetsFreshSession needs to be inductive: who is about to store a
\* user's name has a token that no anonymous client was ever given.
LoginOwnsToken ==
  \A t \in Threads : todo[t] = LoginOps => sessionToken[t] \in drawn \ anonymous

FreshInv == Locals /\ LoginOwnsToken /\ LoginGetsFreshSession

\* Only the first access of a login is about the user's name, and what is left
\* after an access is never the whole of a login.
LEMMA NextAccess ==
  ASSUME NEW a \in Accesses, a # << >>
  PROVE  /\ Tail(a) \in Accesses /\ Tail(a) # LoginOps
         /\ Head(a) \in Ops
         /\ Head(a).name = "username" => a = LoginOps
<1>1. CASE a = LoginOps
  <2>1. Tail(a) = << SetUid >> /\ Head(a) = SetUsername
    BY <1>1 DEF LoginOps
  <2>2. SetUid \in SmallOps /\ SetUsername \in Ops
    BY DEF SetUid, SetUsername, SmallOps, Ops, Names
  <2>3. << SetUid >> # LoginOps
    BY DEF LoginOps
  <2> QED
    BY <1>1, <2>1, <2>2, <2>3 DEF Accesses
<1>2. ASSUME NEW op \in SmallOps, a = << op >>
      PROVE  /\ Tail(a) = << >> /\ Head(a) = op
             /\ op \in Ops /\ op.name # "username"
  BY <1>2 DEF SmallOps
<1>3. << >> # LoginOps
  BY DEF LoginOps
<1> QED
  BY <1>1, <1>2, <1>3 DEF Accesses

\* GoOn leaves the threads' locals in step with each other.
LEMMA GoOnKeeps ==
  ASSUME Locals, NEW t \in Threads, NEW rest \in Accesses, GoOn(t, rest)
  PROVE  /\ pc' \in [Threads -> {"idle", "callback", "look", "access", "login"}]
         /\ todo' \in [Threads -> Accesses]
         /\ todo'[t] = rest
         /\ \A u \in Threads : u # t => todo'[u] = todo[u]
         /\ \A u \in Threads : pc'[u] \in {"look", "access"} <=> todo'[u] # << >>
  BY DEF GoOn, Locals

\* createSessionLocked draws a token that nobody has, or none.
LEMMA CreationDraws ==
  ASSUME FreshInv, NEW t \in Threads, NEW table, CreateSession(t, table)
  PROVE  \/ UNCHANGED << data, drawn, sessionToken >>
         \/ /\ drawn \subseteq drawn'
            /\ drawn' \subseteq Tokens
            /\ drawn' # drawn
            /\ data' \in [Tokens -> [Names -> Nat]]
            /\ \A q \in drawn : data'[q] = data[q]
            /\ \A q \in drawn' \ drawn : data'[q] = Empty
            /\ sessionToken' \in [Threads -> drawn' \cup {NoToken}]
            /\ sessionToken'[t] \in drawn' \ drawn
            /\ \A u \in Threads \ {t} : sessionToken'[u] = sessionToken[u]
<1> SUFFICES ASSUME NEW s \in Tokens \ drawn,
                    drawn' = drawn \cup {s},
                    data' = [data EXCEPT ![s] = Empty],
                    sessionToken' = [sessionToken EXCEPT ![t] = s]
             PROVE  /\ drawn \subseteq drawn'
                    /\ drawn' \subseteq Tokens
                    /\ drawn' # drawn
                    /\ data' \in [Tokens -> [Names -> Nat]]
                    /\ \A q \in drawn : data'[q] = data[q]
                    /\ \A q \in drawn' \ drawn : data'[q] = Empty
                    /\ sessionToken' \in [Threads -> drawn' \cup {NoToken}]
                    /\ sessionToken'[t] \in drawn' \ drawn
                    /\ \A u \in Threads \ {t} : sessionToken'[u] = sessionToken[u]
  BY DEF CreateSession
<1>0. /\ drawn \subseteq Tokens
      /\ data \in [Tokens -> [Names -> Nat]]
      /\ sessionToken \in [Threads -> drawn \cup {NoToken}]
  BY DEF FreshInv, Locals
<1>1. Empty \in [Names -> Nat]
  BY DEF Empty
<1>2. /\ data' \in [Tokens -> [Names -> Nat]]
      /\ \A q \in drawn : data'[q] = data[q]
      /\ \A q \in drawn' \ drawn : data'[q] = Empty
  BY <1>0, <1>1
<1>3. /\ sessionToken' \in [Threads -> drawn' \cup {NoToken}]
      /\ sessionToken'[t] \in drawn' \ drawn
      /\ \A u \in Threads \ {t} : sessionToken'[u] = sessionToken[u]
  BY <1>0
<1> QED
  BY <1>0, <1>2, <1>3

\* A step that draws no token, and stores no name in an anonymous session,
\* keeps the invariant if it keeps the locals in step.
LEMMA QuietStep ==
  ASSUME FreshInv, Locals', LoginOwnsToken',
         UNCHANGED anonymous,
         \A s \in anonymous : data'[s].username = data[s].username
  PROVE  FreshInv'
  BY DEF FreshInv, LoginGetsFreshSession

\* CSRF tokens are numbered from 1.
CsrfsCounted == csrfs \in Nat

\* Only the storing of a CSRF token counts one.
LEMMA CsrfStep == CsrfsCounted /\ [Next]_vars => CsrfsCounted'
<1> SUFFICES ASSUME csrfs \in Nat, [Next]_vars PROVE csrfs' \in Nat
  BY DEF CsrfsCounted
<1>1. csrfs + 1 \in Nat
  OBVIOUS
<1>2. CASE UNCHANGED vars
  BY <1>2 DEF vars, history
<1>3. CASE Tick
  BY <1>3 DEF Tick, history
<1>4. ASSUME NEW t \in Threads, Access(t) PROVE csrfs' \in Nat
  BY <1>1, <1>4 DEF Access
<1>5. ASSUME NEW t \in Threads, Serve(t), ~Access(t) PROVE csrfs' = csrfs
  BY <1>5 DEF Serve, Resolve, Call, LookFinds, LookFails, Login, LoginCreates,
              Logout, Return, history
<1> QED
  BY <1>2, <1>3, <1>4, <1>5 DEF Next

\* No step of a request, a call or a login stores a user's name under a token
\* that an anonymous client was given.
LEMMA FreshStep == FreshInv /\ CsrfsCounted /\ [Next]_vars => FreshInv'
<1> SUFFICES ASSUME FreshInv, csrfs \in Nat, [Next]_vars PROVE FreshInv'
  BY DEF CsrfsCounted
<1>0. Locals /\ LoginOwnsToken
  BY DEF FreshInv
<1>a. << >> \in Accesses /\ LoginOps \in Accesses /\ << >> # LoginOps
  BY DEF Accesses, LoginOps
<1>1. CASE UNCHANGED vars
  BY <1>1 DEF vars, store, history, FreshInv, Locals, LoginOwnsToken, LoginGetsFreshSession
<1>2. CASE Tick
  BY <1>2 DEF Tick, store, history, FreshInv, Locals, LoginOwnsToken, LoginGetsFreshSession
<1>3. ASSUME NEW t \in Threads, Serve(t) PROVE FreshInv'
  <2>1. ASSUME NEW cookie \in drawn \cup {NoToken}, Resolve(t, cookie) PROVE FreshInv'
    <3>0. todo[t] = << >> /\ todo' = todo
          /\ pc' = [pc EXCEPT ![t] = "callback"]
      BY <1>0, <2>1 DEF Resolve, Locals
    <3>1. /\ pc' \in [Threads -> {"idle", "callback", "look", "access", "login"}]
          /\ todo' \in [Threads -> Accesses]
          /\ \A u \in Threads : pc'[u] \in {"look", "access"} <=> todo'[u] # << >>
      BY <1>0, <3>0 DEF Locals
    <3>2. CASE Found(cookie)
      <4>1. UNCHANGED << data, drawn, anonymous >>
            /\ sessionToken' = [sessionToken EXCEPT ![t] = cookie]
        BY <2>1, <3>2 DEF Resolve
      <4>2. Locals'
        BY <1>0, <3>1, <4>1 DEF Locals
      <4>3. LoginOwnsToken'
        BY <1>0, <1>a, <3>0, <4>1 DEF Locals, LoginOwnsToken
      <4> QED
        BY <4>1, <4>2, <4>3, QuietStep
    <3>3. CASE ~Found(cookie)
      <4>1. /\ CreateSession(t, IF cookie = NoToken THEN sessionTable ELSE Swept(cookie))
            /\ anonymous' = anonymous \cup (drawn' \ drawn)
        BY <2>1, <3>3 DEF Resolve
      <4>2. CASE UNCHANGED << data, drawn, sessionToken >>
        <5>1. UNCHANGED anonymous
          BY <4>1, <4>2
        <5>2. Locals' /\ LoginOwnsToken'
          BY <1>0, <3>0, <3>1, <4>2, <5>1 DEF Locals, LoginOwnsToken
        <5> QED
          BY <4>2, <5>1, <5>2, QuietStep
      <4>3. CASE ~UNCHANGED << data, drawn, sessionToken >>
        <5>1. /\ drawn \subseteq drawn'
              /\ drawn' \subseteq Tokens
              /\ data' \in [Tokens -> [Names -> Nat]]
              /\ \A q \in drawn : data'[q] = data[q]
              /\ \A q \in drawn' \ drawn : data'[q] = Empty
              /\ sessionToken' \in [Threads -> drawn' \cup {NoToken}]
              /\ \A u \in Threads \ {t} : sessionToken'[u] = sessionToken[u]
          BY <4>1, <4>3, CreationDraws
        <5>2. Locals'
          BY <1>0, <3>1, <4>1, <5>1 DEF Locals
        <5>3. LoginOwnsToken'
          BY <1>0, <1>a, <3>0, <4>1, <5>1 DEF Locals, LoginOwnsToken
        <5>4. Empty.username = 0
          BY DEF Empty, Names
        <5>5. LoginGetsFreshSession'
          BY <1>0, <4>1, <5>1, <5>4 DEF FreshInv, Locals, LoginGetsFreshSession
        <5> QED
          BY <5>2, <5>3, <5>5 DEF FreshInv
      <4> QED
        BY <4>2, <4>3
    <3> QED
      BY <3>2, <3>3
  <2>2. ASSUME NEW op \in AppOps, Call(t, op) PROVE FreshInv'
    <3>1. op \in SmallOps /\ << op >> # << >> /\ << op >> # LoginOps
      BY DEF AppOps, SmallOps, Ops, Names, LoginOps
    <3>2. << op >> \in Accesses
      BY <3>1 DEF Accesses
    <3>3. /\ todo' = [todo EXCEPT ![t] = << op >>]
          /\ pc' = [pc EXCEPT ![t] = "look"]
          /\ UNCHANGED << data, drawn, sessionToken, anonymous >>
      BY <2>2 DEF Call, store, history
    <3>4. Locals'
      BY <1>0, <3>1, <3>2, <3>3 DEF Locals
    <3>5. LoginOwnsToken'
      BY <1>0, <3>1, <3>3 DEF Locals, LoginOwnsToken
    <3> QED
      BY <3>3, <3>4, <3>5, QuietStep
  <2>3. CASE LookFinds(t)
    <3>1. /\ pc[t] = "look" /\ pc' = [pc EXCEPT ![t] = "access"]
          /\ UNCHANGED << data, drawn, sessionToken, todo, anonymous >>
      BY <2>3 DEF LookFinds, store, history
    <3>2. Locals' /\ LoginOwnsToken'
      BY <1>0, <3>1 DEF Locals, LoginOwnsToken
    <3> QED
      BY <3>1, <3>2, QuietStep
  <2>4. CASE LookFails(t)
    <3>0. /\ todo[t] \in Accesses /\ todo[t] # << >>
          /\ GoOn(t, Tail(todo[t]))
          /\ UNCHANGED << data, drawn, sessionToken, anonymous >>
      BY <1>0, <2>4 DEF LookFails, Locals, history
    <3>1. Tail(todo[t]) \in Accesses /\ Tail(todo[t]) # LoginOps
      BY <3>0, NextAccess
    <3>2. Locals'
      BY <1>0, <3>0, <3>1, GoOnKeeps DEF Locals
    <3>3. LoginOwnsToken'
      BY <1>0, <3>0, <3>1, GoOnKeeps DEF Locals, LoginOwnsToken
    <3> QED
      BY <3>0, <3>2, <3>3, QuietStep
  <2>5. CASE Access(t)
    <3> DEFINE s  == sessionToken[t]
               op == Head(todo[t])
               setCsrf == << [kind |-> "set", name |-> "csrf"] >>
    <3>0. /\ todo[t] \in Accesses /\ todo[t] # << >>
          /\ UNCHANGED << drawn, sessionToken, anonymous >>
      BY <1>0, <2>5 DEF Access, Locals
    <3>1. /\ Tail(todo[t]) \in Accesses /\ Tail(todo[t]) # LoginOps
          /\ op \in Ops
          /\ op.name = "username" => todo[t] = LoginOps
      BY <3>0, NextAccess
    <3>2. setCsrf \in Accesses /\ setCsrf # LoginOps
      <4>1. [kind |-> "set", name |-> "csrf"] \in SmallOps
        BY DEF SmallOps, Ops, Names
      <4>2. setCsrf # LoginOps
        BY DEF LoginOps
      <4> QED
        BY <4>1, <4>2 DEF Accesses
    <3>3. PICK rest \in {Tail(todo[t]), setCsrf} : GoOn(t, rest)
      BY <2>5 DEF Access
    <3>4. /\ data' \in [Tokens -> [Names -> Nat]]
          /\ \A q \in anonymous : data'[q].username = data[q].username
      <4>1. CASE data' = data
        BY <1>0, <4>1 DEF Locals
      <4>2. ASSUME NEW v \in Nat, data' = [data EXCEPT ![s][op.name] = v]
            PROVE  /\ data' \in [Tokens -> [Names -> Nat]]
                   /\ \A q \in anonymous : data'[q].username = data[q].username
        <5>1. data' \in [Tokens -> [Names -> Nat]]
          BY <1>0, <3>1, <4>2 DEF Locals, Ops
        <5>2. op.name = "username" => s \notin anonymous
          BY <1>0, <3>1 DEF LoginOwnsToken
        <5>3. \A q \in Tokens : q # s => data'[q] = data[q]
          BY <1>0, <4>2 DEF Locals
        <5>4. op.name # "username" /\ s \in Tokens => data'[s].username = data[s].username
          BY <1>0, <4>2 DEF Locals, Names
        <5>5. anonymous \subseteq Tokens
          BY <1>0 DEF Locals
        <5> QED
          BY <5>1, <5>2, <5>3, <5>4, <5>5
      <4>3. data' = data \/ \E v \in Nat : data' = [data EXCEPT ![s][op.name] = v]
        <5>1. csrfs + 1 \in Nat
          OBVIOUS
        <5> QED
          BY <2>5, <5>1 DEF Access
      <4> QED
        BY <4>1, <4>2, <4>3
    <3>5. Locals'
      BY <1>0, <3>0, <3>1, <3>2, <3>3, <3>4, GoOnKeeps DEF Locals
    <3>6. LoginOwnsToken'
      BY <1>0, <3>0, <3>1, <3>2, <3>3, GoOnKeeps DEF LoginOwnsToken
    <3> QED
      BY <3>0, <3>4, <3>5, <3>6, QuietStep
  <2>6. CASE Login(t)
    <3>1. /\ pc[t] = "callback" /\ pc' = [pc EXCEPT ![t] = "login"]
          /\ UNCHANGED << data, drawn, sessionToken, todo, anonymous >>
      BY <2>6 DEF Login, history
    <3>2. Locals' /\ LoginOwnsToken'
      BY <1>0, <3>1 DEF Locals, LoginOwnsToken
    <3> QED
      BY <3>1, <3>2, QuietStep
  <2>7. CASE LoginCreates(t)
    <3>0. CreateSession(t, sessionTable) /\ UNCHANGED anonymous
      BY <2>7 DEF LoginCreates, history
    <3>1. CASE UNCHANGED << data, drawn, sessionToken >>
      <4>1. GoOn(t, << >>)
        BY <2>7, <3>1 DEF LoginCreates
      <4>2. Locals'
        BY <1>0, <1>a, <3>0, <3>1, <4>1, GoOnKeeps DEF Locals
      <4>3. LoginOwnsToken'
        BY <1>0, <1>a, <3>0, <3>1, <4>1, GoOnKeeps DEF LoginOwnsToken
      <4> QED
        BY <3>0, <3>1, <4>2, <4>3, QuietStep
    <3>2. CASE ~UNCHANGED << data, drawn, sessionToken >>
      <4>1. /\ drawn \subseteq drawn'
            /\ drawn' \subseteq Tokens
            /\ drawn' # drawn
            /\ data' \in [Tokens -> [Names -> Nat]]
            /\ \A q \in drawn : data'[q] = data[q]
            /\ sessionToken' \in [Threads -> drawn' \cup {NoToken}]
            /\ sessionToken'[t] \in drawn' \ drawn
            /\ \A u \in Threads \ {t} : sessionToken'[u] = sessionToken[u]
        BY <3>0, <3>2, CreationDraws
      <4>2. GoOn(t, LoginOps)
        BY <2>7, <4>1 DEF LoginCreates, LoginOps, SetUsername, SetUid
      <4>3. Locals'
        BY <1>0, <1>a, <3>0, <4>1, <4>2, GoOnKeeps DEF Locals
      <4>4. LoginOwnsToken'
        BY <1>0, <1>a, <3>0, <4>1, <4>2, GoOnKeeps, ZenonT(30) DEF Locals, LoginOwnsToken
      <4>5. \A q \in anonymous : data'[q].username = data[q].username
        BY <1>0, <4>1 DEF Locals
      <4> QED
        BY <3>0, <4>3, <4>4, <4>5, QuietStep
    <3> QED
      BY <3>1, <3>2
  <2>8. CASE Logout(t)
    <3>1. /\ pc[t] = "callback"
          /\ sessionToken' = [sessionToken EXCEPT ![t] = NoToken]
          /\ UNCHANGED << data, drawn, pc, todo, anonymous >>
      BY <2>8 DEF Logout, history
    <3>2. Locals'
      BY <1>0, <3>1 DEF Locals
    <3>3. LoginOwnsToken'
      BY <1>0, <1>a, <3>1 DEF Locals, LoginOwnsToken
    <3> QED
      BY <3>1, <3>2, <3>3, QuietStep
  <2>9. CASE Return(t)
    <3>1. /\ pc[t] = "callback" /\ pc' = [pc EXCEPT ![t] = "idle"]
          /\ sessionToken' = [sessionToken EXCEPT ![t] = NoToken]
          /\ UNCHANGED << data, drawn, todo, anonymous >>
      BY <2>9 DEF Return, store, history
    <3>2. Locals'
      BY <1>0, <3>1 DEF Locals
    <3>3. LoginOwnsToken'
      BY <1>0, <1>a, <3>1 DEF Locals, LoginOwnsToken
    <3> QED
      BY <3>1, <3>2, <3>3, QuietStep
  <2> QED
    BY <1>3, <2>1, <2>2, <2>3, <2>4, <2>5, <2>6, <2>7, <2>8, <2>9 DEF Serve
<1> QED
  BY <1>1, <1>2, <1>3 DEF Next

\* AmmServer_Login destroys the session from before it and makes a new one: for
\* any number of threads, clients and calls in any order, a token handed out to
\* an anonymous client never names a session with a user in it.
THEOREM LoginIsFresh == Spec => []LoginGetsFreshSession
<1>1. Init => FreshInv /\ CsrfsCounted
  <2>1. << >> \in Accesses /\ << >> # LoginOps
    BY DEF Accesses, LoginOps
  <2>2. Empty \in [Names -> Nat]
    BY DEF Empty
  <2> QED
    BY <2>1, <2>2 DEF Init, FreshInv, CsrfsCounted, Locals, LoginOwnsToken, LoginGetsFreshSession
<1>2. FreshInv => LoginGetsFreshSession
  BY DEF FreshInv
<1> QED
  BY <1>1, <1>2, CsrfStep, FreshStep, PTL DEF Spec

-----------------------------------------------------------------------------
(* What a step may take from the table and put into it *)

\* A session may go: the three reasons of OnlyOldestLost.
MayGo(s) ==
  \/ Expired(s)
  \/ \E t \in Threads : sessionToken[t] = s /\ calls'[t] # calls[t]
  \/ /\ Cardinality(sessionTable) >= MAX_SESSIONS
     /\ \A p \in sessionTable : lastSeen[s] <= lastSeen[p]

\* The sessions that go may go, and those that come were never there.
TableMoves ==
  /\ \A s \in sessionTable \ sessionTable' : MayGo(s)
  /\ (sessionTable' \ sessionTable) \cap drawn = {}

\* createSessionLocked evicts the oldest entry of a full table, and a table from which
\* an expired entry has just been taken is not full.
LEMMA CreationMoves ==
  ASSUME Bounded, NEW t \in Threads, NEW table,
         table = sessionTable \/ \E s \in sessionTable : Expired(s) /\ table = sessionTable \ {s},
         CreateSession(t, table)
  PROVE  TableMoves
<1>1. PICK room \in EvictOldest(table) :
         sessionTable' = room \/ \E s \in Tokens \ drawn : sessionTable' = room \cup {s}
  BY DEF CreateSession
<1>2. ASSUME NEW s \in sessionTable, s \notin room PROVE MayGo(s)
  <2>1. IsFiniteSet(sessionTable) /\ Cardinality(sessionTable) \in Nat
    BY SessionAssumption, FS_Subset, FS_CardinalityType DEF SessionAssumption, Bounded
  <2>2. CASE s \notin table
    BY <2>2 DEF MayGo
  <2>3. CASE s \in table
    <3>1. /\ ~(Cardinality(table) < MAX_SESSIONS)
          /\ \A p \in table : lastSeen[s] <= lastSeen[p]
      BY <1>2, <2>3 DEF EvictOldest
    <3>2. table = sessionTable
      <4> SUFFICES ASSUME NEW e \in sessionTable, table = sessionTable \ {e} PROVE FALSE
        OBVIOUS
      <4>1. Cardinality(table) = Cardinality(sessionTable) - 1
        BY <2>1, FS_RemoveElement
      <4> QED
        BY <2>1, <3>1, <4>1, SessionAssumption DEF Bounded, SessionsBounded, SessionAssumption
    <3>3. Cardinality(sessionTable) >= MAX_SESSIONS
      BY <2>1, <3>1, <3>2, SessionAssumption DEF SessionAssumption
    <3> QED
      BY <3>1, <3>2, <3>3 DEF MayGo
  <2> QED
    BY <2>2, <2>3
<1>3. room \subseteq sessionTable
  BY DEF EvictOldest
<1> QED
  BY <1>1, <1>2, <1>3 DEF TableMoves

LEMMA RemovalMoves ==
  ASSUME NEW s, MayGo(s), sessionTable' = sessionTable \ {s} \/ sessionTable' = sessionTable
  PROVE  TableMoves
BY DEF TableMoves

LEMMA NothingMoves ==
  ASSUME sessionTable' = sessionTable
  PROVE  TableMoves
BY DEF TableMoves

\* Every call of a callback is counted.
CallsCounted == calls \in [Threads -> Nat]

LEMMA CountedStep == CallsCounted /\ [Next]_vars => CallsCounted'
<1> SUFFICES ASSUME CallsCounted, [Next]_vars PROVE CallsCounted'
  OBVIOUS
<1>1. CASE calls' = calls
  BY <1>1 DEF CallsCounted
<1>2. ASSUME NEW t \in Threads, calls' = [calls EXCEPT ![t] = @ + 1] PROVE CallsCounted'
  BY <1>2 DEF CallsCounted
<1>3. CASE UNCHANGED vars \/ Tick
  BY <1>1, <1>3 DEF vars, Tick
<1>4. ASSUME NEW t \in Threads, Serve(t) PROVE CallsCounted'
  <2>1. CASE \E cookie \in drawn \cup {NoToken} : Resolve(t, cookie)
    BY <1>1, <2>1 DEF Resolve
  <2>2. CASE (\E op \in AppOps : Call(t, op)) \/ Login(t) \/ Logout(t)
    BY <1>2, <2>2 DEF Call, Login, Logout
  <2>3. CASE LookFinds(t) \/ LookFails(t) \/ Access(t) \/ LoginCreates(t) \/ Return(t)
    BY <1>1, <2>3 DEF LookFinds, LookFails, Access, LoginCreates, Return
  <2> QED
    BY <1>4, <2>1, <2>2, <2>3 DEF Serve
<1> QED
  BY <1>3, <1>4 DEF Next

LEMMA TableStep == CallsCounted /\ Bounded /\ [Next]_vars => TableMoves
<1> SUFFICES ASSUME CallsCounted, Bounded, [Next]_vars PROVE TableMoves
  OBVIOUS
<1>1. CASE UNCHANGED vars
  BY <1>1, NothingMoves DEF vars, store
<1>2. CASE Tick
  BY <1>2, NothingMoves DEF Tick, store
<1>3. ASSUME NEW t \in Threads, Serve(t) PROVE TableMoves
  <2>1. ASSUME NEW cookie \in drawn \cup {NoToken}, Resolve(t, cookie) PROVE TableMoves
    <3>1. CASE Found(cookie)
      BY <2>1, <3>1, NothingMoves DEF Resolve
    <3>2. CASE ~Found(cookie)
      <4>1. PICK table : /\ table = IF cookie = NoToken THEN sessionTable ELSE Swept(cookie)
                         /\ CreateSession(t, table)
        BY <2>1, <3>2 DEF Resolve
      <4>2. \/ table = sessionTable
            \/ \E s \in sessionTable : Expired(s) /\ table = sessionTable \ {s}
        BY <4>1 DEF Swept
      <4> QED
        BY <4>1, <4>2, CreationMoves
    <3> QED
      BY <3>1, <3>2
  <2>2. CASE \E op \in AppOps : Call(t, op)
    BY <2>2, NothingMoves DEF Call, store
  <2>3. CASE LookFinds(t)
    BY <2>3, NothingMoves DEF LookFinds, store
  <2>4. CASE LookFails(t)
    <3>1. \/ sessionTable' = sessionTable
          \/ Expired(sessionToken[t]) /\ sessionTable' = sessionTable \ {sessionToken[t]}
      BY <2>4 DEF LookFails, Swept
    <3> QED
      BY <3>1, NothingMoves, RemovalMoves DEF MayGo
  <2>5. CASE Access(t)
    BY <2>5, NothingMoves DEF Access
  <2>6. CASE Login(t)
    <3>1. calls'[t] # calls[t] /\ sessionTable' = sessionTable \ {sessionToken[t]}
      BY <2>6 DEF Login, CallsCounted
    <3> QED
      BY <3>1, RemovalMoves DEF MayGo
  <2>7. CASE LoginCreates(t)
    BY <2>7, CreationMoves DEF LoginCreates
  <2>8. CASE Logout(t)
    <3>1. calls'[t] # calls[t] /\ sessionTable' = sessionTable \ {sessionToken[t]}
      BY <2>8 DEF Logout, CallsCounted
    <3> QED
      BY <3>1, RemovalMoves DEF MayGo
  <2>9. CASE Return(t)
    BY <2>9, NothingMoves DEF Return, store
  <2> QED
    BY <1>3, <2>1, <2>2, <2>3, <2>4, <2>5, <2>6, <2>7, <2>8, <2>9 DEF Serve
<1> QED
  BY <1>1, <1>2, <1>3 DEF Next

LEMMA TableAlwaysMoves == Spec => [][TableMoves]_vars
<1>1. Init => CallsCounted /\ Bounded
  BY FS_EmptySet, SessionAssumption
  DEF Init, CallsCounted, Bounded, SessionsBounded, SessionAssumption
<1> QED
  BY <1>1, BoundedStep, CountedStep, TableStep, PTL DEF Spec

\* NeverRevived: whatever cookies are presented to findSessionLocked and
\* createSessionLocked, a session that has left the table does not come back.
THEOREM LostStaysLost == Spec => NeverRevived
<1>1. TableMoves => (sessionTable' \ sessionTable) \cap drawn = {}
  BY DEF TableMoves
<1> QED
  BY <1>1, TableAlwaysMoves, PTL DEF NeverRevived

\* OnlyOldestLost: a session goes only when it has expired, when its own client logs in
\* or out, or as the oldest of a full table (evictOldestSessionIfAtCapacity).
THEOREM OnlyOldestGoes == Spec => OnlyOldestLost
<1>1. TableMoves => \A s \in sessionTable \ sessionTable' :
        \/ Expired(s)
        \/ \E t \in Threads : sessionToken[t] = s /\ calls'[t] # calls[t]
        \/ /\ Cardinality(sessionTable) >= MAX_SESSIONS
           /\ \A p \in sessionTable : lastSeen[s] <= lastSeen[p]
  BY DEF TableMoves, MayGo
<1> QED
  BY <1>1, TableAlwaysMoves, PTL DEF OnlyOldestLost
=============================================================================
