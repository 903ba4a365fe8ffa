------------------------------ MODULE SessionList ------------------------------
(***************************************************************************)
(* The session store (cache/session_list.c) as the worker threads use it:  *)
(* resolving a request's cookie, the _SESSION accessors and the CSRF token *)
(* (main.c), and logging in and out (UserAccounts/userAccountsWeb.c).      *)
(*                                                                         *)
(* A token names its session's entry: 256 random bits are not drawn twice. *)
(* What is done under tableLock is one step, and so is what is done under  *)
(* an entry's lock; between the two a thread holds only a pointer.  Once   *)
(* that entry is freed anything may happen: no further step of the thread  *)
(* is described.  Entries equally old are evicted in any order.            *)
(***************************************************************************)
EXTENDS Naturals, Sequences, FiniteSets

CONSTANTS
  Threads,
  Tokens,                        \* the tokens the generator will draw
  NoToken,
  MAX_SESSIONS,
  SESSION_IDLE_TIMEOUT_SECONDS,
  MaxTime,                       \* bound: seconds
  MaxCalls                       \* bound: calls by one thread's callbacks

ASSUME SessionAssumption ==
  /\ IsFiniteSet(Tokens)
  /\ NoToken \notin Tokens
  /\ MAX_SESSIONS \in Nat \ {0}
  /\ {SESSION_IDLE_TIMEOUT_SECONDS, MaxTime, MaxCalls} \subseteq Nat

VARIABLES
  sessionTable,  \* the tokens in the table
  lastSeen,
  data,          \* the values of each session, 0 when there is none
  drawn,         \* tokens generated so far
  now,
  pc,
  sessionToken,  \* of the request a thread serves
  todo,          \* the accesses that a call still has to make
  calls,
  csrfs,         \* CSRF tokens generated so far
  issued,        \* history: the CSRF tokens put in pages, by session
  anonymous      \* history: tokens given to clients that had not logged in

store   == << sessionTable, lastSeen, data, drawn >>
history == << csrfs, issued, anonymous >>

vars == << store, now, pc, sessionToken, todo, calls, history >>

Names == {"item", "csrf", "username", "uid"}
Ops   == [kind : {"get", "set", "unset"}, name : Names]
Empty == [n \in Names |-> 0]

TypeOK ==
  /\ sessionTable \subseteq drawn
  /\ drawn \subseteq Tokens
  /\ lastSeen \in [Tokens -> 0 .. MaxTime]
  /\ data \in [Tokens -> [Names -> Nat]]
  /\ now \in 0 .. MaxTime
  /\ pc \in [Threads -> {"idle", "callback", "look", "access", "login"}]
  /\ sessionToken \in [Threads -> drawn \cup {NoToken}]
  /\ todo \in [Threads -> Seq(Ops)]
  /\ \A t \in Threads : pc[t] \in {"look", "access"} => todo[t] # << >>
  /\ calls \in [Threads -> 0 .. MaxCalls]
  /\ csrfs \in Nat
  /\ issued \in [Tokens -> SUBSET Nat]
  /\ anonymous \subseteq drawn

Init ==
  /\ sessionTable = {}
  /\ lastSeen = [s \in Tokens |-> 0]
  /\ data = [s \in Tokens |-> Empty]
  /\ drawn = {}
  /\ now = 0
  /\ pc = [t \in Threads |-> "idle"]
  /\ sessionToken = [t \in Threads |-> NoToken]
  /\ todo = [t \in Threads |-> << >>]
  /\ calls = [t \in Threads |-> 0]
  /\ csrfs = 0
  /\ issued = [s \in Tokens |-> {}]
  /\ anonymous = {}

-----------------------------------------------------------------------------
(* Under tableLock *)

Expired(s) == now - lastSeen[s] > SESSION_IDLE_TIMEOUT_SECONDS

\* What findSessionLocked leaves of the table.
Swept(s) == IF Expired(s) THEN sessionTable \ {s} ELSE sessionTable

Found(s) == s \in sessionTable /\ ~Expired(s)

\* The tables that evictOldestSessionIfAtCapacity may leave.
EvictOldest(table) ==
  IF Cardinality(table) < MAX_SESSIONS
  THEN { table }
  ELSE { table \ {s} : s \in { o \in table : \A p \in table : lastSeen[o] <= lastSeen[p] } }

\* createSessionLocked: when there is no memory or no randomness the eviction
\* has happened and no session is made.
CreateSession(t, table) ==
  \E room \in EvictOldest(table) :
    \/ \E s \in Tokens \ drawn :
         /\ drawn' = drawn \cup {s}
         /\ sessionTable' = room \cup {s}
         /\ lastSeen' = [lastSeen EXCEPT ![s] = now]
         /\ data' = [data EXCEPT ![s] = Empty]
         /\ sessionToken' = [sessionToken EXCEPT ![t] = s]
    \/ /\ sessionTable' = room
       /\ UNCHANGED << lastSeen, data, drawn, sessionToken >>

-----------------------------------------------------------------------------
(* A request for a resource with useSessionLifecycle *)

\* getSessionFromHeader.  The request starts without a token and keeps none if
\* no session can be made.
Resolve(t, cookie) ==
  /\ pc[t] = "idle"
  /\ calls[t] < MaxCalls
  /\ IF Found(cookie)
     THEN /\ lastSeen' = [lastSeen EXCEPT ![cookie] = now]
          /\ sessionToken' = [sessionToken EXCEPT ![t] = cookie]
          /\ UNCHANGED << sessionTable, data, drawn, anonymous >>
     ELSE /\ CreateSession(t, IF cookie = NoToken THEN sessionTable ELSE Swept(cookie))
          /\ anonymous' = anonymous \cup (drawn' \ drawn)
  /\ pc' = [pc EXCEPT ![t] = "callback"]
  /\ UNCHANGED << now, todo, calls, csrfs, issued >>

\* The callback calls an accessor of its own data, or AmmServer_GenerateCSRFToken,
\* which reads first.
Call(t, op) ==
  /\ pc[t] = "callback"
  /\ calls[t] < MaxCalls
  /\ calls' = [calls EXCEPT ![t] = @ + 1]
  /\ todo' = [todo EXCEPT ![t] = << op >>]
  /\ pc' = [pc EXCEPT ![t] = "look"]
  /\ UNCHANGED << store, now, sessionToken, history >>

\* The accesses that are left, and where the call goes on.
GoOn(t, rest) ==
  /\ todo' = [todo EXCEPT ![t] = rest]
  /\ pc' = [pc EXCEPT ![t] = IF rest = << >> THEN "callback" ELSE "look"]

\* The session is looked up under tableLock, which is released before the
\* entry's own lock is taken.
LookFinds(t) ==
  /\ pc[t] = "look"
  /\ Found(sessionToken[t])
  /\ pc' = [pc EXCEPT ![t] = "access"]
  /\ UNCHANGED << store, now, sessionToken, todo, calls, history >>

\* There is no such session any more: this access fails, the login goes on to
\* its next one, and no CSRF token is made.
LookFails(t) ==
  /\ pc[t] = "look"
  /\ ~Found(sessionToken[t])
  /\ sessionTable' = IF sessionToken[t] = NoToken THEN sessionTable
                                                  ELSE Swept(sessionToken[t])
  /\ GoOn(t, Tail(todo[t]))
  /\ UNCHANGED << lastSeen, data, drawn, now, sessionToken, calls, history >>

\* Under the entry's lock.  A value is stored as a non-zero number; that of the
\* CSRF token is new, and goes into the page.
Access(t) ==
  LET s  == sessionToken[t]
      op == Head(todo[t])
      isCsrf == op.name = "csrf"
  IN  /\ pc[t] = "access"
      /\ s \in sessionTable
      /\ \/ /\ op.kind = "get"
            /\ IF isCsrf /\ data[s].csrf = 0
               THEN GoOn(t, << [kind |-> "set", name |-> "csrf"] >>)
               ELSE GoOn(t, Tail(todo[t]))
            /\ issued' = IF isCsrf /\ data[s].csrf # 0
                         THEN [issued EXCEPT ![s] = @ \cup {data[s].csrf}]
                         ELSE issued
            /\ UNCHANGED << data, csrfs >>
         \/ /\ op.kind = "set"
            /\ csrfs' = IF isCsrf THEN csrfs + 1 ELSE csrfs
            /\ data' = [data EXCEPT ![s][op.name] = IF isCsrf THEN csrfs + 1 ELSE 1]
            /\ issued' = IF isCsrf THEN [issued EXCEPT ![s] = @ \cup {csrfs + 1}]
                                   ELSE issued
            /\ GoOn(t, Tail(todo[t]))
         \/ /\ op.kind = "unset"
            /\ data' = [data EXCEPT ![s][op.name] = 0]
            /\ GoOn(t, Tail(todo[t]))
            /\ UNCHANGED << csrfs, issued >>
      /\ UNCHANGED << sessionTable, lastSeen, drawn, now, sessionToken, calls,
                      anonymous >>

-----------------------------------------------------------------------------
(* UserAccounts *)

\* Mutant: the session from before the login is kept.
LoginKeeps(t) ==
  /\ pc[t] = "callback"
  /\ calls[t] < MaxCalls
  /\ sessionToken[t] # NoToken
  /\ calls' = [calls EXCEPT ![t] = @ + 1]
  /\ todo' = [todo EXCEPT ![t] = << [kind |-> "set", name |-> "username"],
                                    [kind |-> "set", name |-> "uid"] >>]
  /\ pc' = [pc EXCEPT ![t] = "look"]
  /\ UNCHANGED << store, now, sessionToken, history >>

\* AmmServer_Login with the right password: the session there was is destroyed.
Login(t) ==
  /\ pc[t] = "callback"
  /\ calls[t] < MaxCalls
  /\ calls' = [calls EXCEPT ![t] = @ + 1]
  /\ sessionTable' = sessionTable \ {sessionToken[t]}
  /\ pc' = [pc EXCEPT ![t] = "login"]
  /\ UNCHANGED << lastSeen, data, drawn, now, sessionToken, todo, history >>

\* A new one is made, which gets the user's name and number.
LoginCreates(t) ==
  /\ pc[t] = "login"
  /\ CreateSession(t, sessionTable)
  /\ IF drawn' # drawn
     THEN GoOn(t, << [kind |-> "set", name |-> "username"],
                     [kind |-> "set", name |-> "uid"] >>)
     ELSE GoOn(t, << >>)
  /\ UNCHANGED << now, calls, history >>

\* AmmServer_Logout.
Logout(t) ==
  /\ pc[t] = "callback"
  /\ calls[t] < MaxCalls
  /\ sessionToken[t] # NoToken
  /\ calls' = [calls EXCEPT ![t] = @ + 1]
  /\ sessionTable' = sessionTable \ {sessionToken[t]}
  /\ sessionToken' = [sessionToken EXCEPT ![t] = NoToken]
  /\ UNCHANGED << lastSeen, data, drawn, now, pc, todo, history >>

-----------------------------------------------------------------------------
\* The callback returns; sessionToken is cleared for the next request.
Return(t) ==
  /\ pc[t] = "callback"
  /\ sessionToken' = [sessionToken EXCEPT ![t] = NoToken]
  /\ pc' = [pc EXCEPT ![t] = "idle"]
  /\ UNCHANGED << store, now, todo, calls, history >>

Tick ==
  /\ now < MaxTime
  /\ now' = now + 1
  /\ UNCHANGED << store, pc, sessionToken, todo, calls, history >>

AppOps == { op \in Ops : op.name = "item" } \cup { [kind |-> "get", name |-> "csrf"] }

Serve(t) ==
  \/ \E cookie \in drawn \cup {NoToken} : Resolve(t, cookie)
  \/ \E op \in AppOps : Call(t, op)
  \/ LookFinds(t)
  \/ LookFails(t)
  \/ Access(t)
  \/ Login(t)
  \/ LoginCreates(t)
  \/ Logout(t)
  \/ Return(t)

Next == (\E t \in Threads : Serve(t)) \/ Tick

Spec == Init /\ [][Next]_vars

-----------------------------------------------------------------------------
(* Properties *)

\* Whatever requests, logins and failed allocations come, the table never
\* holds more than MAX_SESSIONS sessions.
SessionsBounded == Cardinality(sessionTable) <= MAX_SESSIONS

\* A session is lost only when it has been idle too long, when its own client
\* logs in or out, or when the table is full and none has been idle longer.
OnlyOldestLost ==
  [][ \A s \in sessionTable \ sessionTable' :
        \/ Expired(s)
        \/ \E t \in Threads : sessionToken[t] = s /\ calls'[t] # calls[t]
        \/ /\ Cardinality(sessionTable) >= MAX_SESSIONS
           /\ \A p \in sessionTable : lastSeen[s] <= lastSeen[p] ]_vars

\* A session that has expired, was evicted or was left by a login or a logout
\* does not come back, whatever cookie is presented.
NeverRevived == [][ (sessionTable' \ sessionTable) \cap drawn = {} ]_vars

\* A session that belongs to a user was made by the login: a token that a
\* client had before it never becomes an authenticated one.
LoginGetsFreshSession == \A s \in anonymous : data[s].username = 0

\* The entry that a thread found is still there when it uses it.
EntryOutlivesUse ==
  \A t \in Threads : pc[t] = "access" => sessionToken[t] \in sessionTable

\* As long as a session lasts, every CSRF token it put into a page stays valid.
CsrfTokenStays ==
  \A s \in sessionTable : \A v \in issued[s] : data[s].csrf = v
=============================================================================
