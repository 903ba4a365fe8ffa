--------------------------- MODULE Services_proofs ---------------------------
(***************************************************************************)
(* What the programs that are built on the server keep, however many       *)
(* members, jobs, phones and browsers there are: Social its locks and the  *)
(* uploads of its posts, ASVIO its queue, its inputs and whom it has to    *)
(* wake, SuperMarket its list, and ShareTex its texts.                     *)
(*                                                                         *)
(* Each part has the inductive invariant of a program, what the helpers of *)
(* the program do to it, and one lemma for each action or kind of action.  *)
(* The theorems at the end are about the specification that is checked.    *)
(***************************************************************************)
EXTENDS MC_Services, FiniteSetTheorems, TLAPS

-----------------------------------------------------------------------------
(* Sequences *)

IsSeq(s) == Len(s) \in Nat /\ s = [i \in 1 .. Len(s) |-> s[i]]

LEMMA ItIsASequence ==
  ASSUME NEW s, IsSeq(s), NEW S, \A i \in 1 .. Len(s) : s[i] \in S
  PROVE  s \in Seq(S)
  <1>1. s \in [1 .. Len(s) -> S] /\ Len(s) \in Nat
    BY DEF IsSeq
  <1> QED
    BY <1>1

LEMMA SequencesAre ==
  ASSUME NEW S, NEW s \in Seq(S)
  PROVE  IsSeq(s) /\ DOMAIN s = 1 .. Len(s)
  BY DEF IsSeq

LEMMA MapIsASequence ==
  ASSUME NEW n \in Nat, NEW r, DOMAIN r = 1 .. n, r = [i \in DOMAIN r |-> r[i]]
  PROVE  Len(r) = n
  <1>1. r \in [1 .. n -> {r[i] : i \in 1 .. n}]
    OBVIOUS
  <1>2. r \in Seq({r[i] : i \in 1 .. n})
    BY <1>1
  <1> QED
    BY <1>2

LEMMA ConcatenationIs ==
  ASSUME NEW S, NEW a \in Seq(S), NEW b \in Seq(S)
  PROVE  /\ a \o b \in Seq(S) /\ Len(a \o b) = Len(a) + Len(b)
         /\ \A i \in 1 .. Len(a) + Len(b) :
              (a \o b)[i] = IF i <= Len(a) THEN a[i] ELSE b[i - Len(a)]
  OBVIOUS

\* Every entry of r is another one of s, and none is the one at k.
WithoutOne(s, k, r) ==
  \E at : /\ \A i \in 1 .. Len(r) : at[i] \in 1 .. Len(s) /\ at[i] # k /\ r[i] = s[at[i]]
          /\ \A i, m \in 1 .. Len(r) : at[i] = at[m] => i = m

LEMMA OneIsRemoved ==
  ASSUME NEW s, IsSeq(s), NEW k \in 1 .. Len(s), NEW r, r = RemoveAt(s, k)
  PROVE  /\ IsSeq(r) /\ Len(r) = Len(s) - 1
         /\ \A i \in 1 .. Len(r) : r[i] = IF i < k THEN s[i] ELSE s[i + 1]
         /\ WithoutOne(s, k, r)
  <1> DEFINE n == Len(s)
             S == {s[i] : i \in 1 .. n}
             a == SubSeq(s, 1, k - 1)
             b == SubSeq(s, k + 1, n)
  <1>1. s \in Seq(S)
    <2>1. \A i \in 1 .. n : s[i] \in S
      OBVIOUS
    <2> QED
      BY <2>1, ItIsASequence
  <1> HIDE DEF S
  <1>0. Len(s) \in Nat
    BY DEF IsSeq
  <1>2. a \in Seq(S) /\ Len(a) = k - 1 /\ \A i \in 1 .. k - 1 : a[i] = s[i]
    BY <1>0, <1>1
  <1>3. b \in Seq(S) /\ Len(b) = n - k /\ \A i \in 1 .. n - k : b[i] = s[k + i]
    BY <1>0, <1>1
  <1>4. r = a \o b
    BY DEF RemoveAt
  <1> HIDE DEF a, b, n
  <1>5. /\ r \in Seq(S) /\ Len(r) = Len(a) + Len(b)
        /\ \A i \in 1 .. Len(a) + Len(b) : r[i] = IF i <= Len(a) THEN a[i] ELSE b[i - Len(a)]
    <2>1. /\ a \o b \in Seq(S) /\ Len(a \o b) = Len(a) + Len(b)
          /\ \A i \in 1 .. Len(a) + Len(b) :
               (a \o b)[i] = IF i <= Len(a) THEN a[i] ELSE b[i - Len(a)]
      BY <1>2, <1>3, ConcatenationIs
    <2> QED
      BY <1>4, <2>1
  <1>6. n \in Nat /\ n = Len(s) /\ k \in 1 .. n
    BY DEF n, IsSeq
  <1>7. Len(r) = n - 1 /\ \A i \in 1 .. n - 1 : r[i] = IF i < k THEN s[i] ELSE s[i + 1]
    <2>1. Len(a) + Len(b) = n - 1
      BY <1>2, <1>3, <1>6
    <2>2. ASSUME NEW i \in 1 .. n - 1
          PROVE  r[i] = IF i < k THEN s[i] ELSE s[i + 1]
      <3>1. r[i] = IF i <= k - 1 THEN a[i] ELSE b[i - (k - 1)]
        BY <1>2, <1>5, <2>1
      <3>2. CASE i < k
        BY <1>2, <1>6, <3>1, <3>2
      <3>3. CASE ~(i < k)
        <4>1. i - (k - 1) \in 1 .. n - k /\ k + (i - (k - 1)) = i + 1
          BY <1>6, <3>3
        <4> QED
          BY <1>3, <1>6, <3>1, <3>3, <4>1
      <3> QED
        BY <3>2, <3>3
    <2> QED
      BY <1>5, <2>1, <2>2
  <1>8. IsSeq(r)
    BY <1>5, SequencesAre
  <1> DEFINE at == [i \in 1 .. n - 1 |-> IF i < k THEN i ELSE i + 1]
  <1>9. \A i \in 1 .. n - 1 : at[i] \in 1 .. n /\ at[i] # k /\ r[i] = s[at[i]]
    BY <1>6, <1>7
  <1>10. \A i, m \in 1 .. n - 1 : at[i] = at[m] => i = m
    BY <1>6
  <1> HIDE DEF at
  <1>11. WithoutOne(s, k, r)
    BY <1>6, <1>7, <1>9, <1>10, SMTT(20) DEF WithoutOne
  <1> QED
    BY <1>6, <1>7, <1>8, <1>11


-----------------------------------------------------------------------------
(* Social: its locks *)

\* Who has which lock is known from where it is: postsLock is outermost, and nobody
\* waits with followsLock or notificationsLock.  Only followsToggle has news to tell
\* without postsLock.
Holds(w, t) ==
  \/ /\ t = "posts"
     /\ \/ tabPc[w] \in {"render2", "save", "save2"}
        \/ tabPc[w] \in {"notify", "notify2"} /\ act[w].kind # "follow"
  \/ t = "follows" /\ tabPc[w] = "follows2"
  \/ t = "notes" /\ tabPc[w] \in {"notify2", "mark2"}

LocksHeld ==
  \A t \in Tables : mutex[t] # NoTab => mutex[t] \in Tabs /\ Holds(mutex[t], t)

\* The tables of locks and of requests have all their entries.
Fields == DOMAIN NoAct

Shaped ==
  /\ DOMAIN mutex = Tables
  /\ DOMAIN tabPc = Tabs
  /\ DOMAIN act = Tabs
  /\ \A w \in Tabs : DOMAIN act[w] = Fields

LocksInv == Shaped /\ LocksHeld

-----------------------------------------------------------------------------

LEMMA InitLocks == Init => LocksInv
  BY DEF Init, LocksInv, Shaped, LocksHeld, Fields, Tables

\* A step of one request that keeps the locks, takes one that is free, or gives one
\* back, if the others stay where they are.
LEMMA LocksKept ==
  ASSUME LocksInv, NEW w \in Tabs, Shaped',
         \A v \in Tabs \ {w} : tabPc'[v] = tabPc[v] /\ act'[v] = act[v],
         \A t \in Tables :
           \/ mutex'[t] = NoTab
           \/ mutex'[t] = w /\ Holds(w, t)'
           \/ mutex'[t] = mutex[t] /\ (Holds(w, t) => Holds(w, t)')
  PROVE  LocksInv'
  <1>1. ASSUME NEW t \in Tables, NEW v, mutex'[t] = v, v # NoTab
        PROVE  v \in Tabs /\ Holds(v, t)'
    <2>1. CASE v = w
      BY <1>1, <2>1 DEF LocksInv, LocksHeld
    <2>2. CASE v # w
      <3>1. mutex[t] = v
        BY <1>1, <2>2
      <3>2. v \in Tabs \ {w} /\ Holds(v, t)
        BY <1>1, <2>2, <3>1 DEF LocksInv, LocksHeld
      <3> QED
        BY <3>2 DEF Holds
    <2> QED
      BY <2>1, <2>2
  <1> QED
    BY <1>1 DEF LocksInv, LocksHeld

\* What the helpers of the callbacks do.
LEMMA AtMoves ==
  ASSUME Shaped, NEW w \in Tabs, NEW pc, At(w, pc)
  PROVE  /\ DOMAIN tabPc' = Tabs
         /\ tabPc'[w] = pc
         /\ \A v \in Tabs \ {w} : tabPc'[v] = tabPc[v]
  BY DEF Shaped, At

LEMMA RedirectMoves ==
  ASSUME Shaped, NEW w \in Tabs, Redirect(w)
  PROVE  /\ DOMAIN tabPc' = Tabs
         /\ tabPc'[w] = "idle"
         /\ DOMAIN act' = Tabs
         /\ \A v \in Tabs : DOMAIN act'[v] = Fields
         /\ \A v \in Tabs \ {w} : tabPc'[v] = tabPc[v] /\ act'[v] = act[v]
  BY DEF Shaped, At, Redirect, Fields

LEMMA LocksMoved ==
  ASSUME Shaped, NEW w, NEW t \in Tables, Take(w, t) \/ Pass(t) \/ Release(t)
  PROVE  /\ DOMAIN mutex' = Tables
         /\ Take(w, t) => mutex'[t] = w
         /\ Pass(t) => mutex'[t] = mutex[t]
         /\ Release(t) => mutex'[t] = NoTab
         /\ \A s \in Tables \ {t} : mutex'[s] = mutex[s]
  BY DEF Shaped, Take, Pass, Release

LEMMA AskKeepsLocks ==
  ASSUME LocksInv, NEW w \in Tabs, NEW what, NEW pc, DOMAIN what = Fields,
         Ask(w, what), At(w, pc)
  PROVE  LocksInv'
  <1>1. /\ DOMAIN act' = Tabs
        /\ \A v \in Tabs : DOMAIN act'[v] = Fields
        /\ \A v \in Tabs \ {w} : act'[v] = act[v]
    BY DEF Ask, LocksInv, Shaped
  <1>2. Shaped' /\ \A v \in Tabs \ {w} : tabPc'[v] = tabPc[v]
    BY <1>1, AtMoves DEF Ask, LocksInv, Shaped
  <1>3. mutex' = mutex /\ \A t \in Tables : ~Holds(w, t)
    BY DEF Ask, Holds
  <1> QED
    BY <1>1, <1>2, <1>3, LocksKept

LEMMA ChangePostsKeepsLocks ==
  ASSUME LocksInv, NEW w \in Tabs, NEW posts, NEW recipient, NEW unlink,
         tabPc[w] = "posts", act[w].kind # "follow",
         ChangePosts(w, posts, recipient, unlink)
  PROVE  LocksInv'
  <1>1. /\ DOMAIN act' = Tabs
        /\ \A v \in Tabs : DOMAIN act'[v] = Fields
        /\ \A v \in Tabs \ {w} : act'[v] = act[v]
    BY DEF ChangePosts, LocksInv, Shaped
  <1>2. act'[w].kind = act[w].kind
    BY DEF ChangePosts, LocksInv, Shaped, Fields, NoAct
  <1>3. PICK pc \in {"save", "notify"} : At(w, pc)
    BY DEF ChangePosts
  <1>4. Take(w, "posts")
    BY DEF ChangePosts
  <1>5. Shaped' /\ \A v \in Tabs \ {w} : tabPc'[v] = tabPc[v]
    BY <1>1, <1>3, <1>4, AtMoves, LocksMoved DEF LocksInv, Shaped, Tables
  <1>6. Holds(w, "posts")'
    BY <1>2, <1>3, AtMoves DEF LocksInv, Holds
  <1>7. mutex'["posts"] = w /\ \A s \in Tables \ {"posts"} : mutex'[s] = mutex[s] /\ ~Holds(w, s)
    BY <1>4, LocksMoved DEF LocksInv, Tables, Holds
  <1> QED
    BY <1>1, <1>5, <1>6, <1>7, LocksKept

LEMMA PostsKeepLocks ==
  ASSUME LocksInv, NEW w \in Tabs,
         AddPost(w) \/ AddComment(w) \/ ToggleLike(w) \/ DeletePost(w) \/ DeleteComment(w)
  PROVE  LocksInv'
  <1>1. /\ tabPc[w] = "posts" /\ act[w].kind # "follow"
        /\ \E posts, recipient, unlink : ChangePosts(w, posts, recipient, unlink)
    <2>1. CASE AddPost(w)
      BY <2>1 DEF AddPost
    <2>2. CASE AddComment(w)
      BY <2>2 DEF AddComment
    <2>3. CASE ToggleLike(w)
      BY <2>3 DEF ToggleLike
    <2>4. CASE DeletePost(w)
      BY <2>4 DEF DeletePost
    <2>5. CASE DeleteComment(w)
      BY <2>5, Zenon DEF DeleteComment
    <2> QED
      BY <2>1, <2>2, <2>3, <2>4, <2>5
  <1> QED
    BY <1>1, ChangePostsKeepsLocks

\* A step to the end of a request.
LEMMA LeavingKeepsLocks ==
  ASSUME LocksInv, NEW w \in Tabs, Redirect(w), DOMAIN mutex' = Tables,
         \A t \in Tables : mutex'[t] = NoTab \/ (mutex'[t] = mutex[t] /\ ~Holds(w, t))
  PROVE  LocksInv'
  <1>1. Shaped' /\ \A v \in Tabs \ {w} : tabPc'[v] = tabPc[v] /\ act'[v] = act[v]
    BY RedirectMoves DEF LocksInv, Shaped
  <1> QED
    BY <1>1, LocksKept

\* A step that stays in the request and keeps what it asks.
LEMMA MovingKeepsLocks ==
  ASSUME LocksInv, NEW w \in Tabs, NEW pc, At(w, pc), DOMAIN mutex' = Tables,
         DOMAIN act' = Tabs, \A v \in Tabs : DOMAIN act'[v] = Fields,
         act'[w].kind = act[w].kind, \A v \in Tabs \ {w} : act'[v] = act[v],
         \A t \in Tables :
           \/ mutex'[t] = NoTab
           \/ mutex'[t] = w /\ Holds(w, t)'
           \/ mutex'[t] = mutex[t] /\ (Holds(w, t) => Holds(w, t)')
  PROVE  LocksInv'
  <1>1. Shaped' /\ \A v \in Tabs \ {w} : tabPc'[v] = tabPc[v] /\ act'[v] = act[v]
    BY AtMoves DEF LocksInv, Shaped
  <1> QED
    BY <1>1, LocksKept

\* What a step that leaves act alone keeps of it.
LEMMA SameAct ==
  ASSUME LocksInv, NEW w \in Tabs, UNCHANGED act
  PROVE  /\ DOMAIN act' = Tabs
         /\ \A v \in Tabs : DOMAIN act'[v] = Fields
         /\ act'[w].kind = act[w].kind
         /\ \A v \in Tabs \ {w} : act'[v] = act[v]
  BY DEF LocksInv, Shaped

\* The only lock a request has is given back.
LEMMA LastReleased ==
  ASSUME LocksInv, NEW w \in Tabs, NEW t \in Tables, Release(t),
         \A s \in Tables \ {t} : ~Holds(w, s)
  PROVE  /\ DOMAIN mutex' = Tables
         /\ \A s \in Tables : mutex'[s] = NoTab \/ (mutex'[s] = mutex[s] /\ ~Holds(w, s))
  <1>1. /\ DOMAIN mutex' = Tables
        /\ mutex'[t] = NoTab
        /\ \A s \in Tables \ {t} : mutex'[s] = mutex[s]
    BY LocksMoved DEF LocksInv
  <1>2. \A s \in Tables \ {t} : mutex'[s] = mutex[s] /\ ~Holds(w, s)
    BY <1>1
  <1> QED
    BY <1>1, <1>2

LEMMA SaveKeepsLocks ==
  ASSUME LocksInv, NEW w \in Tabs, SavePosts(w) \/ MediaDelete(w) PROVE LocksInv'
  <1> USE DEF Tables
  <1>1. CASE MediaDelete(w)
    <2>1. Redirect(w) /\ mutex' = mutex /\ tabPc[w] = "unlink"
      BY <1>1 DEF MediaDelete
    <2> QED
      BY <2>1, LeavingKeepsLocks DEF Holds, LocksInv, Shaped
  <1>2. CASE tabPc[w] = "save" /\ At(w, "save2") /\ UNCHANGED << mutex, act >>
    <2>1. \A t \in Tables : mutex'[t] = mutex[t] /\ (Holds(w, t) => Holds(w, t)')
      BY <1>2, AtMoves DEF Holds, LocksInv
    <2> QED
      BY <1>2, <2>1, SameAct, MovingKeepsLocks DEF LocksInv, Shaped
  <1>3. CASE tabPc[w] = "save2" /\ Release("posts") /\ At(w, "unlink") /\ UNCHANGED act
    <2>1. \A s \in Tables \ {"posts"} : ~Holds(w, s)
      BY <1>3 DEF Holds
    <2>2. /\ DOMAIN mutex' = Tables
          /\ \A s \in Tables : mutex'[s] = NoTab \/ (mutex'[s] = mutex[s] /\ ~Holds(w, s))
      BY <1>3, <2>1, LastReleased
    <2> QED
      BY <1>3, <2>2, SameAct, MovingKeepsLocks
  <1>4. CASE tabPc[w] = "save2" /\ Release("posts") /\ Redirect(w)
    <2>1. \A s \in Tables \ {"posts"} : ~Holds(w, s)
      BY <1>4 DEF Holds
    <2>2. /\ DOMAIN mutex' = Tables
          /\ \A s \in Tables : mutex'[s] = NoTab \/ (mutex'[s] = mutex[s] /\ ~Holds(w, s))
      BY <1>4, <2>1, LastReleased
    <2> QED
      BY <1>4, <2>2, LeavingKeepsLocks
  <1> QED
    BY <1>1, <1>2, <1>3, <1>4 DEF SavePosts

LEMMA RenderKeepsLocks ==
  ASSUME LocksInv, NEW w \in Tabs, RenderPosts(w) PROVE LocksInv'
  <1> USE DEF Tables
  <1>1. ASSUME NEW i, act' = [act EXCEPT ![w].i = i]
        PROVE  /\ DOMAIN act' = Tabs
               /\ \A v \in Tabs : DOMAIN act'[v] = Fields
               /\ act'[w].kind = act[w].kind
               /\ \A v \in Tabs \ {w} : act'[v] = act[v]
    BY <1>1 DEF LocksInv, Shaped, Fields, NoAct
  <1>2. CASE tabPc[w] = "render" /\ Take(w, "posts") /\ At(w, "render2")
             /\ act' = [act EXCEPT ![w].i = Len(store.posts)]
    <2>1. \A t \in Tables : \/ mutex'[t] = w /\ Holds(w, t)'
                            \/ mutex'[t] = mutex[t] /\ ~Holds(w, t)
      BY <1>2, AtMoves, LocksMoved DEF Holds, LocksInv
    <2>2. DOMAIN mutex' = Tables
      BY <1>2, LocksMoved DEF LocksInv
    <2> QED
      BY <1>1, <1>2, <2>1, <2>2, MovingKeepsLocks
  <1>3. CASE tabPc[w] = "render2" /\ Pass("follows") /\ UNCHANGED tabPc
             /\ act' = [act EXCEPT ![w].i = @ - 1]
    <2>1. UNCHANGED << tabPc, mutex >>
      BY <1>3 DEF Pass
    <2>2. /\ act'[w].kind = act[w].kind /\ Shaped'
          /\ \A v \in Tabs \ {w} : act'[v] = act[v]
      BY <1>3, <2>1 DEF LocksInv, Shaped, Fields, NoAct
    <2>3. \A t \in Tables : Holds(w, t) => Holds(w, t)'
      BY <2>1, <2>2 DEF Holds
    <2> QED
      BY <2>1, <2>2, <2>3, LocksKept
  <1>4. CASE tabPc[w] = "render2" /\ Release("posts") /\ Redirect(w)
    <2>1. \A s \in Tables \ {"posts"} : ~Holds(w, s)
      BY <1>4 DEF Holds
    <2>2. /\ DOMAIN mutex' = Tables
          /\ \A s \in Tables : mutex'[s] = NoTab \/ (mutex'[s] = mutex[s] /\ ~Holds(w, s))
      BY <1>4, <2>1, LastReleased
    <2> QED
      BY <1>4, <2>2, LeavingKeepsLocks
  <1> QED
    BY <1>2, <1>3, <1>4 DEF RenderPosts

LEMMA FollowsKeepsLocks ==
  ASSUME LocksInv, NEW w \in Tabs, FollowsToggle(w) PROVE LocksInv'
  <1>1. ASSUME tabPc[w] = "follows", Take(w, "follows"), At(w, "follows2"),
               NEW news, act' = [act EXCEPT ![w].notify = news]
        PROVE  LocksInv'
    <2>1. /\ DOMAIN act' = Tabs
          /\ \A v \in Tabs : DOMAIN act'[v] = Fields
          /\ act'[w].kind = act[w].kind
          /\ \A v \in Tabs \ {w} : act'[v] = act[v]
      BY <1>1 DEF LocksInv, Shaped, Fields, NoAct
    <2>2. \A t \in Tables : \/ mutex'[t] = w /\ Holds(w, t)'
                            \/ mutex'[t] = mutex[t] /\ ~Holds(w, t)
      BY <1>1, AtMoves, LocksMoved DEF Holds, LocksInv, Tables
    <2>3. DOMAIN mutex' = Tables
      BY <1>1, LocksMoved DEF LocksInv, Tables
    <2> QED
      BY <1>1, <2>1, <2>2, <2>3, MovingKeepsLocks
  <1>2. ASSUME tabPc[w] = "follows2", Release("follows"),
               (At(w, "notify") /\ UNCHANGED act) \/ Redirect(w)
        PROVE  LocksInv'
    <2>1. \A s \in Tables \ {"follows"} : ~Holds(w, s)
      BY <1>2 DEF Holds
    <2>2. /\ DOMAIN mutex' = Tables
          /\ \A s \in Tables : mutex'[s] = NoTab \/ (mutex'[s] = mutex[s] /\ ~Holds(w, s))
      BY <1>2, <2>1, LastReleased DEF Tables
    <2>3. CASE At(w, "notify") /\ UNCHANGED act
      BY <2>2, <2>3, SameAct, MovingKeepsLocks
    <2>4. CASE Redirect(w)
      BY <2>2, <2>4, LeavingKeepsLocks
    <2> QED
      BY <1>2, <2>3, <2>4
  <1> QED
    BY <1>1, <1>2 DEF FollowsToggle

LEMMA NotificationKeepsLocks ==
  ASSUME LocksInv, NEW w \in Tabs, NotificationAdd(w) PROVE LocksInv'
  <1>1. CASE tabPc[w] = "notify" /\ Take(w, "notes") /\ At(w, "notify2") /\ UNCHANGED act
    <2>1. \A t \in Tables : \/ mutex'[t] = w /\ Holds(w, t)'
                            \/ mutex'[t] = mutex[t] /\ (Holds(w, t) => Holds(w, t)')
      BY <1>1, AtMoves, LocksMoved DEF Holds, LocksInv, Tables
    <2>2. DOMAIN mutex' = Tables
      BY <1>1, LocksMoved DEF LocksInv, Tables
    <2> QED
      BY <1>1, <2>1, <2>2, SameAct, MovingKeepsLocks
  <1>2. CASE tabPc[w] = "notify2" /\ Release("notes") /\ act[w].kind = "follow" /\ Redirect(w)
    <2>1. \A s \in Tables \ {"notes"} : ~Holds(w, s)
      BY <1>2 DEF Holds
    <2>2. /\ DOMAIN mutex' = Tables
          /\ \A s \in Tables : mutex'[s] = NoTab \/ (mutex'[s] = mutex[s] /\ ~Holds(w, s))
      BY <1>2, <2>1, LastReleased DEF Tables
    <2> QED
      BY <1>2, <2>2, LeavingKeepsLocks
  <1>3. CASE tabPc[w] = "notify2" /\ Release("notes") /\ At(w, "save") /\ UNCHANGED act
    <2>1. /\ mutex'["notes"] = NoTab /\ DOMAIN mutex' = Tables
          /\ \A s \in Tables \ {"notes"} : mutex'[s] = mutex[s]
      BY <1>3, LocksMoved DEF LocksInv, Tables
    <2>2. \A t \in Tables \ {"notes"} : Holds(w, t) => Holds(w, t)'
      BY <1>3, AtMoves DEF Holds, LocksInv, Tables
    <2>3. \A t \in Tables : \/ mutex'[t] = NoTab
                            \/ mutex'[t] = mutex[t] /\ (Holds(w, t) => Holds(w, t)')
      BY <2>1, <2>2
    <2> QED
      BY <1>3, <2>1, <2>3, SameAct, MovingKeepsLocks
  <1> QED
    BY <1>1, <1>2, <1>3 DEF NotificationAdd

LEMMA ReadingKeepsLocks ==
  ASSUME LocksInv, NEW w \in Tabs, RenderNotifications(w) \/ MarkAllSeen(w) PROVE LocksInv'
  <1>1. ASSUME tabPc[w] = "notes", Pass("notes"), At(w, "mark"),
               NEW page, act' = [act EXCEPT ![w].shown = page]
        PROVE  LocksInv'
    <2>1. /\ DOMAIN act' = Tabs
          /\ \A v \in Tabs : DOMAIN act'[v] = Fields
          /\ act'[w].kind = act[w].kind
          /\ \A v \in Tabs \ {w} : act'[v] = act[v]
      BY <1>1 DEF LocksInv, Shaped, Fields, NoAct
    <2>2. mutex' = mutex /\ \A t \in Tables : ~Holds(w, t)
      BY <1>1 DEF Pass, Holds
    <2> QED
      BY <1>1, <2>1, <2>2, MovingKeepsLocks DEF LocksInv, Shaped
  <1>2. CASE tabPc[w] = "mark" /\ Pass("notes") /\ Redirect(w)
    <2>1. mutex' = mutex /\ \A t \in Tables : ~Holds(w, t)
      BY <1>2 DEF Pass, Holds
    <2> QED
      BY <1>2, <2>1, LeavingKeepsLocks DEF LocksInv, Shaped
  <1>3. CASE tabPc[w] = "mark" /\ Take(w, "notes") /\ At(w, "mark2") /\ UNCHANGED act
    <2>1. \A t \in Tables : \/ mutex'[t] = w /\ Holds(w, t)'
                            \/ mutex'[t] = mutex[t] /\ ~Holds(w, t)
      BY <1>3, AtMoves, LocksMoved DEF Holds, LocksInv, Tables
    <2>2. DOMAIN mutex' = Tables
      BY <1>3, LocksMoved DEF LocksInv, Tables
    <2> QED
      BY <1>3, <2>1, <2>2, SameAct, MovingKeepsLocks
  <1>4. CASE tabPc[w] = "mark2" /\ Release("notes") /\ Redirect(w)
    <2>1. \A s \in Tables \ {"notes"} : ~Holds(w, s)
      BY <1>4 DEF Holds
    <2>2. /\ DOMAIN mutex' = Tables
          /\ \A s \in Tables : mutex'[s] = NoTab \/ (mutex'[s] = mutex[s] /\ ~Holds(w, s))
      BY <1>4, <2>1, LastReleased DEF Tables
    <2> QED
      BY <1>4, <2>2, LeavingKeepsLocks
  <1> QED
    BY <1>1, <1>2, <1>3, <1>4 DEF RenderNotifications, MarkAllSeen

\* The process dies and is started again: no lock is held.
LEMMA CrashFreesLocks == SocialCrash => LocksInv'
  <1> SUFFICES ASSUME SocialCrash PROVE LocksInv'
    OBVIOUS
  <1>1. /\ mutex' = [t \in Tables |-> NoTab]
        /\ tabPc' = [w \in Tabs |-> "idle"]
        /\ act' = [w \in Tabs |-> NoAct]
    BY DEF SocialCrash
  <1> QED
    BY <1>1 DEF LocksInv, Shaped, LocksHeld, Fields

LEMMA NothingKeepsLocks ==
  ASSUME LocksInv, NEW w \in Tabs, MediaStore(w) \/ NothingToChange(w) PROVE LocksInv'
  <1>1. CASE MediaStore(w)
    <2>1. /\ tabPc[w] = "media" /\ At(w, "posts") /\ UNCHANGED << mutex, act >>
      BY <1>1 DEF MediaStore
    <2>2. \A t \in Tables : ~Holds(w, t)
      BY <2>1 DEF Holds
    <2> QED
      BY <2>1, <2>2, SameAct, MovingKeepsLocks DEF LocksInv, Shaped
  <1>2. CASE NothingToChange(w)
    <2>1. tabPc[w] = "posts" /\ Redirect(w) /\ UNCHANGED mutex
      BY <1>2 DEF NothingToChange, Pass
    <2>2. \A t \in Tables : ~Holds(w, t)
      BY <2>1 DEF Holds
    <2> QED
      BY <2>1, <2>2, LeavingKeepsLocks DEF LocksInv, Shaped
  <1> QED
    BY <1>1, <1>2

LEMMA CallbacksKeepLocks ==
  ASSUME LocksInv, NEW w \in Tabs,
         PostCallback(w) \/ OnPostCallback(w) \/ OtherCallback(w)
  PROVE  LocksInv'
  <1>1. \E what, pc : DOMAIN what = Fields /\ Ask(w, what) /\ At(w, pc)
    <2>1. CASE PostCallback(w)
      BY <2>1 DEF PostCallback, Fields, NoAct
    <2>2. CASE OnPostCallback(w)
      BY <2>2, Zenon DEF OnPostCallback, Fields, NoAct
    <2>3. CASE OtherCallback(w)
      BY <2>3, Zenon DEF OtherCallback, Fields, NoAct
    <2> QED
      BY <2>1, <2>2, <2>3
  <1> QED
    BY <1>1, AskKeepsLocks

LEMMA NextLocks == LocksInv /\ [Next]_socialVars => LocksInv'
  <1> SUFFICES ASSUME LocksInv, [Next]_socialVars PROVE LocksInv'
    OBVIOUS
  <1>1. CASE UNCHANGED socialVars
    BY <1>1 DEF socialVars, LocksInv, Shaped, LocksHeld, Holds
  <1>2. ASSUME NEW w \in Tabs, Request(w) PROVE LocksInv'
    BY <1>2, PostsKeepLocks, SaveKeepsLocks, RenderKeepsLocks, FollowsKeepsLocks,
       NotificationKeepsLocks, ReadingKeepsLocks, NothingKeepsLocks DEF Request
  <1> QED
    BY <1>1, <1>2, CallbacksKeepLocks, CrashFreesLocks DEF Next


\* Whoever holds an inner lock awaits nothing, so a lock that is awaited comes free.
LEMMA GoesOn == LocksInv => SomebodyGoesOn
  <1> SUFFICES ASSUME LocksInv, NEW w0 \in Tabs, tabPc[w0] # "idle"
               PROVE  SomebodyGoesOn
    BY DEF SomebodyGoesOn
  <1> DEFINE awaits(w) ==
        IF tabPc[w] \in {"posts", "render"} THEN {"posts"}
        ELSE IF tabPc[w] = "follows" \/ (tabPc[w] = "render2" /\ act[w].i > 0)
        THEN {"follows"}
        ELSE IF tabPc[w] \in {"notify", "notes", "mark"} THEN {"notes"} ELSE {}
  <1>1. ASSUME NEW w \in Tabs, tabPc[w] # "idle", \A t \in awaits(w) : mutex[t] = NoTab
        PROVE  SomebodyGoesOn
    BY <1>1 DEF SomebodyGoesOn
  <1> HIDE DEF awaits
  <1>2. CASE mutex["notes"] # NoTab
    <2>1. PICK w \in Tabs : w = mutex["notes"] /\ Holds(w, "notes")
      BY <1>2 DEF LocksInv, LocksHeld, Tables
    <2>2. tabPc[w] \in {"notify2", "mark2"}
      BY <2>1 DEF Holds
    <2> QED
      BY <1>1, <2>2 DEF awaits
  <1>3. CASE mutex["follows"] # NoTab
    <2>1. PICK w \in Tabs : w = mutex["follows"] /\ Holds(w, "follows")
      BY <1>3 DEF LocksInv, LocksHeld, Tables
    <2>2. tabPc[w] = "follows2"
      BY <2>1 DEF Holds
    <2> QED
      BY <1>1, <2>2 DEF awaits
  <1>4. CASE mutex["notes"] = NoTab /\ mutex["follows"] = NoTab /\ mutex["posts"] # NoTab
    <2>1. PICK w \in Tabs : w = mutex["posts"] /\ Holds(w, "posts")
      BY <1>4 DEF LocksInv, LocksHeld, Tables
    <2>2. tabPc[w] \in {"render2", "save", "save2", "notify", "notify2"}
      BY <2>1 DEF Holds
    <2>3. awaits(w) \subseteq {"notes", "follows"}
      BY <2>2 DEF awaits
    <2> QED
      BY <1>1, <1>4, <2>2, <2>3
  <1>5. CASE \A t \in Tables : mutex[t] = NoTab
    <2>1. awaits(w0) \subseteq Tables
      BY DEF awaits, Tables
    <2> QED
      BY <1>1, <1>5, <2>1
  <1> QED
    BY <1>2, <1>3, <1>4, <1>5 DEF Tables

-----------------------------------------------------------------------------
(* Social: the uploads of posts *)

PostFields == {"id", "author", "wall", "media", "likes", "comments"}

Media(s) == {s[i].media : i \in 1 .. Len(s)} \ {0}

\* A list of posts, of which no two have the same upload.
PostList(s) ==
  /\ IsSeq(s)
  /\ \A i \in 1 .. Len(s) : DOMAIN s[i] = PostFields /\ s[i].media \in Nat
  /\ \A i, k \in 1 .. Len(s) : s[i].media = s[k].media /\ s[i].media # 0 => i = k

PostLists ==
  /\ DOMAIN store = Tables /\ DOMAIN disk = Tables
  /\ PostList(store.posts) /\ PostList(disk.posts)
  /\ Media(store.posts) \cup Media(disk.posts) \subseteq uploads

\* A post that is on its way has the number of its request to itself, and numbers are
\* not given again.
Uploader(w) == tabPc[w] \in {"media", "posts"} /\ act[w].kind = "post"

Numbered ==
  /\ deeds \in Nat
  /\ \A m \in Media(store.posts) \cup Media(disk.posts) : m <= deeds
  /\ \A w \in Tabs : act[w].n \in 0 .. deeds /\ act[w].unlink \in 0 .. deeds

OwnNumber(w) ==
  Uploader(w) =>
    /\ act[w].n # 0 /\ act[w].n \notin Media(store.posts) \cup Media(disk.posts)
    /\ \A v \in Tabs : act[v].unlink # act[w].n
    /\ \A v \in Tabs \ {w} : Uploader(v) => act[v].n # act[w].n

\* An upload that will go has left the posts, and before it goes the file.
Doomed(w) ==
  /\ act[w].unlink \notin Media(store.posts)
  /\ tabPc[w] = "unlink" => act[w].unlink \notin Media(disk.posts)

UploadsInv == PostLists /\ Numbered /\ \A w \in Tabs : OwnNumber(w) /\ Doomed(w)

LEMMA InitUploads == Init => UploadsInv
  <1> SUFFICES ASSUME Init PROVE UploadsInv
    OBVIOUS
  <1>1. /\ DOMAIN store = Tables /\ DOMAIN disk = Tables
        /\ store.posts = << >> /\ disk.posts = << >>
    BY DEF Init, Tables
  <1>2. Len(<< >>) = 0 /\ IsSeq(<< >>)
    BY DEF IsSeq
  <1>3. PostLists /\ Media(<< >>) = {}
    BY <1>1, <1>2 DEF PostLists, PostList, Media
  <1>4. \A w \in Tabs : tabPc[w] = "idle" /\ act[w].n = 0 /\ act[w].unlink = 0
    BY DEF Init, NoAct
  <1>5. Numbered
    BY <1>1, <1>3, <1>4 DEF Numbered, Init
  <1>6. \A w \in Tabs : OwnNumber(w) /\ Doomed(w)
    BY <1>1, <1>3, <1>4 DEF OwnNumber, Doomed, Uploader
  <1> QED
    BY <1>3, <1>5, <1>6 DEF UploadsInv

\* A step of one request, of which the posts have at most one new upload, its own.
LEMMA UploadsKept ==
  ASSUME UploadsInv, NEW w \in Tabs, PostLists', deeds' = deeds,
         \A v \in Tabs \ {w} : tabPc'[v] = tabPc[v] /\ act'[v] = act[v],
         Uploader(w)' => Uploader(w),
         act'[w].n \in {0, act[w].n}, Uploader(w)' => act'[w].n = act[w].n,
         NEW new, new = {} \/ (new = {act[w].n} /\ Uploader(w) /\ ~Uploader(w)'),
         Media(store'.posts) \subseteq Media(store.posts) \cup new,
         Media(disk'.posts) \subseteq Media(disk.posts) \/ Media(disk'.posts) \subseteq Media(store.posts),
         \/ act'[w].unlink \in {0, act[w].unlink}
         \/ act'[w].unlink \in Media(store.posts) \ Media(store'.posts),
         tabPc'[w] = "unlink" => act'[w].unlink \notin Media(disk'.posts)
  PROVE  UploadsInv'
  <1> DEFINE M == Media(store.posts)
             D == Media(disk.posts)
             M1 == Media(store'.posts)
             D1 == Media(disk'.posts)
  <1>1. /\ Numbered /\ \A v \in Tabs : OwnNumber(v) /\ Doomed(v)
        /\ \A m \in M \cup D : m \in Nat /\ m # 0
    <2>1. Numbered /\ \A v \in Tabs : OwnNumber(v) /\ Doomed(v)
      BY DEF UploadsInv
    <2>2. \A m \in M \cup D : m \in Nat /\ m # 0
      BY DEF UploadsInv, PostLists, PostList, Media
    <2> QED
      BY <2>1, <2>2
  <1>2. 0 \notin M1 \cup D1
    BY DEF Media
  <1> HIDE DEF M, D, M1, D1
  <1>3. M = Media(store.posts) /\ D = Media(disk.posts) /\ M1 = Media(store'.posts) /\ D1 = Media(disk'.posts)
    BY DEF M, D, M1, D1
  <1>4. /\ M1 \subseteq M \cup new /\ (D1 \subseteq D \/ D1 \subseteq M)
        /\ act'[w].unlink \in {0, act[w].unlink} \/ act'[w].unlink \in M \ M1
    BY <1>3
  <1>5. Numbered'
    <2>1. \A m \in M1 \cup D1 : m <= deeds
      BY <1>1, <1>3, <1>4 DEF Numbered
    <2>2. act'[w].n \in 0 .. deeds
      BY <1>1 DEF Numbered
    <2>3. act'[w].unlink \in 0 .. deeds
      BY <1>1, <1>3, <1>4 DEF Numbered
    <2>4. \A v \in Tabs \ {w} : act'[v].n \in 0 .. deeds /\ act'[v].unlink \in 0 .. deeds
      BY <1>1 DEF Numbered
    <2> QED
      BY <1>1, <1>3, <2>1, <2>2, <2>3, <2>4 DEF Numbered, Media
  <1>6. ASSUME NEW v \in Tabs, Uploader(v)'
        PROVE  /\ Uploader(v) /\ act'[v].n = act[v].n /\ act'[v].n # 0
               /\ act'[v].n \notin M1 \cup D1
    <2>1. Uploader(v) /\ act'[v].n = act[v].n
      BY <1>6 DEF Uploader
    <2>2. act[v].n # 0 /\ act[v].n \notin M \cup D
      BY <1>1, <1>3, <2>1 DEF OwnNumber
    <2>3. act[v].n \notin new
      BY <1>1, <1>6, <2>1 DEF OwnNumber
    <2> QED
      BY <1>4, <2>1, <2>2, <2>3
  <1>7. ASSUME NEW v \in Tabs, Uploader(v)', NEW u \in Tabs
        PROVE  act'[u].unlink # act'[v].n /\ (u # v /\ Uploader(u)' => act'[u].n # act'[v].n)
    <2>1. Uploader(v) /\ act'[v].n = act[v].n /\ act[v].n # 0 /\ act[v].n \notin M
      BY <1>1, <1>3, <1>6, <1>7 DEF OwnNumber
    <2>2. act'[u].unlink # act[v].n
      <3>1. act[u].unlink # act[v].n
        BY <1>1, <2>1 DEF OwnNumber
      <3>2. CASE u = w
        BY <1>4, <2>1, <3>1, <3>2
      <3>3. CASE u # w
        BY <3>1, <3>3
      <3> QED
        BY <3>2, <3>3
    <2>3. u # v /\ Uploader(u)' => act'[u].n # act[v].n
      BY <1>1, <1>6, <2>1 DEF OwnNumber
    <2> QED
      BY <2>1, <2>2, <2>3
  <1>8. ASSUME NEW v \in Tabs
        PROVE  OwnNumber(v)'
    BY <1>3, <1>6, <1>7 DEF OwnNumber, Media
  <1>9. ASSUME NEW v \in Tabs
        PROVE  Doomed(v)'
    <2>1. act[v].unlink \notin M /\ act[v].unlink \notin new
      BY <1>1, <1>3 DEF Doomed, OwnNumber
    <2>2. act'[v].unlink \notin M1
      <3>1. CASE v = w
        BY <1>2, <1>4, <2>1, <3>1
      <3>2. CASE v # w
        BY <1>4, <2>1, <3>2
      <3> QED
        BY <3>1, <3>2
    <2>3. tabPc'[v] = "unlink" => act'[v].unlink \notin D1
      <3>1. CASE v = w
        BY <1>3, <3>1
      <3>2. CASE v # w
        BY <1>1, <1>3, <1>4, <2>1, <3>2 DEF Doomed
      <3> QED
        BY <3>1, <3>2
    <2> QED
      BY <1>3, <2>2, <2>3 DEF Doomed, Media
  <1> QED
    BY <1>5, <1>8, <1>9 DEF UploadsInv

LEMMA AskKeepsUploads ==
  ASSUME UploadsInv, Shaped, NEW w \in Tabs, NEW what, NEW pc, DOMAIN what = Fields,
         what.unlink = 0, Ask(w, what), At(w, pc), pc # "unlink"
  PROVE  UploadsInv'
  <1>1. /\ UNCHANGED << store, disk, uploads >> /\ deeds' = deeds + 1 /\ tabPc[w] = "idle"
        /\ act'[w].n = deeds + 1 /\ act'[w].unlink = 0
        /\ \A v \in Tabs \ {w} : act'[v] = act[v]
    BY DEF Ask, Shaped, Fields, NoAct
  <1>2. tabPc'[w] = pc /\ \A v \in Tabs \ {w} : tabPc'[v] = tabPc[v]
    BY AtMoves
  <1>3. PostLists' /\ Media(store.posts)' = Media(store.posts) /\ Media(disk.posts)' = Media(disk.posts)
    BY <1>1 DEF UploadsInv, PostLists, PostList, IsSeq, Media
  <1>4. deeds \in Nat /\ \A m \in Media(store.posts) \cup Media(disk.posts) : m \in Nat /\ m <= deeds
    BY DEF UploadsInv, Numbered, PostLists, PostList, Media
  <1>5. \A v \in Tabs : act[v].n \in 0 .. deeds /\ act[v].unlink \in 0 .. deeds
    BY DEF UploadsInv, Numbered
  <1>6. Numbered'
    BY <1>1, <1>3, <1>4, <1>5 DEF Numbered
  <1>7. ASSUME NEW v \in Tabs
        PROVE  OwnNumber(v)'
    <2>1. CASE v = w
      BY <1>1, <1>3, <1>4, <1>5, <2>1 DEF OwnNumber, Uploader
    <2>2. CASE v # w
      BY <1>1, <1>2, <1>3, <1>4, <1>5, <2>2 DEF UploadsInv, OwnNumber, Uploader
    <2> QED
      BY <2>1, <2>2
  <1>8. ASSUME NEW v \in Tabs
        PROVE  Doomed(v)'
    <2>1. 0 \notin Media(store.posts)
      BY DEF Media
    <2> QED
      BY <1>1, <1>2, <1>3, <2>1 DEF UploadsInv, Doomed
  <1> QED
    BY <1>3, <1>6, <1>7, <1>8 DEF UploadsInv

\* A step that leaves the posts, and their file, alone.
LEMMA AsideKeepsUploads ==
  ASSUME UploadsInv, NEW w \in Tabs, DOMAIN store' = Tables, DOMAIN disk' = Tables,
         store'.posts = store.posts, disk'.posts = disk.posts,
         uploads \subseteq uploads', deeds' = deeds,
         \A v \in Tabs \ {w} : tabPc'[v] = tabPc[v] /\ act'[v] = act[v],
         act'[w].n \in {0, act[w].n}, act'[w].unlink \in {0, act[w].unlink},
         Uploader(w)' => Uploader(w) /\ act'[w].n = act[w].n,
         tabPc'[w] # "unlink"
  PROVE  UploadsInv'
  <1>1. /\ Media(store'.posts) = Media(store.posts) /\ Media(disk'.posts) = Media(disk.posts)
        /\ PostLists'
    BY DEF UploadsInv, PostLists, PostList, IsSeq, Media
  <1>2. {} = {} \/ ({} = {act[w].n} /\ Uploader(w) /\ ~Uploader(w)')
    OBVIOUS
  <1> QED
    BY <1>1, <1>2, UploadsKept

\* What a request that comes to its end leaves behind.
LEMMA LeavingIsClean ==
  ASSUME Shaped, NEW w \in Tabs, Redirect(w)
  PROVE  /\ act'[w].n = 0 /\ act'[w].unlink = 0 /\ tabPc'[w] = "idle" /\ ~Uploader(w)'
         /\ \A v \in Tabs \ {w} : tabPc'[v] = tabPc[v] /\ act'[v] = act[v]
  BY RedirectMoves DEF Redirect, Shaped, NoAct, Uploader

\* A step to where no upload is on its way, that may change what the act shows.
LEMMA MovingKeepsUploads ==
  ASSUME UploadsInv, NEW w \in Tabs, tabPc'[w] \notin {"media", "posts", "unlink"},
         \A v \in Tabs \ {w} : tabPc'[v] = tabPc[v],
         DOMAIN store' = Tables, DOMAIN disk' = Tables,
         store'.posts = store.posts, disk'.posts = disk.posts, UNCHANGED << uploads, deeds >>,
         act'[w].n = act[w].n, act'[w].unlink = act[w].unlink,
         \A v \in Tabs \ {w} : act'[v] = act[v]
  PROVE  UploadsInv'
  <1>1. ~Uploader(w)'
    BY DEF Uploader
  <1> QED
    BY <1>1, AsideKeepsUploads

LEMMA EndingKeepsUploads ==
  ASSUME UploadsInv, Shaped, NEW w \in Tabs, Redirect(w),
         DOMAIN store' = Tables, DOMAIN disk' = Tables,
         store'.posts = store.posts, disk'.posts = disk.posts, UNCHANGED << uploads, deeds >>
  PROVE  UploadsInv'
  BY LeavingIsClean, AsideKeepsUploads

LEMMA MediaStoreKeepsUploads ==
  ASSUME UploadsInv, Shaped, NEW w \in Tabs, MediaStore(w)
  PROVE  UploadsInv'
  <1>1. /\ tabPc[w] = "media" /\ uploads \subseteq uploads'
        /\ UNCHANGED << store, disk, deeds, act >> /\ At(w, "posts")
    BY DEF MediaStore, counts
  <1>2. tabPc'[w] = "posts" /\ \A v \in Tabs \ {w} : tabPc'[v] = tabPc[v]
    BY <1>1, AtMoves
  <1>3. Uploader(w)' => Uploader(w)
    BY <1>1 DEF Uploader
  <1>4. DOMAIN store' = Tables /\ DOMAIN disk' = Tables
    BY <1>1 DEF UploadsInv, PostLists
  <1> QED
    BY <1>1, <1>2, <1>3, <1>4, AsideKeepsUploads

LEMMA AwayFromPosts ==
  ASSUME UploadsInv, Shaped, NEW w \in Tabs,
         RenderPosts(w) \/ FollowsToggle(w) \/ NotificationAdd(w) \/ RenderNotifications(w)
           \/ MarkAllSeen(w) \/ NothingToChange(w)
  PROVE  UploadsInv'
  <1>1. /\ DOMAIN store' = Tables /\ DOMAIN disk' = Tables
        /\ store'.posts = store.posts /\ disk'.posts = disk.posts /\ UNCHANGED << uploads, deeds >>
    <2>1. DOMAIN store = Tables /\ DOMAIN disk = Tables
      BY DEF UploadsInv, PostLists
    <2>2. CASE RenderPosts(w) \/ RenderNotifications(w)
      BY <2>1, <2>2 DEF RenderPosts, RenderNotifications, counts
    <2>6. CASE NothingToChange(w)
      BY <2>1, <2>6, Zenon DEF NothingToChange, counts
    <2>3. CASE FollowsToggle(w)
      BY <2>1, <2>3 DEF FollowsToggle, counts, Tables
    <2>4. CASE NotificationAdd(w)
      BY <2>1, <2>4 DEF NotificationAdd, counts, Tables
    <2>5. CASE MarkAllSeen(w)
      BY <2>1, <2>5 DEF MarkAllSeen, counts, Tables
    <2> QED
      BY <2>2, <2>3, <2>4, <2>5, <2>6
  <1>2. DOMAIN act = Tabs /\ DOMAIN act[w] = Fields
    BY DEF Shaped
  <1>3. \/ Redirect(w)
        \/ /\ \/ \E pc : At(w, pc) /\ pc \notin {"media", "posts", "unlink"}
              \/ UNCHANGED tabPc /\ tabPc[w] = "render2"
           /\ act'[w].n = act[w].n /\ act'[w].unlink = act[w].unlink
           /\ \A v \in Tabs \ {w} : act'[v] = act[v]
    <2>1. CASE RenderPosts(w)
      <3>1. \/ Redirect(w)
            \/ At(w, "render2") /\ act' = [act EXCEPT ![w].i = Len(store.posts)]
            \/ UNCHANGED tabPc /\ tabPc[w] = "render2" /\ act' = [act EXCEPT ![w].i = @ - 1]
        BY <2>1 DEF RenderPosts
      <3> QED
        BY <1>2, <3>1 DEF Fields, NoAct
    <2>2. CASE FollowsToggle(w)
      BY <1>2, <2>2 DEF FollowsToggle, Fields, NoAct
    <2>3. CASE NotificationAdd(w)
      BY <1>2, <2>3 DEF NotificationAdd
    <2>4. CASE RenderNotifications(w)
      BY <1>2, <2>4 DEF RenderNotifications, Fields, NoAct
    <2>5. CASE MarkAllSeen(w)
      BY <1>2, <2>5 DEF MarkAllSeen
    <2>6. CASE NothingToChange(w)
      BY <2>6 DEF NothingToChange
    <2> QED
      BY <2>1, <2>2, <2>3, <2>4, <2>5, <2>6
  <1>4. CASE Redirect(w)
    BY <1>1, <1>4, EndingKeepsUploads
  <1>5. CASE ~Redirect(w)
    <2>1. tabPc'[w] \notin {"media", "posts", "unlink"} /\ \A v \in Tabs \ {w} : tabPc'[v] = tabPc[v]
      BY <1>3, <1>5, AtMoves
    <2> QED
      BY <1>1, <1>3, <1>5, <2>1, MovingKeepsUploads
  <1> QED
    BY <1>4, <1>5

LEMMA SaveKeepsUploads ==
  ASSUME UploadsInv, Shaped, NEW w \in Tabs, SavePosts(w) \/ MediaDelete(w)
  PROVE  UploadsInv'
  <1>1. /\ UNCHANGED << store, deeds >>
        /\ DOMAIN store = Tables /\ DOMAIN disk = Tables /\ PostList(store.posts)
        /\ Media(store.posts) \cup Media(disk.posts) \subseteq uploads
    BY DEF SavePosts, MediaDelete, counts, UploadsInv, PostLists
  <1>2. Media(store'.posts) \subseteq Media(store.posts) \cup {}
    BY <1>1
  <1>3. act[w].unlink \notin Media(store.posts) /\ 0 \notin Media(store.posts) /\ 0 \notin Media(disk.posts)
    BY DEF UploadsInv, Doomed, Media
  <1>4. {} = {} \/ ({} = {act[w].n} /\ Uploader(w) /\ ~Uploader(w)')
    OBVIOUS
  <1>5. CASE SavePosts(w)
    <2>1. /\ uploads' = uploads /\ DOMAIN disk' = Tables
          /\ disk'.posts = << >> \/ disk'.posts = store.posts
      BY <1>1, <1>5 DEF SavePosts, Tables
    <2>2. Len(<< >>) = 0 /\ IsSeq(<< >>)
      BY DEF IsSeq
    <2>3. PostList(<< >>) /\ Media(<< >>) = {}
      BY <2>2 DEF PostList, Media
    <2>4. PostList(disk'.posts) /\ Media(disk'.posts) \subseteq Media(store.posts)
      BY <1>1, <2>1, <2>3
    <2>5. PostLists'
      BY <1>1, <2>1, <2>4 DEF PostLists, PostList, Media, IsSeq
    <2>6. CASE Redirect(w)
      <3>1. act'[w].n \in {0, act[w].n} /\ act'[w].unlink \in {0, act[w].unlink} /\ ~Uploader(w)'
            /\ tabPc'[w] # "unlink" /\ \A v \in Tabs \ {w} : tabPc'[v] = tabPc[v] /\ act'[v] = act[v]
        BY <2>6, LeavingIsClean
      <3> QED
        BY <1>1, <1>2, <1>4, <2>4, <2>5, <3>1, UploadsKept
    <2>7. CASE \E pc \in {"save2", "unlink"} : At(w, pc) /\ UNCHANGED act
      <3>1. PICK pc \in {"save2", "unlink"} : At(w, pc) /\ UNCHANGED act
        BY <2>7
      <3>2. tabPc'[w] = pc /\ \A v \in Tabs \ {w} : tabPc'[v] = tabPc[v] /\ act'[v] = act[v]
        BY <3>1, AtMoves
      <3>3. ~Uploader(w)' /\ act'[w].unlink \notin Media(disk'.posts)
        BY <1>3, <2>4, <3>1, <3>2 DEF Uploader
      <3>4. act'[w].n \in {0, act[w].n} /\ act'[w].unlink \in {0, act[w].unlink}
        BY <3>1
      <3> QED
        BY <1>1, <1>2, <1>4, <2>4, <2>5, <3>2, <3>3, <3>4, UploadsKept
    <2> QED
      BY <1>5, <2>6, <2>7 DEF SavePosts
  <1>6. CASE MediaDelete(w)
    <2>1. uploads' = uploads \ {act[w].unlink} /\ disk' = disk /\ Redirect(w) /\ tabPc[w] = "unlink"
      BY <1>6 DEF MediaDelete
    <2>2. act[w].unlink \notin Media(disk.posts)
      BY <2>1 DEF UploadsInv, Doomed
    <2>3. PostLists'
      BY <1>1, <1>3, <2>1, <2>2 DEF UploadsInv, PostLists, PostList, Media, IsSeq
    <2>4. act'[w].n \in {0, act[w].n} /\ act'[w].unlink \in {0, act[w].unlink} /\ ~Uploader(w)'
          /\ tabPc'[w] # "unlink" /\ \A v \in Tabs \ {w} : tabPc'[v] = tabPc[v] /\ act'[v] = act[v]
      BY <2>1, LeavingIsClean
    <2>5. Media(disk'.posts) \subseteq Media(disk.posts)
      BY <2>1
    <2> QED
      BY <1>1, <1>2, <1>4, <2>3, <2>4, <2>5, UploadsKept
  <1> QED
    BY <1>5, <1>6

LEMMA ChangePostsKeepsUploads ==
  ASSUME UploadsInv, Shaped, NEW w \in Tabs, NEW posts, NEW recipient, NEW unlink,
         ChangePosts(w, posts, recipient, unlink), deeds' = deeds, PostList(posts),
         NEW new, new = {} \/ (new = {act[w].n} /\ Uploader(w)),
         Media(posts) \subseteq Media(store.posts) \cup new, Media(posts) \subseteq uploads,
         unlink = 0 \/ unlink \in Media(store.posts) \ Media(posts)
  PROVE  UploadsInv'
  <1>1. /\ store' = [store EXCEPT !.posts = posts] /\ UNCHANGED << disk, uploads >>
        /\ DOMAIN store = Tables
    BY DEF ChangePosts, UploadsInv, PostLists
  <1>2. /\ act'[w].n = act[w].n /\ act'[w].unlink = unlink
        /\ \A v \in Tabs \ {w} : act'[v] = act[v]
    BY DEF ChangePosts, Shaped, Fields, NoAct
  <1>3. PICK pc \in {"save", "notify"} : At(w, pc)
    BY DEF ChangePosts
  <1>4. tabPc'[w] = pc /\ \A v \in Tabs \ {w} : tabPc'[v] = tabPc[v]
    BY <1>3, AtMoves
  <1>5. ~Uploader(w)' /\ tabPc'[w] # "unlink"
    BY <1>3, <1>4 DEF Uploader
  <1>6. store'.posts = posts /\ DOMAIN store' = Tables /\ disk'.posts = disk.posts
    BY <1>1 DEF Tables
  <1>7. PostLists'
    <2>1. PostList(store.posts)' /\ PostList(disk.posts)'
      BY <1>6 DEF PostList, IsSeq, Media, UploadsInv, PostLists
    <2>2. Media(store.posts)' = Media(posts) /\ Media(disk.posts)' = Media(disk.posts)
      BY <1>6 DEF Media
    <2> QED
      BY <1>1, <1>6, <2>1, <2>2 DEF UploadsInv, PostLists
  <1>8. new = {} \/ (new = {act[w].n} /\ Uploader(w) /\ ~Uploader(w)')
    BY <1>5
  <1>9. /\ Media(store'.posts) \subseteq Media(store.posts) \cup new
        /\ Media(disk'.posts) \subseteq Media(disk.posts)
        /\ act'[w].unlink \in {0, act[w].unlink}
             \/ act'[w].unlink \in Media(store.posts) \ Media(store'.posts)
    BY <1>2, <1>6
  <1> QED
    BY <1>2, <1>4, <1>5, <1>7, <1>8, <1>9, UploadsKept

\* A post that is changed where it is keeps its upload.
LEMMA SameUploads ==
  ASSUME NEW s, PostList(s), NEW k \in 1 .. Len(s), NEW post, DOMAIN post = PostFields,
         post.media = s[k].media
  PROVE  PostList([s EXCEPT ![k] = post]) /\ Media([s EXCEPT ![k] = post]) = Media(s)
  <1> DEFINE r == [s EXCEPT ![k] = post]
  <1>1. Len(s) \in Nat /\ DOMAIN s = 1 .. Len(s) /\ IsSeq(s)
    BY DEF PostList, IsSeq
  <1>2. DOMAIN r = 1 .. Len(s) /\ r = [i \in DOMAIN r |-> r[i]]
    BY <1>1
  <1>3. Len(r) = Len(s)
    BY <1>1, <1>2, MapIsASequence
  <1>4. \A i \in 1 .. Len(s) : DOMAIN r[i] = PostFields /\ r[i].media = s[i].media
    BY <1>1 DEF PostList
  <1> HIDE DEF r
  <1>5. IsSeq(r)
    BY <1>1, <1>2, <1>3 DEF IsSeq
  <1>6. PostList(r) /\ Media(r) = Media(s)
    BY <1>1, <1>3, <1>4, <1>5 DEF PostList, Media
  <1> QED
    BY <1>6 DEF r

LEMMA DroppedPosts ==
  ASSUME NEW s, PostList(s), NEW k \in 1 .. Len(s), NEW r, r = RemoveAt(s, k)
  PROVE  /\ PostList(r) /\ Media(r) \subseteq Media(s)
         /\ s[k].media = 0 \/ s[k].media \in Media(s) \ Media(r)
  <1>1. IsSeq(r) /\ WithoutOne(s, k, r)
    BY OneIsRemoved DEF PostList
  <1>2. PICK at : /\ \A i \in 1 .. Len(r) : at[i] \in 1 .. Len(s) /\ at[i] # k /\ r[i] = s[at[i]]
                  /\ \A i, m \in 1 .. Len(r) : at[i] = at[m] => i = m
    BY <1>1 DEF WithoutOne
  <1>3. PostList(r)
    <2>1. \A i \in 1 .. Len(r) : DOMAIN r[i] = PostFields /\ r[i].media \in Nat
      BY <1>2 DEF PostList
    <2>2. ASSUME NEW i \in 1 .. Len(r), NEW m \in 1 .. Len(r),
                 r[i].media = r[m].media, r[i].media # 0
          PROVE  i = m
      <3>1. /\ at[i] \in 1 .. Len(s) /\ at[m] \in 1 .. Len(s)
            /\ s[at[i]].media = s[at[m]].media /\ s[at[i]].media # 0
        BY <1>2, <2>2
      <3>2. at[i] = at[m]
        BY <3>1 DEF PostList
      <3> QED
        BY <1>2, <3>2
    <2> QED
      BY <1>1, <1>2, <2>1, <2>2 DEF PostList
  <1>4. Media(r) \subseteq Media(s)
    BY <1>2 DEF Media
  <1>5. s[k].media # 0 => s[k].media \notin Media(r)
    BY <1>2, SMTT(20) DEF Media, PostList
  <1> QED
    BY <1>3, <1>4, <1>5 DEF Media

LEMMA TailOfPosts ==
  ASSUME NEW s, PostList(s), Len(s) >= 1
  PROVE  PostList(Tail(s)) /\ Media(Tail(s)) \subseteq Media(s)
  <1> DEFINE S == {s[i] : i \in 1 .. Len(s)}
             r == Tail(s)
  <1>1. s \in Seq(S) /\ Len(s) \in Nat
    <2>1. \A i \in 1 .. Len(s) : s[i] \in S
      OBVIOUS
    <2> QED
      BY <2>1, ItIsASequence DEF PostList, IsSeq
  <1> HIDE DEF S
  <1>2. r \in Seq(S) /\ Len(r) = Len(s) - 1 /\ \A i \in 1 .. Len(s) - 1 : r[i] = s[i + 1]
    BY <1>1
  <1> HIDE DEF r
  <1>3. IsSeq(r)
    BY <1>2, SequencesAre
  <1>4. \A i \in 1 .. Len(r) : i + 1 \in 1 .. Len(s) /\ r[i] = s[i + 1]
    BY <1>1, <1>2
  <1>5. ASSUME NEW i \in 1 .. Len(r), NEW m \in 1 .. Len(r), r[i].media = r[m].media, r[i].media # 0
        PROVE  i = m
    <2>1. i + 1 = m + 1
      BY <1>4, <1>5 DEF PostList
    <2> QED
      BY <1>1, <1>2, <2>1
  <1>6. PostList(r)
    BY <1>3, <1>4, <1>5 DEF PostList
  <1>7. Media(r) \subseteq Media(s)
    BY <1>4 DEF Media
  <1> QED
    BY <1>6, <1>7 DEF r

LEMMA AppendedPosts ==
  ASSUME NEW s, PostList(s), NEW post, DOMAIN post = PostFields, post.media \in Nat,
         post.media \notin Media(s)
  PROVE  PostList(Append(s, post)) /\ Media(Append(s, post)) \subseteq Media(s) \cup ({post.media} \ {0})
  <1> DEFINE S == {s[i] : i \in 1 .. Len(s)} \cup {post}
             r == Append(s, post)
  <1>1. s \in Seq(S) /\ Len(s) \in Nat
    <2>1. \A i \in 1 .. Len(s) : s[i] \in S
      OBVIOUS
    <2> QED
      BY <2>1, ItIsASequence DEF PostList, IsSeq
  <1>2. post \in S
    OBVIOUS
  <1> HIDE DEF S
  <1>3. /\ r \in Seq(S) /\ Len(r) = Len(s) + 1
        /\ \A i \in 1 .. Len(s) : r[i] = s[i]
        /\ r[Len(s) + 1] = post
    BY <1>1, <1>2
  <1> HIDE DEF r
  <1>4. IsSeq(r)
    BY <1>3, SequencesAre
  <1>5. \A i \in 1 .. Len(r) : i \in 1 .. Len(s) \/ i = Len(s) + 1
    BY <1>1, <1>3
  <1>6. \A i \in 1 .. Len(r) : DOMAIN r[i] = PostFields /\ r[i].media \in Nat
    BY <1>3, <1>5 DEF PostList
  <1>7. ASSUME NEW i \in 1 .. Len(r), NEW m \in 1 .. Len(r), r[i].media = r[m].media, r[i].media # 0
        PROVE  i = m
    <2>1. \A k \in 1 .. Len(s) : r[k].media # 0 => r[k].media # post.media
      BY <1>3 DEF Media
    <2>2. CASE i \in 1 .. Len(s) /\ m \in 1 .. Len(s)
      BY <1>3, <1>7, <2>2 DEF PostList
    <2>3. CASE ~(i \in 1 .. Len(s) /\ m \in 1 .. Len(s))
      BY <1>3, <1>5, <1>7, <2>1, <2>3
    <2> QED
      BY <2>2, <2>3
  <1>8. PostList(r)
    BY <1>4, <1>6, <1>7 DEF PostList
  <1>9. Media(r) \subseteq Media(s) \cup ({post.media} \ {0})
    BY <1>3, <1>5 DEF Media
  <1> QED
    BY <1>8, <1>9 DEF r

\* A new post: a full wall drops its oldest one.
LEMMA AddPostKeepsUploads ==
  ASSUME UploadsInv, Shaped, NEW w \in Tabs, AddPost(w)
  PROVE  UploadsInv'
  <1> DEFINE n    == act[w].n
             s    == store.posts
             kept == IF Len(s) >= MAX_POSTS THEN Tail(s) ELSE s
             post == [id |-> nextPostID, author |-> act[w].who, wall |-> act[w].other,
                      media |-> IF n \in uploads THEN n ELSE 0, likes |-> {}, comments |-> << >>]
  <1>1. /\ ChangePosts(w, Append(kept, post), act[w].other, 0) /\ deeds' = deeds
        /\ tabPc[w] = "posts" /\ act[w].kind = "post"
    BY DEF AddPost, ChangePosts, counts
  <1>2. /\ Uploader(w) /\ n \in Nat /\ n # 0 /\ n \notin Media(s)
        /\ PostList(s) /\ Media(s) \subseteq uploads
    BY <1>1 DEF UploadsInv, PostLists, Numbered, OwnNumber, Uploader
  <1>3. PostList(kept) /\ Media(kept) \subseteq Media(s)
    <2>1. CASE Len(s) >= MAX_POSTS
      <3>1. Len(s) \in Nat
        BY <1>2 DEF PostList, IsSeq
      <3>2. Len(s) >= 1
        BY <2>1, <3>1, PostsAssumption
      <3> QED
        BY <1>2, <2>1, <3>2, TailOfPosts
    <2>2. CASE ~(Len(s) >= MAX_POSTS)
      BY <1>2, <2>2
    <2> QED
      BY <2>1, <2>2
  <1>4. /\ DOMAIN post = PostFields /\ post.media \in Nat /\ post.media \in {0, n}
        /\ post.media # 0 => post.media \in uploads
    BY <1>2 DEF PostFields
  <1>5. post.media \notin Media(kept)
    BY <1>2, <1>3, <1>4 DEF Media
  <1> HIDE DEF post, kept
  <1>6. /\ PostList(Append(kept, post))
        /\ Media(Append(kept, post)) \subseteq Media(kept) \cup ({post.media} \ {0})
    BY <1>3, <1>4, <1>5, AppendedPosts
  <1>7. /\ Media(Append(kept, post)) \subseteq Media(s) \cup {n}
        /\ Media(Append(kept, post)) \subseteq uploads
    BY <1>2, <1>3, <1>4, <1>6
  <1>8. {n} = {} \/ ({n} = {act[w].n} /\ Uploader(w))
    BY <1>2
  <1>9. \E r : r = Append(kept, post) /\ ChangePosts(w, r, act[w].other, 0)
    BY <1>1 DEF post, kept
  <1> QED
    BY <1>1, <1>6, <1>7, <1>8, <1>9, ChangePostsKeepsUploads

\* A comment or a like comes or goes.
LEMMA OnPostKeepsUploads ==
  ASSUME UploadsInv, Shaped, NEW w \in Tabs, AddComment(w) \/ ToggleLike(w) \/ DeleteComment(w)
  PROVE  UploadsInv'
  <1> DEFINE s == store.posts
  <1>1. /\ PostList(s) /\ Media(s) \subseteq uploads /\ DOMAIN s = 1 .. Len(s)
        /\ \A k \in 1 .. Len(s) : DOMAIN s[k] = PostFields
    BY DEF UploadsInv, PostLists, PostList, IsSeq
  <1>2. \E k \in 1 .. Len(s) : \E post, recipient :
          /\ ChangePosts(w, [s EXCEPT ![k] = post], recipient, 0) /\ deeds' = deeds
          /\ DOMAIN post = PostFields /\ post.media = s[k].media
    <2>1. ASSUME NEW k \in 1 .. Len(s), NEW comments, NEW recipient,
                 ChangePosts(w, [s EXCEPT ![k].comments = comments], recipient, 0), deeds' = deeds
          PROVE  \E post : /\ ChangePosts(w, [s EXCEPT ![k] = post], recipient, 0)
                           /\ DOMAIN post = PostFields /\ post.media = s[k].media
      <3> DEFINE post == [s[k] EXCEPT !.comments = comments]
      <3>1. [s EXCEPT ![k].comments = comments] = [s EXCEPT ![k] = post]
        OBVIOUS
      <3>2. DOMAIN post = PostFields /\ post.media = s[k].media
        BY <1>1 DEF PostFields
      <3> QED
        BY <2>1, <3>1, <3>2
    <2>2. ASSUME NEW k \in 1 .. Len(s), NEW likes, NEW recipient,
                 ChangePosts(w, [s EXCEPT ![k].likes = likes], recipient, 0), deeds' = deeds
          PROVE  \E post : /\ ChangePosts(w, [s EXCEPT ![k] = post], recipient, 0)
                           /\ DOMAIN post = PostFields /\ post.media = s[k].media
      <3> DEFINE post == [s[k] EXCEPT !.likes = likes]
      <3>1. [s EXCEPT ![k].likes = likes] = [s EXCEPT ![k] = post]
        OBVIOUS
      <3>2. DOMAIN post = PostFields /\ post.media = s[k].media
        BY <1>1 DEF PostFields
      <3> QED
        BY <2>2, <3>1, <3>2
    <2>3. deeds' = deeds
      BY Zenon DEF AddComment, ToggleLike, DeleteComment, ChangePosts, counts
    <2>4. CASE AddComment(w)
      <3>1. PICK k \in 1 .. Len(s) :
              ChangePosts(w, [s EXCEPT ![k].comments =
                                Append(@, [by |-> act[w].who, n |-> act[w].n])], s[k].author, 0)
        BY <1>1, <2>4 DEF AddComment, PostAt
      <3> QED
        BY <2>1, <2>3, <3>1
    <2>5. CASE ToggleLike(w)
      <3>1. PICK k \in 1 .. Len(s) :
              IF act[w].who \in s[k].likes
              THEN ChangePosts(w, [s EXCEPT ![k].likes = @ \ {act[w].who}], NoTab, 0)
              ELSE ChangePosts(w, [s EXCEPT ![k].likes = @ \cup {act[w].who}], s[k].author, 0)
        BY <1>1, <2>5 DEF ToggleLike, PostAt
      <3> QED
        BY <2>2, <2>3, <3>1
    <2>6. CASE DeleteComment(w)
      <3>1. PICK k \in 1 .. Len(s) :
              ChangePosts(w, [s EXCEPT ![k].comments = RemoveAt(@, act[w].i)], NoTab, 0)
        BY <1>1, <2>6, Zenon DEF DeleteComment, PostAt
      <3> QED
        BY <2>1, <2>3, <3>1
    <2> QED
      BY <2>4, <2>5, <2>6
  <1>20. PICK k \in 1 .. Len(s) : \E post, recipient :
          /\ ChangePosts(w, [s EXCEPT ![k] = post], recipient, 0) /\ deeds' = deeds
          /\ DOMAIN post = PostFields /\ post.media = s[k].media
    BY <1>2
  <1>3. PICK post, recipient :
          /\ ChangePosts(w, [s EXCEPT ![k] = post], recipient, 0) /\ deeds' = deeds
          /\ DOMAIN post = PostFields /\ post.media = s[k].media
    BY <1>20
  <1>4. PICK r : r = [s EXCEPT ![k] = post] /\ PostList(r) /\ Media(r) = Media(s)
    BY <1>1, <1>3, SameUploads
  <1>5. Media(r) \subseteq Media(s) \cup {} /\ Media(r) \subseteq uploads
    BY <1>1, <1>4
  <1>6. {} = {} \/ ({} = {act[w].n} /\ Uploader(w))
    OBVIOUS
  <1> QED
    BY <1>3, <1>4, <1>5, <1>6, ChangePostsKeepsUploads

LEMMA DeletePostKeepsUploads ==
  ASSUME UploadsInv, Shaped, NEW w \in Tabs, DeletePost(w)
  PROVE  UploadsInv'
  <1> DEFINE s == store.posts
  <1>1. PostList(s) /\ Media(s) \subseteq uploads /\ DOMAIN s = 1 .. Len(s)
    BY DEF UploadsInv, PostLists, PostList, IsSeq
  <1>2. PICK k \in 1 .. Len(s) : ChangePosts(w, RemoveAt(s, k), NoTab, s[k].media)
    BY <1>1 DEF DeletePost, PostAt
  <1>3. PICK r : r = RemoveAt(s, k)
    OBVIOUS
  <1>4. /\ PostList(r) /\ Media(r) \subseteq Media(s)
        /\ s[k].media = 0 \/ s[k].media \in Media(s) \ Media(r)
    BY <1>1, <1>2, <1>3, DroppedPosts
  <1>5. Media(r) \subseteq Media(s) \cup {} /\ Media(r) \subseteq uploads
    BY <1>1, <1>4
  <1>6. {} = {} \/ ({} = {act[w].n} /\ Uploader(w))
    OBVIOUS
  <1>7. ChangePosts(w, r, NoTab, s[k].media) /\ deeds' = deeds
    BY <1>2, <1>3 DEF ChangePosts, counts
  <1> QED
    BY <1>4, <1>5, <1>6, <1>7, ChangePostsKeepsUploads

\* After a restart nobody has a number, and the posts are those of the file.
LEMMA CrashKeepsUploads ==
  ASSUME UploadsInv, SocialCrash
  PROVE  UploadsInv'
  <1>1. /\ store' = disk /\ UNCHANGED << disk, uploads, deeds >>
        /\ \A w \in Tabs : tabPc'[w] = "idle" /\ act'[w].n = 0 /\ act'[w].unlink = 0
    BY DEF SocialCrash, NoAct
  <1>2. PostLists' /\ Media(store.posts)' = Media(disk.posts) /\ Media(disk.posts)' = Media(disk.posts)
    BY <1>1 DEF UploadsInv, PostLists, PostList, IsSeq, Media
  <1>3. Numbered'
    BY <1>1, <1>2 DEF UploadsInv, Numbered
  <1>4. 0 \notin Media(disk.posts)
    BY DEF Media
  <1>5. ASSUME NEW w \in Tabs
        PROVE  OwnNumber(w)' /\ Doomed(w)'
    BY <1>1, <1>2, <1>4 DEF OwnNumber, Doomed, Uploader
  <1> QED
    BY <1>2, <1>3, <1>5 DEF UploadsInv

LEMMA CallbacksKeepUploads ==
  ASSUME UploadsInv, Shaped, NEW w \in Tabs, PostCallback(w) \/ OnPostCallback(w) \/ OtherCallback(w)
  PROVE  UploadsInv'
  <1>1. \E what, pc : /\ DOMAIN what = Fields /\ what.unlink = 0 /\ Ask(w, what)
                      /\ At(w, pc) /\ pc # "unlink"
    <2>1. CASE PostCallback(w)
      BY <2>1 DEF PostCallback, Fields, NoAct
    <2>2. CASE OnPostCallback(w)
      BY <2>2, Zenon DEF OnPostCallback, Fields, NoAct
    <2>3. CASE OtherCallback(w)
      BY <2>3, Zenon DEF OtherCallback, Fields, NoAct
    <2> QED
      BY <2>1, <2>2, <2>3
  <1> QED
    BY <1>1, AskKeepsUploads

LEMMA NextUploads == UploadsInv /\ Shaped /\ [Next]_socialVars => UploadsInv'
  <1> SUFFICES ASSUME UploadsInv, Shaped, [Next]_socialVars PROVE UploadsInv'
    OBVIOUS
  <1>1. CASE UNCHANGED socialVars
    <2>1. UNCHANGED << store, disk, uploads, deeds, tabPc, act >>
      BY <1>1 DEF socialVars
    <2>2. /\ PostLists' /\ Numbered'
          /\ \A w \in Tabs : OwnNumber(w)' <=> OwnNumber(w)
          /\ \A w \in Tabs : Doomed(w)' <=> Doomed(w)
      BY <2>1 DEF UploadsInv, PostLists, PostList, IsSeq, Media, Numbered, OwnNumber, Uploader, Doomed
    <2> QED
      BY <2>2 DEF UploadsInv
  <1>2. ASSUME NEW w \in Tabs, Request(w)
        PROVE  UploadsInv'
    BY <1>2, MediaStoreKeepsUploads, AddPostKeepsUploads, OnPostKeepsUploads,
       DeletePostKeepsUploads, AwayFromPosts, SaveKeepsUploads DEF Request
  <1> QED
    BY <1>1, <1>2, CallbacksKeepUploads, CrashKeepsUploads DEF Next
-----------------------------------------------------------------------------
(* ASVIO: the invariant of the job table *)

JobFields == DOMAIN Asvio!NoRecord
JobStates == {"none", "queued", "taken", "finished"}

JobTypes ==
  /\ DOMAIN rec = Jobs
  /\ \A j \in Jobs : DOMAIN rec[j] = JobFields /\ rec[j].state \in JobStates
  /\ stopping \in BOOLEAN
  /\ dispatcher \in {"idle", "waiting", "got"}
  /\ pool \in Seq(Jobs)
  /\ task \in [Jobs -> {"none", "started", "yielded", "working", "end"}]
  /\ client \in [Jobs -> {"new", "ask", "waiting", "end"}]
  /\ DOMAIN seen = Jobs

\* The linked list is the sequence q of the jobs that are queued, each once.
IsQueue(q) ==
  /\ q \in Seq(Jobs)
  /\ \A i, k \in 1 .. Len(q) : q[i] = q[k] => i = k
  /\ \A j \in Jobs : rec[j].state = "queued" <=> \E i \in 1 .. Len(q) : q[i] = j
  /\ queueHead = IF q = << >> THEN NoJob ELSE q[1]
  /\ queueTail = IF q = << >> THEN NoJob ELSE q[Len(q)]
  /\ nextQueued \in [Jobs -> Jobs \cup {NoJob}]
  /\ \A j \in Jobs : rec[j].state # "queued" => nextQueued[j] = NoJob
  /\ \A i \in 1 .. Len(q) : nextQueued[q[i]] = IF i = Len(q) THEN NoJob ELSE q[i + 1]

\* A job is known to Python only after it has left the queue, and to one part of
\* Python at a time.
Untouched(j) == task[j] = "none" /\ \A i \in 1 .. Len(pool) : pool[i] # j

HandedOver ==
  /\ \A j \in Jobs : client[j] = "new" => rec[j].state = "none"
  /\ \A j \in Jobs : client[j] = "new" \/ rec[j].state = "queued" => Untouched(j)
  /\ \A j \in Jobs : rec[j].state \in {"queued", "taken"} => rec[j].input
  /\ dispatcher = "got" => taken \in Jobs /\ rec[taken].state = "taken" /\ Untouched(taken)
  /\ \A i, k \in 1 .. Len(pool) : pool[i] = pool[k] => i = k
  /\ \A i \in 1 .. Len(pool) : task[pool[i]] = "none"

JobsInv ==
  /\ JobTypes
  /\ \E q \in Seq(Jobs) : IsQueue(q)
  /\ HandedOver
  /\ NobodyOversleeps

-----------------------------------------------------------------------------
(* What the helpers do *)

LEMMA InitJobs == Asvio!Init => JobsInv
  <1> SUFFICES ASSUME Asvio!Init PROVE JobsInv
    OBVIOUS
  <1>1. JobTypes
    <2>1. /\ DOMAIN rec = Jobs
          /\ \A j \in Jobs : DOMAIN rec[j] = JobFields /\ rec[j].state \in JobStates
      BY DEF Asvio!Init, Asvio!NoRecord, JobFields, JobStates
    <2>2. pool \in Seq(Jobs) /\ dispatcher = "idle"
      BY DEF Asvio!Init
    <2>3. stopping \in BOOLEAN
      BY Zenon DEF Asvio!Init
    <2>4. /\ task \in [Jobs -> {"none", "started", "yielded", "working", "end"}]
          /\ client \in [Jobs -> {"new", "ask", "waiting", "end"}]
          /\ DOMAIN seen = Jobs
      BY DEF Asvio!Init
    <2> QED
      BY <2>1, <2>2, <2>3, <2>4 DEF JobTypes
  <1>2. << >> \in Seq(Jobs) /\ IsQueue(<< >>)
    BY DEF IsQueue, Asvio!Init, Asvio!NoRecord
  <1>3. HandedOver
    BY DEF HandedOver, Untouched, Asvio!Init, Asvio!NoRecord
  <1>4. NobodyOversleeps
    BY DEF NobodyOversleeps, Asvio!NobodyOversleeps, Asvio!Init, Asvio!NoRecord
  <1>5. \E q \in Seq(Jobs) : IsQueue(q)
    BY <1>2, Zenon
  <1> QED
    BY <1>1, <1>3, <1>4, <1>5 DEF JobsInv

\* A step that leaves the list, and who is queued, as they are.
LEMMA QueueKept ==
  ASSUME NEW q, IsQueue(q), UNCHANGED << queueHead, queueTail, nextQueued >>,
         \A j \in Jobs : rec'[j].state = "queued" <=> rec[j].state = "queued"
  PROVE  IsQueue(q)'
  BY DEF IsQueue

\* runCallback puts a job at the end of the list.
LEMMA QueueAppended ==
  ASSUME NEW q, IsQueue(q), NEW j \in Jobs, rec[j].state # "queued",
         \A p \in Jobs : rec'[p].state = "queued" <=> rec[p].state = "queued" \/ p = j,
         IF queueTail = NoJob
         THEN queueHead' = j /\ nextQueued' = nextQueued
         ELSE nextQueued' = [nextQueued EXCEPT ![queueTail] = j] /\ queueHead' = queueHead,
         queueTail' = j
  PROVE  IsQueue(Append(q, j))'
  <1> DEFINE r == Append(q, j)
  <1>1. /\ r \in Seq(Jobs) /\ r # << >> /\ Len(r) = Len(q) + 1 /\ r[Len(r)] = j
        /\ \A i \in 1 .. Len(q) : r[i] = q[i] /\ q[i] \in Jobs /\ q[i] # j
    <2>1. q \in Seq(Jobs) /\ Len(q) \in Nat
      BY DEF IsQueue
    <2>2. r \in Seq(Jobs) /\ Len(r) = Len(q) + 1 /\ r[Len(q) + 1] = j
      BY <2>1
    <2>3. ASSUME NEW i \in 1 .. Len(q)
          PROVE  r[i] = q[i] /\ q[i] \in Jobs /\ q[i] # j
      <3>1. r[i] = q[i] /\ q[i] \in Jobs
        BY <2>1
      <3>2. rec[q[i]].state = "queued"
        BY <3>1 DEF IsQueue
      <3> QED
        BY <3>1, <3>2
    <2> QED
      BY <2>1, <2>2, <2>3
  <1>2. queueTail = NoJob <=> q = << >>
    BY NoJobAssumption DEF IsQueue
  <1>3. \A i, k \in 1 .. Len(r) : r[i] = r[k] => i = k
    BY <1>1 DEF IsQueue
  <1>4. \A p \in Jobs : rec'[p].state = "queued" <=> \E i \in 1 .. Len(r) : r[i] = p
    <2> SUFFICES ASSUME NEW p \in Jobs
                 PROVE  rec'[p].state = "queued" <=> \E i \in 1 .. Len(r) : r[i] = p
      OBVIOUS
    <2>1. CASE p = j
      BY <1>1, <2>1 DEF IsQueue
    <2>2. CASE p # j
      BY <1>1, <2>2 DEF IsQueue
    <2> QED
      BY <2>1, <2>2
  <1>5. queueHead' = r[1] /\ queueTail' = r[Len(r)]
    BY <1>1, <1>2 DEF IsQueue
  <1>6. nextQueued' \in [Jobs -> Jobs \cup {NoJob}]
    BY <1>2 DEF IsQueue
  <1>7. \A p \in Jobs : nextQueued'[p] = IF q # << >> /\ p = q[Len(q)] THEN j ELSE nextQueued[p]
    BY <1>2 DEF IsQueue
  <1>8. \A p \in Jobs : rec'[p].state # "queued" => nextQueued'[p] = NoJob
    BY <1>1, <1>7 DEF IsQueue
  <1>9. \A i \in 1 .. Len(r) : nextQueued'[r[i]] = IF i = Len(r) THEN NoJob ELSE r[i + 1]
    BY <1>1, <1>7 DEF IsQueue
  <1> HIDE DEF r
  <1>10. IsQueue(r)'
    BY <1>1, <1>3, <1>4, <1>5, <1>6, <1>8, <1>9 DEF IsQueue
  <1> QED
    BY <1>10 DEF r

\* removeFromQueue takes a job out of the list, wherever it is.
Without(q, k) == [i \in 1 .. Len(q) - 1 |-> IF i < k THEN q[i] ELSE q[i + 1]]

LEMMA QueueRemoved ==
  ASSUME NEW q, IsQueue(q), NEW k \in 1 .. Len(q),
         Asvio!RemoveFromQueue(q[k]),
         \A p \in Jobs : rec'[p].state = "queued" <=> rec[p].state = "queued" /\ p # q[k]
  PROVE  IsQueue(Without(q, k))'
  <1> DEFINE r == Without(q, k)
             j == q[k]
             before == {p \in Jobs : nextQueued[p] = j}
  <1>1. /\ r \in Seq(Jobs) /\ Len(r) = Len(q) - 1
        /\ \A i \in 1 .. Len(r) : r[i] = IF i < k THEN q[i] ELSE q[i + 1]
        /\ j \in Jobs /\ j # NoJob
        /\ \A i \in 1 .. Len(q) : q[i] \in Jobs
    BY NoJobAssumption DEF IsQueue, Without
  <1>2. before = IF k = 1 THEN {} ELSE {q[k - 1]}
    <2>1. ASSUME NEW p \in Jobs, nextQueued[p] = j
          PROVE  k # 1 /\ p = q[k - 1]
      <3>1. PICK i \in 1 .. Len(q) : q[i] = p
        BY <1>1, <2>1 DEF IsQueue
      <3>2. i # Len(q) /\ q[i + 1] = q[k]
        BY <1>1, <2>1, <3>1 DEF IsQueue
      <3>3. i + 1 = k
        BY <1>1, <3>2 DEF IsQueue
      <3> QED
        BY <3>1, <3>3
    <2>2. k # 1 => nextQueued[q[k - 1]] = j
      BY <1>1 DEF IsQueue
    <2> QED
      BY <1>1, <2>1, <2>2
  <1>3. nextQueued[j] = IF k = Len(q) THEN NoJob ELSE q[k + 1]
    BY DEF IsQueue
  <1>4. /\ queueHead' = IF queueHead = j THEN nextQueued[j] ELSE queueHead
        /\ nextQueued' = [p \in Jobs |->
             IF p = j THEN NoJob ELSE IF p \in before THEN nextQueued[j] ELSE nextQueued[p]]
        /\ queueTail' = IF queueTail # j THEN queueTail
                        ELSE IF before = {} THEN NoJob ELSE CHOOSE p \in before : TRUE
    BY DEF Asvio!RemoveFromQueue
  <1>5. \A i, m \in 1 .. Len(r) : r[i] = r[m] => i = m
    BY <1>1 DEF IsQueue
  <1>6. \A p \in Jobs : rec'[p].state = "queued" <=> \E i \in 1 .. Len(r) : r[i] = p
    <2>1. ASSUME NEW p \in Jobs, rec'[p].state = "queued"
          PROVE  \E i \in 1 .. Len(r) : r[i] = p
      <3>1. PICK i \in 1 .. Len(q) : q[i] = p /\ i # k
        BY <2>1 DEF IsQueue
      <3>2. CASE i < k
        BY <1>1, <3>1, <3>2
      <3>3. CASE i > k
        <4>1. i - 1 \in 1 .. Len(r) /\ r[i - 1] = q[i]
          BY <1>1, <3>1, <3>3
        <4> QED
          BY <3>1, <4>1
      <3> QED
        BY <3>1, <3>2, <3>3
    <2>2. ASSUME NEW i \in 1 .. Len(r)
          PROVE  rec'[r[i]].state = "queued"
      <3>1. PICK m \in 1 .. Len(q) : m # k /\ r[i] = q[m]
        BY <1>1
      <3>2. q[m] # q[k] /\ q[m] \in Jobs /\ rec[q[m]].state = "queued"
        BY <1>1, <3>1 DEF IsQueue
      <3> QED
        BY <3>1, <3>2
    <2> QED
      BY <2>1, <2>2
  <1>7. queueHead' = IF r = << >> THEN NoJob ELSE r[1]
    <2>1. queueHead = q[1] /\ (q[1] = j <=> k = 1)
      BY <1>1 DEF IsQueue
    <2> QED
      BY <1>1, <1>3, <1>4, <2>1
  <1>8. queueTail' = IF r = << >> THEN NoJob ELSE r[Len(r)]
    <2>1. queueTail = q[Len(q)] /\ (q[Len(q)] = j <=> k = Len(q))
      BY <1>1 DEF IsQueue
    <2>2. CASE k = Len(q)
      BY <1>1, <1>2, <1>4, <2>1, <2>2
    <2>3. CASE k # Len(q)
      BY <1>1, <1>4, <2>1, <2>3
    <2> QED
      BY <2>2, <2>3
  <1>9. nextQueued' \in [Jobs -> Jobs \cup {NoJob}]
    BY <1>1, <1>3, <1>4 DEF IsQueue
  <1>10. \A p \in Jobs : rec'[p].state # "queued" => nextQueued'[p] = NoJob
    <2> SUFFICES ASSUME NEW p \in Jobs, rec'[p].state # "queued", p # j
                 PROVE  nextQueued'[p] = NoJob
      BY <1>4
    <2>1. nextQueued[p] = NoJob
      BY DEF IsQueue
    <2> QED
      BY <1>1, <1>4, <2>1
  <1>11. ASSUME NEW i \in 1 .. Len(r)
         PROVE  nextQueued'[r[i]] = IF i = Len(r) THEN NoJob ELSE r[i + 1]
    <2> DEFINE m == IF i < k THEN i ELSE i + 1
    <2>1. m \in 1 .. Len(q) /\ m # k /\ r[i] = q[m] /\ q[m] # j /\ q[m] \in Jobs
      <3>1. m \in 1 .. Len(q) /\ m # k
        BY <1>1
      <3>2. q[m] # q[k]
        BY <3>1 DEF IsQueue
      <3> QED
        BY <1>1, <3>1, <3>2
    <2>2. q[m] \in before <=> m = k - 1
      BY <1>1, <1>2, <2>1 DEF IsQueue
    <2>3. nextQueued[q[m]] = IF m = Len(q) THEN NoJob ELSE q[m + 1]
      BY <2>1 DEF IsQueue
    <2>4. nextQueued'[r[i]] = IF m = k - 1 THEN nextQueued[j] ELSE nextQueued[q[m]]
      BY <1>4, <2>1, <2>2
    <2> QED
      BY <1>1, <1>3, <2>1, <2>3, <2>4
  <1> HIDE DEF r
  <1>12. IsQueue(r)'
    BY <1>1, <1>5, <1>6, <1>7, <1>8, <1>9, <1>10, <1>11 DEF IsQueue
  <1> QED
    BY <1>12 DEF r

LEMMA JobsKept ==
  ASSUME JobsInv, JobTypes', HandedOver', NobodyOversleeps',
         UNCHANGED << queueHead, queueTail, nextQueued >>,
         \A j \in Jobs : rec'[j].state = "queued" <=> rec[j].state = "queued"
  PROVE  JobsInv'
  <1>1. PICK q \in Seq(Jobs) : IsQueue(q)
    BY DEF JobsInv
  <1>2. IsQueue(q)'
    BY <1>1, QueueKept
  <1>3. (\E r \in Seq(Jobs) : IsQueue(r))'
    BY <1>2
  <1> QED
    BY <1>3 DEF JobsInv

\* What publish does, whether or not the job can still be told of.
LEMMA PublishDoes ==
  ASSUME JobTypes, NEW j \in Jobs, NEW status, NEW final, Asvio!Publish(j, status, final)
  PROVE  /\ DOMAIN rec' = Jobs
         /\ \A p \in Jobs : DOMAIN rec'[p] = JobFields /\ rec'[p].state \in JobStates
         /\ client' \in [Jobs -> {"new", "ask", "waiting", "end"}]
         /\ \A p \in Jobs \ {j} : rec'[p] = rec[p]
         /\ rec[j].state # "taken" => rec'[j] = rec[j]
         /\ rec[j].state = "taken" => rec'[j].state \in {"taken", "finished"}
         /\ rec'[j].state = "taken" => (rec'[j].input <=> rec[j].input)
         /\ \A p \in Jobs : client'[p] = "new" <=> client[p] = "new"
         /\ \A p \in Jobs : client'[p] = "waiting" => client[p] = "waiting" /\ rec' = rec
  <1>1. CASE rec[j].state # "taken"
    BY <1>1 DEF Asvio!Publish, JobTypes
  <1>2. CASE rec[j].state = "taken"
    <2>1. DOMAIN rec' = Jobs /\ \A p \in Jobs \ {j} : rec'[p] = rec[p]
      BY <1>2 DEF Asvio!Publish, JobTypes
    <2>2. /\ DOMAIN rec'[j] = JobFields
          /\ rec'[j].state = IF final THEN "finished" ELSE "taken"
      BY <1>2 DEF Asvio!Publish, JobTypes, JobFields, Asvio!NoRecord
    <2>3. ~final => (rec'[j].input <=> rec[j].input)
      BY <1>2 DEF Asvio!Publish, JobTypes, JobFields, Asvio!NoRecord
    <2>4. \A p \in Jobs : client'[p] = IF client[p] = "waiting" THEN "ask" ELSE client[p]
      BY <1>2 DEF Asvio!Publish, Asvio!Changed
    <2>5. client' \in [Jobs -> {"new", "ask", "waiting", "end"}]
      BY <1>2 DEF Asvio!Publish, Asvio!Changed, JobTypes
    <2>6. rec'[j].state = "taken" => (rec'[j].input <=> rec[j].input)
      BY <2>2, <2>3
    <2> QED
      BY <1>2, <2>1, <2>2, <2>4, <2>5, <2>6 DEF JobTypes, JobStates
  <1> QED
    BY <1>1, <1>2

-----------------------------------------------------------------------------
(* ASVIO: every step keeps the invariant *)

LEMMA RunCallbackKeepsJobs ==
  ASSUME JobsInv, NEW j \in Jobs, Asvio!RunCallback(j)
  PROVE  JobsInv'
  <1> DEFINE kept == [p \in Jobs |-> IF p \in Asvio!Forgotten THEN Asvio!NoRecord ELSE rec[p]]
  <1> USE DEF JobsInv
  <1>1. client[j] = "new" /\ rec[j].state = "none" /\ Untouched(j)
    BY DEF Asvio!RunCallback, HandedOver
  <1>2. /\ \A p \in Jobs : DOMAIN kept[p] = JobFields /\ kept[p].state \in JobStates
        /\ \A p \in Jobs : rec[p].state # "finished" => kept[p] = rec[p]
        /\ \A p \in Jobs : rec[p].state = "finished" => kept[p].state \in {"none", "finished"}
        /\ \A p \in Jobs : kept[p] = rec[p] \/ rec[p].state = "finished"
    BY DEF JobTypes, JobFields, JobStates, Asvio!NoRecord, Asvio!Forgotten
  <1>3. CASE rec' = kept
    <2>1. /\ client' = [client EXCEPT ![j] = "end"]
          /\ UNCHANGED << queueHead, queueTail, nextQueued, dispatcher, stopping, taken,
                          pool, task, seen >>
      <3>1. rec'[j] = rec[j]
        BY <1>1, <1>2, <1>3
      <3>2. rec'[j].state # "queued"
        BY <1>1, <3>1
      <3> QED
        BY <1>1, <3>2 DEF Asvio!RunCallback, Asvio!queue, Asvio!python, JobTypes, Asvio!NoRecord
    <2>2. JobTypes'
      BY <1>2, <1>3, <2>1 DEF JobTypes
    <2>3. HandedOver'
      BY <1>1, <1>2, <1>3, <2>1 DEF HandedOver, Untouched, JobTypes
    <2>4. NobodyOversleeps'
      BY <1>1, <1>2, <1>3, <2>1 DEF NobodyOversleeps, Asvio!NobodyOversleeps, Asvio!Ready,
                                    Asvio!Known, JobTypes
    <2> QED
      BY <1>2, <1>3, <2>1, <2>2, <2>3, <2>4, JobsKept
  <1>4. CASE rec' # kept
    <2>1. /\ rec' = [kept EXCEPT ![j] = [Asvio!NoRecord EXCEPT !.state = "queued",
                                               !.status = "queued", !.input = TRUE]]
          /\ IF queueTail = NoJob
             THEN queueHead' = j /\ nextQueued' = nextQueued
             ELSE nextQueued' = [nextQueued EXCEPT ![queueTail] = j] /\ queueHead' = queueHead
          /\ queueTail' = j
          /\ dispatcher' = IF dispatcher = "waiting" THEN "idle" ELSE dispatcher
          /\ client' = [client EXCEPT ![j] = "ask"]
          /\ UNCHANGED << stopping, taken, pool, task, seen >>
      BY <1>4 DEF Asvio!RunCallback, Asvio!queue, Asvio!python
    <2>2. /\ DOMAIN rec' = Jobs /\ DOMAIN rec'[j] = JobFields /\ rec'[j].state = "queued"
          /\ rec'[j].input
          /\ \A p \in Jobs \ {j} : rec'[p] = kept[p]
      BY <2>1 DEF JobFields, Asvio!NoRecord
    <2> HIDE DEF kept
    <2>3. JobTypes'
      BY <1>2, <2>1, <2>2 DEF JobTypes, JobStates
    <2>4. HandedOver'
      BY <1>1, <1>2, <2>1, <2>2, SMTT(20) DEF HandedOver, Untouched, JobTypes
    <2>5. NobodyOversleeps'
      BY <1>1, <1>2, <2>1, <2>2 DEF NobodyOversleeps, Asvio!NobodyOversleeps, Asvio!Ready,
                                    Asvio!Known, JobTypes
    <2>6. PICK q \in Seq(Jobs) : IsQueue(q)
      OBVIOUS
    <2>7. \A p \in Jobs : rec'[p].state = "queued" <=> rec[p].state = "queued" \/ p = j
      BY <1>2, <2>2
    <2>8. IsQueue(Append(q, j))'
      BY <1>1, <2>1, <2>6, <2>7, QueueAppended
    <2>9. (\E r \in Seq(Jobs) : IsQueue(r))'
      <3>1. Append(q, j) \in Seq(Jobs)
        BY <2>6
      <3> QED
        BY <2>8, <3>1
    <2> QED
      BY <2>3, <2>4, <2>5, <2>9
  <1> QED
    BY <1>3, <1>4

LEMMA PollKeepsJobs ==
  ASSUME JobsInv, NEW j \in Jobs, Asvio!PollCallback(j) \/ Asvio!PollTimeout(j)
  PROVE  JobsInv'
  <1> USE DEF JobsInv
  <1>1. /\ UNCHANGED << rec, queueHead, queueTail, nextQueued, stopping, dispatcher, taken,
                        pool, task >>
        /\ client[j] \in {"ask", "waiting"}
        /\ client' \in [Jobs -> {"new", "ask", "waiting", "end"}] /\ DOMAIN seen' = Jobs
        /\ \A p \in Jobs \ {j} : client'[p] = client[p] /\ seen'[p] = seen[p]
        /\ client'[j] \in {"ask", "waiting", "end"}
        /\ client'[j] = "waiting" => ~Asvio!Ready(j) /\ seen' = seen
    BY DEF Asvio!PollCallback, Asvio!PollTimeout, Asvio!Answer, Asvio!queue, Asvio!python, JobTypes
  <1>2. JobTypes'
    BY <1>1 DEF JobTypes
  <1>3. HandedOver'
    BY <1>1 DEF HandedOver, Untouched
  <1>4. NobodyOversleeps'
    BY <1>1 DEF NobodyOversleeps, Asvio!NobodyOversleeps, Asvio!Ready, Asvio!Known
  <1> QED
    BY <1>1, <1>2, <1>3, <1>4, JobsKept

LEMMA CancelKeepsJobs ==
  ASSUME JobsInv, NEW j \in Jobs, Asvio!CancelCallback(j)
  PROVE  JobsInv'
  <1> USE DEF JobsInv
  <1>1. UNCHANGED << stopping, dispatcher, taken, pool, task, seen >>
    BY DEF Asvio!CancelCallback, Asvio!python
  <1>2. CASE rec[j].state = "queued"
    <2>1. Asvio!RemoveFromQueue(j) /\ Asvio!Changed
      BY <1>2 DEF Asvio!CancelCallback
    <2>2. /\ DOMAIN rec' = Jobs /\ DOMAIN rec'[j] = JobFields /\ rec'[j].state = "finished"
          /\ \A p \in Jobs \ {j} : rec'[p] = rec[p]
      BY <1>2 DEF Asvio!CancelCallback, JobTypes, JobFields, Asvio!NoRecord
    <2>3. client' = [p \in Jobs |-> IF client[p] = "waiting" THEN "ask" ELSE client[p]]
      BY <2>1 DEF Asvio!Changed
    <2>4. JobTypes'
      BY <1>1, <2>2, <2>3 DEF JobTypes, JobStates
    <2>5. HandedOver'
      BY <1>1, <1>2, <2>2, <2>3 DEF HandedOver, Untouched, JobTypes
    <2>6. NobodyOversleeps'
      BY <1>1, <2>2, <2>3 DEF NobodyOversleeps, Asvio!NobodyOversleeps, JobTypes
    <2>7. PICK q \in Seq(Jobs) : IsQueue(q)
      OBVIOUS
    <2>8. PICK k \in 1 .. Len(q) : q[k] = j
      BY <1>2, <2>7 DEF IsQueue
    <2>9. \A p \in Jobs : rec'[p].state = "queued" <=> rec[p].state = "queued" /\ p # q[k]
      BY <2>2, <2>8
    <2>10. Asvio!RemoveFromQueue(q[k])
      BY <2>1, <2>8
    <2>11. IsQueue(Without(q, k))' /\ Without(q, k) \in Seq(Jobs)
      <3>1. IsQueue(Without(q, k))'
        BY <2>7, <2>9, <2>10, QueueRemoved
      <3> QED
        BY <3>1 DEF IsQueue
    <2>12. (\E r \in Seq(Jobs) : IsQueue(r))'
      BY <2>11
    <2> QED
      BY <2>4, <2>5, <2>6, <2>12
  <1>3. CASE rec[j].state # "queued"
    <2>1. /\ rec[j].state = "taken"
          /\ UNCHANGED << queueHead, queueTail, nextQueued, client >>
          /\ DOMAIN rec' = Jobs /\ DOMAIN rec'[j] = JobFields
          /\ rec'[j].state = "taken" /\ (rec'[j].input <=> rec[j].input)
          /\ rec'[j].seq = rec[j].seq
          /\ \A p \in Jobs \ {j} : rec'[p] = rec[p]
      BY <1>3 DEF Asvio!CancelCallback, Asvio!queue, JobTypes, JobFields, Asvio!NoRecord
    <2>2. JobTypes'
      BY <1>1, <2>1 DEF JobTypes, JobStates
    <2>3. HandedOver'
      BY <1>1, <2>1 DEF HandedOver, Untouched
    <2>4. NobodyOversleeps'
      BY <1>1, <2>1 DEF NobodyOversleeps, Asvio!NobodyOversleeps, Asvio!Ready, Asvio!Known
    <2> QED
      BY <2>1, <2>2, <2>3, <2>4, JobsKept
  <1> QED
    BY <1>2, <1>3

LEMMA GrowOldKeepsJobs ==
  ASSUME JobsInv, NEW j \in Jobs, Asvio!GrowOld(j)
  PROVE  JobsInv'
  <1> USE DEF JobsInv
  <1>1. /\ rec[j].state = "finished"
        /\ UNCHANGED << queueHead, queueTail, nextQueued, stopping, dispatcher, taken,
                        pool, task, client, seen >>
        /\ DOMAIN rec' = Jobs /\ DOMAIN rec'[j] = JobFields /\ rec'[j].state = "finished"
        /\ \A p \in Jobs \ {j} : rec'[p] = rec[p]
    BY DEF Asvio!GrowOld, Asvio!queue, Asvio!python, Asvio!clients, JobTypes, JobFields,
           Asvio!NoRecord
  <1>2. JobTypes'
    BY <1>1 DEF JobTypes, JobStates
  <1>3. HandedOver'
    BY <1>1 DEF HandedOver, Untouched
  <1>4. NobodyOversleeps'
    BY <1>1 DEF NobodyOversleeps, Asvio!NobodyOversleeps, Asvio!Ready, Asvio!Known
  <1> QED
    BY <1>1, <1>2, <1>3, <1>4, JobsKept

LEMMA DispatcherKeepsJobs ==
  ASSUME JobsInv, Asvio!NextJob \/ Asvio!NextJobTimeout
  PROVE  JobsInv'
  <1> USE DEF JobsInv
  <1>1. PICK q \in Seq(Jobs) : IsQueue(q)
    OBVIOUS
  <1>2. UNCHANGED << stopping, pool, task, client, seen >>
    BY DEF Asvio!NextJob, Asvio!NextJobTimeout, Asvio!python, Asvio!clients
  <1>3. CASE UNCHANGED << rec, queueHead, queueTail, nextQueued, taken >>
    <2>1. \/ dispatcher' = "idle"
          \/ dispatcher' = "waiting" /\ queueHead = NoJob /\ ~stopping
      <3>1. CASE Asvio!NextJobTimeout
        BY <3>1 DEF Asvio!NextJobTimeout
      <3>2. CASE Asvio!NextJob /\ queueHead = NoJob
        BY <3>2 DEF Asvio!NextJob
      <3>3. CASE Asvio!NextJob /\ queueHead # NoJob
        <4>1. q # << >> /\ queueHead = q[1] /\ queueHead \in Jobs
          BY <1>1, <3>3 DEF IsQueue
        <4>2. rec[queueHead].state = "queued"
          BY <1>1, <4>1 DEF IsQueue
        <4>3. rec'[queueHead].state = "taken"
          BY <3>3, <4>1 DEF Asvio!NextJob, JobTypes, JobFields, Asvio!NoRecord
        <4> QED
          BY <1>3, <4>2, <4>3
      <3> QED
        BY <3>1, <3>2, <3>3
    <2>2. JobTypes'
      BY <1>2, <1>3, <2>1 DEF JobTypes
    <2>3. HandedOver'
      BY <1>2, <1>3, <2>1 DEF HandedOver, Untouched
    <2>4. queueHead = NoJob => \A j \in Jobs : rec[j].state # "queued"
      BY <1>1, NoJobAssumption DEF IsQueue
    <2>5. NobodyOversleeps'
      BY <1>2, <1>3, <2>1, <2>4 DEF NobodyOversleeps, Asvio!NobodyOversleeps, Asvio!Ready,
                                    Asvio!Known
    <2> QED
      BY <1>3, <2>2, <2>3, <2>5, JobsKept
  <1>4. CASE ~UNCHANGED << rec, queueHead, queueTail, nextQueued, taken >>
    <2>1. /\ queueHead # NoJob
          /\ dispatcher' = "got" /\ taken' = queueHead
          /\ rec' = [rec EXCEPT ![queueHead].state = "taken"]
          /\ Asvio!RemoveFromQueue(queueHead)
      BY <1>4 DEF Asvio!NextJob, Asvio!NextJobTimeout, Asvio!queue
    <2>2. 1 \in 1 .. Len(q) /\ queueHead = q[1] /\ q[1] \in Jobs
      BY <1>1, <2>1 DEF IsQueue
    <2>3. rec[q[1]].state = "queued"
      BY <1>1, <2>2 DEF IsQueue
    <2>4. /\ DOMAIN rec' = Jobs /\ DOMAIN rec'[q[1]] = JobFields /\ rec'[q[1]].state = "taken"
          /\ (rec'[q[1]].input <=> rec[q[1]].input) /\ rec'[q[1]].seq = rec[q[1]].seq
          /\ \A p \in Jobs \ {q[1]} : rec'[p] = rec[p]
      BY <2>1, <2>2 DEF JobTypes, JobFields, Asvio!NoRecord
    <2>5. JobTypes'
      BY <1>2, <2>1, <2>4 DEF JobTypes, JobStates
    <2>6. HandedOver'
      BY <1>2, <2>1, <2>2, <2>3, <2>4 DEF HandedOver, Untouched
    <2>7. NobodyOversleeps'
      BY <1>2, <2>1, <2>2, <2>4 DEF NobodyOversleeps, Asvio!NobodyOversleeps, Asvio!Ready,
                                    Asvio!Known
    <2>8. \A p \in Jobs : rec'[p].state = "queued" <=> rec[p].state = "queued" /\ p # q[1]
      BY <2>4
    <2>9. Asvio!RemoveFromQueue(q[1])
      BY <2>1, <2>2
    <2>10. IsQueue(Without(q, 1))' /\ Without(q, 1) \in Seq(Jobs)
      <3>1. IsQueue(Without(q, 1))'
        BY <1>1, <2>2, <2>8, <2>9, QueueRemoved
      <3> QED
        BY <3>1 DEF IsQueue
    <2>11. (\E r \in Seq(Jobs) : IsQueue(r))'
      BY <2>10
    <2> QED
      BY <2>5, <2>6, <2>7, <2>11
  <1> QED
    BY <1>3, <1>4

\* What a job is told of while nobody else may touch it.
LEMMA PublishKeepsQueue ==
  ASSUME JobTypes, NEW j \in Jobs, NEW status, NEW final, Asvio!Publish(j, status, final)
  PROVE  \A p \in Jobs : rec'[p].state = "queued" <=> rec[p].state = "queued"
  <1>1. \A p \in Jobs : p # j => rec'[p] = rec[p]
    BY PublishDoes
  <1>2. rec[j].state # "taken" => rec'[j] = rec[j]
    BY PublishDoes
  <1>3. rec[j].state = "taken" => rec'[j].state \in {"taken", "finished"}
    BY PublishDoes
  <1> QED
    BY <1>1, <1>2, <1>3

LEMMA DispatchKeepsJobs ==
  ASSUME JobsInv, Asvio!Dispatch
  PROVE  JobsInv'
  <1> USE DEF JobsInv
  <1>1. /\ dispatcher = "got" /\ dispatcher' = "idle"
        /\ UNCHANGED << queueHead, queueTail, nextQueued, stopping, task, seen >>
        /\ taken \in Jobs /\ rec[taken].state = "taken" /\ Untouched(taken)
    BY DEF Asvio!Dispatch, Asvio!queue, HandedOver
  <1>2. CASE Asvio!Publish(taken, "error", TRUE) /\ UNCHANGED << pool, pending >>
    <2>1. /\ DOMAIN rec' = Jobs
          /\ \A p \in Jobs : DOMAIN rec'[p] = JobFields /\ rec'[p].state \in JobStates
          /\ client' \in [Jobs -> {"new", "ask", "waiting", "end"}]
          /\ \A p \in Jobs \ {taken} : rec'[p] = rec[p]
          /\ rec'[taken].state \in {"taken", "finished"}
          /\ rec'[taken].state = "taken" => (rec'[taken].input <=> rec[taken].input)
          /\ \A p \in Jobs : client'[p] = "new" <=> client[p] = "new"
          /\ \A p \in Jobs : client'[p] = "waiting" => client[p] = "waiting" /\ rec' = rec
      BY <1>1, <1>2, PublishDoes
    <2>2. JobTypes'
      BY <1>1, <1>2, <2>1 DEF JobTypes
    <2>3. HandedOver'
      BY <1>1, <1>2, <2>1 DEF HandedOver, Untouched
    <2>4. NobodyOversleeps'
      BY <1>1, <2>1 DEF NobodyOversleeps, Asvio!NobodyOversleeps, Asvio!Ready, Asvio!Known
    <2>5. \A p \in Jobs : rec'[p].state = "queued" <=> rec[p].state = "queued"
      BY <1>1, <2>1
    <2> QED
      BY <1>1, <2>2, <2>3, <2>4, <2>5, JobsKept
  <1>3. CASE /\ pool' = IF stopping THEN pool ELSE Append(pool, taken)
             /\ UNCHANGED << rec, client >>
    <2>1. JobTypes'
      BY <1>1, <1>3 DEF JobTypes
    <2>2. HandedOver'
      <3>1. CASE stopping
        BY <1>1, <1>3, <3>1 DEF HandedOver, Untouched
      <3>2. CASE ~stopping
        <4>1. pool \in Seq(Jobs) /\ pool' = Append(pool, taken)
          BY <1>3, <3>2 DEF JobTypes
        <4>2. /\ Len(pool') = Len(pool) + 1 /\ Len(pool) \in Nat
              /\ pool'[Len(pool) + 1] = taken
              /\ \A i \in 1 .. Len(pool) : pool'[i] = pool[i]
          BY <1>1, <4>1
        <4>3. \A j \in Jobs \ {taken} : Untouched(j) => Untouched(j)'
          BY <1>1, <4>2 DEF Untouched
        <4>4. rec[taken].state # "queued" /\ client[taken] # "new"
          BY <1>1 DEF HandedOver
        <4>5. \A i, k \in 1 .. Len(pool') : pool'[i] = pool'[k] => i = k
          BY <1>1, <4>2 DEF HandedOver, Untouched
        <4>6. \A i \in 1 .. Len(pool') : task'[pool'[i]] = "none"
          BY <1>1, <4>2 DEF HandedOver, Untouched
        <4> QED
          BY <1>1, <1>3, <4>3, <4>4, <4>5, <4>6 DEF HandedOver
      <3> QED
        BY <3>1, <3>2
    <2>3. NobodyOversleeps'
      BY <1>1, <1>3 DEF NobodyOversleeps, Asvio!NobodyOversleeps, Asvio!Ready, Asvio!Known
    <2> QED
      BY <1>1, <1>3, <2>1, <2>2, <2>3, JobsKept
  <1> QED
    BY <1>2, <1>3 DEF Asvio!Dispatch

LEMMA TaskStartKeepsJobs ==
  ASSUME JobsInv, Asvio!TaskStart
  PROVE  JobsInv'
  <1> USE DEF JobsInv
  <1> DEFINE j == Head(pool)
  <1>1. /\ pool # << >> /\ pool' = Tail(pool)
        /\ task' = [task EXCEPT ![j] = "started"]
        /\ Asvio!Publish(j, "running", FALSE)
        /\ UNCHANGED << queueHead, queueTail, nextQueued, stopping, dispatcher, taken, seen >>
    BY DEF Asvio!TaskStart, Asvio!queue
  <1>2. /\ j \in Jobs /\ j = pool[1] /\ 1 \in 1 .. Len(pool)
        /\ pool' \in Seq(Jobs) /\ Len(pool') = Len(pool) - 1 /\ Len(pool) \in Nat
        /\ \A i \in 1 .. Len(pool') : i + 1 \in 1 .. Len(pool) /\ pool'[i] = pool[i + 1]
    BY <1>1 DEF JobTypes
  <1> HIDE DEF j
  <1>3. /\ DOMAIN rec' = Jobs
        /\ \A p \in Jobs : DOMAIN rec'[p] = JobFields /\ rec'[p].state \in JobStates
        /\ client' \in [Jobs -> {"new", "ask", "waiting", "end"}]
        /\ \A p \in Jobs \ {j} : rec'[p] = rec[p]
        /\ rec[j].state # "taken" => rec'[j] = rec[j]
        /\ rec[j].state = "taken" => rec'[j].state \in {"taken", "finished"}
        /\ rec'[j].state = "taken" => (rec'[j].input <=> rec[j].input)
        /\ \A p \in Jobs : client'[p] = "new" <=> client[p] = "new"
        /\ \A p \in Jobs : client'[p] = "waiting" => client[p] = "waiting" /\ rec' = rec
    BY <1>1, <1>2, PublishDoes
  <1>4. JobTypes'
    BY <1>1, <1>2, <1>3 DEF JobTypes
  <1>5. \A p \in Jobs : rec'[p].state = "queued" <=> rec[p].state = "queued"
    BY <1>1, <1>2, PublishKeepsQueue
  <1>6. HandedOver'
    <2>1. ~Untouched(j)
      BY <1>2 DEF Untouched
    <2>2. \A p \in Jobs \ {j} : Untouched(p) => Untouched(p)'
      BY <1>1, <1>2 DEF Untouched, JobTypes
    <2>3. \A i, k \in 1 .. Len(pool') : pool'[i] = pool'[k] => i = k
      BY <1>2 DEF HandedOver
    <2>4. \A i \in 1 .. Len(pool') : task'[pool'[i]] = "none"
      <3> SUFFICES ASSUME NEW i \in 1 .. Len(pool')
                   PROVE  task'[pool'[i]] = "none"
        OBVIOUS
      <3>1. pool'[i] = pool[i + 1] /\ pool[i + 1] # j /\ task[pool[i + 1]] = "none"
        BY <1>2 DEF HandedOver
      <3>2. pool[i + 1] \in Jobs
        BY <1>2 DEF JobTypes
      <3> QED
        BY <1>1, <3>1, <3>2 DEF JobTypes
    <2>5. \A p \in Jobs : client'[p] = "new" \/ rec'[p].state = "queued" => Untouched(p)'
      BY <1>3, <1>5, <2>1, <2>2 DEF HandedOver
    <2>6. dispatcher' = "got" => taken' \in Jobs /\ rec'[taken'].state = "taken" /\ Untouched(taken)'
      BY <1>1, <1>3, <2>1, <2>2 DEF HandedOver
    <2>7. \A p \in Jobs : client'[p] = "new" => rec'[p].state = "none"
      BY <1>3 DEF HandedOver
    <2>8. \A p \in Jobs : rec'[p].state \in {"queued", "taken"} => rec'[p].input
      BY <1>3 DEF HandedOver
    <2> QED
      BY <2>3, <2>4, <2>5, <2>6, <2>7, <2>8 DEF HandedOver
  <1>7. NobodyOversleeps'
    BY <1>1, <1>3, <1>5 DEF NobodyOversleeps, Asvio!NobodyOversleeps, Asvio!Ready, Asvio!Known
  <1> QED
    BY <1>1, <1>4, <1>5, <1>6, <1>7, JobsKept

\* A worker thread goes on with its job, and tells of it or not.
LEMMA TaskGoesOn ==
  ASSUME JobsInv, NEW j \in Jobs, task[j] # "none",
         NEW t \in {"started", "yielded", "working", "end"}, task' = [task EXCEPT ![j] = t],
         UNCHANGED << queueHead, queueTail, nextQueued, stopping, dispatcher, taken, pool, seen >>,
         \/ UNCHANGED << rec, client >>
         \/ \E status, final : Asvio!Publish(j, status, final)
  PROVE  JobsInv'
  <1> USE DEF JobsInv
  <1>1. /\ DOMAIN rec' = Jobs
        /\ \A p \in Jobs : DOMAIN rec'[p] = JobFields /\ rec'[p].state \in JobStates
        /\ client' \in [Jobs -> {"new", "ask", "waiting", "end"}]
        /\ \A p \in Jobs \ {j} : rec'[p] = rec[p]
        /\ rec[j].state # "taken" => rec'[j] = rec[j]
        /\ rec[j].state = "taken" => rec'[j].state \in {"taken", "finished"}
        /\ rec'[j].state = "taken" => (rec'[j].input <=> rec[j].input)
        /\ \A p \in Jobs : client'[p] = "new" <=> client[p] = "new"
        /\ \A p \in Jobs : client'[p] = "waiting" => client[p] = "waiting" /\ rec' = rec
    <2>1. CASE UNCHANGED << rec, client >>
      BY <2>1 DEF JobTypes
    <2>2. CASE \E status, final : Asvio!Publish(j, status, final)
      BY <2>2, PublishDoes
    <2> QED
      BY <2>1, <2>2
  <1>2. JobTypes'
    BY <1>1 DEF JobTypes
  <1>3. \A p \in Jobs : rec'[p].state = "queued" <=> rec[p].state = "queued"
    BY <1>1
  <1>4. HandedOver'
    <2>1. ~Untouched(j) /\ \A p \in Jobs \ {j} : Untouched(p) => Untouched(p)'
      BY DEF Untouched, JobTypes
    <2>2. \A i \in 1 .. Len(pool') : task'[pool'[i]] = "none"
      BY DEF HandedOver, JobTypes
    <2>3. \A p \in Jobs : client'[p] = "new" \/ rec'[p].state = "queued" => Untouched(p)'
      BY <1>1, <1>3, <2>1 DEF HandedOver
    <2>4. dispatcher' = "got" => taken' \in Jobs /\ rec'[taken'].state = "taken" /\ Untouched(taken)'
      BY <1>1, <2>1 DEF HandedOver
    <2>5. \A p \in Jobs : client'[p] = "new" => rec'[p].state = "none"
      BY <1>1 DEF HandedOver
    <2>6. \A p \in Jobs : rec'[p].state \in {"queued", "taken"} => rec'[p].input
      BY <1>1 DEF HandedOver
    <2>7. \A i, k \in 1 .. Len(pool') : pool'[i] = pool'[k] => i = k
      BY DEF HandedOver
    <2> QED
      BY <2>2, <2>3, <2>4, <2>5, <2>6, <2>7 DEF HandedOver
  <1>5. NobodyOversleeps'
    BY <1>1, <1>3 DEF NobodyOversleeps, Asvio!NobodyOversleeps, Asvio!Ready, Asvio!Known
  <1> QED
    BY <1>2, <1>3, <1>4, <1>5, JobsKept

LEMMA TasksKeepJobs ==
  ASSUME JobsInv, NEW j \in Jobs,
         \/ Asvio!TaskLooks(j) \/ Asvio!TaskYields(j) \/ Asvio!TaskReturns(j) \/ Asvio!TaskExits(j)
  PROVE  JobsInv'
  <1>1. /\ task[j] # "none"
        /\ UNCHANGED << queueHead, queueTail, nextQueued, stopping, dispatcher, taken, pool, seen >>
    BY DEF Asvio!TaskLooks, Asvio!TaskYields, Asvio!TaskReturns, Asvio!TaskExits, Asvio!queue,
           Asvio!clients
  <1>2. \E t \in {"started", "yielded", "working", "end"} : task' = [task EXCEPT ![j] = t]
    BY DEF Asvio!TaskLooks, Asvio!TaskYields, Asvio!TaskReturns, Asvio!TaskExits, Asvio!TaskEnds
  <1>3. \/ UNCHANGED << rec, client >>
        \/ \E status, final : Asvio!Publish(j, status, final)
    <2>1. CASE Asvio!TaskLooks(j)
      BY <2>1 DEF Asvio!TaskLooks
    <2>2. CASE Asvio!TaskYields(j) \/ Asvio!TaskExits(j)
      BY <2>2 DEF Asvio!TaskYields, Asvio!TaskExits, Asvio!clients
    <2>3. CASE Asvio!TaskReturns(j)
      BY <2>3 DEF Asvio!TaskReturns
    <2> QED
      BY <2>1, <2>2, <2>3
  <1> QED
    BY <1>1, <1>2, <1>3, TaskGoesOn

LEMMA StopKeepsJobs ==
  ASSUME JobsInv, Asvio!Stop
  PROVE  JobsInv'
  <1> USE DEF JobsInv
  <1>1. /\ pool' = << >>
        /\ dispatcher' = IF dispatcher = "waiting" THEN "idle" ELSE dispatcher
        /\ client' = [j \in Jobs |-> IF client[j] = "waiting" THEN "ask" ELSE client[j]]
        /\ UNCHANGED << rec, queueHead, queueTail, nextQueued, taken, task, seen >>
    BY DEF Asvio!Stop, Asvio!Changed, Asvio!queue
  <1>2. stopping' \in BOOLEAN
    BY Zenon DEF Asvio!Stop
  <1>3. JobTypes'
    BY <1>1, <1>2 DEF JobTypes
  <1>4. HandedOver'
    BY <1>1 DEF HandedOver, Untouched, JobTypes
  <1>5. NobodyOversleeps'
    BY <1>1 DEF NobodyOversleeps, Asvio!NobodyOversleeps, JobTypes
  <1> QED
    BY <1>1, <1>3, <1>4, <1>5, JobsKept

LEMMA NextKeepsJobs == JobsInv /\ [Asvio!Next]_jobVars => JobsInv'
  <1> SUFFICES ASSUME JobsInv, [Asvio!Next]_jobVars PROVE JobsInv'
    OBVIOUS
  <1>1. CASE UNCHANGED jobVars
    <2> USE <1>1 DEF jobVars, JobsInv
    <2>1. JobTypes'
      BY DEF JobTypes
    <2>2. HandedOver'
      BY DEF HandedOver, Untouched
    <2>3. NobodyOversleeps'
      BY DEF NobodyOversleeps, Asvio!NobodyOversleeps, Asvio!Ready, Asvio!Known
    <2> QED
      BY <2>1, <2>2, <2>3, JobsKept
  <1>2. ASSUME NEW j \in Jobs,
               \/ Asvio!RunCallback(j) \/ Asvio!PollCallback(j) \/ Asvio!PollTimeout(j)
               \/ Asvio!CancelCallback(j) \/ Asvio!GrowOld(j)
               \/ Asvio!TaskLooks(j) \/ Asvio!TaskYields(j) \/ Asvio!TaskReturns(j)
               \/ Asvio!TaskExits(j)
        PROVE  JobsInv'
    BY <1>2, RunCallbackKeepsJobs, PollKeepsJobs, CancelKeepsJobs, GrowOldKeepsJobs, TasksKeepJobs
  <1>3. CASE Asvio!NextJob \/ Asvio!NextJobTimeout \/ Asvio!Dispatch \/ Asvio!TaskStart \/ Asvio!Stop
    BY <1>3, DispatcherKeepsJobs, DispatchKeepsJobs, TaskStartKeepsJobs, StopKeepsJobs
  <1> QED
    BY <1>1, <1>2, <1>3 DEF Asvio!Next


-----------------------------------------------------------------------------
(* SuperMarket: the list, the changes that are asked for, and what phones show *)

ItemFields == {"id", "qty", "checked"}
CartFields == {"rev", "title", "items", "header"}

\* A name is in the list once, by its key.
Items(s) ==
  /\ IsSeq(s)
  /\ \A i \in 1 .. Len(s) : DOMAIN s[i] = ItemFields
  /\ \A i, k \in 1 .. Len(s) : s[i].id[1] = s[k].id[1] => i = k

\* A list as withCart has it in memory and writes it whole.
Whole(c) ==
  /\ DOMAIN c = CartFields
  /\ c = [rev |-> c.rev, title |-> c.title, items |-> c.items, header |-> c.header]
  /\ c.header = TRUE /\ c.rev \in Nat /\ c.title # "-" /\ Items(c.items)

Holding(p) == phonePc[p] \in {"locked", "truncated"}

\* The list everybody agrees on: that of whoever holds flock, else the file.
TheList == IF cartLock = Nobody THEN Cart!ParseCart(cartFile) ELSE work[cartLock]

\* The changes that were asked for and are not in it.
Pending == {p \in Phones : phonePc[p] = "wanted" /\ deed[p] # Cart!Read}

CartTypes ==
  /\ DOMAIN phonePc = Phones /\ DOMAIN deed = Phones
  /\ DOMAIN work = Phones /\ DOMAIN shown = Phones
  /\ \A p \in Phones : phonePc[p] \in {"idle", "wanted", "locked", "truncated", "written"}
  /\ \A p \in Phones : "kind" \in DOMAIN deed[p] /\ (deed[p].kind = "name" => deed[p].title # "-")
  /\ changed \in Nat

CartLocked ==
  /\ cartLock \in Phones \cup {Nobody}
  /\ \A p \in Phones : cartLock = p <=> Holding(p)
  /\ cartLock = Nobody => cartFile = Cart!Empty \/ Whole(cartFile)
  /\ \A p \in Phones : Holding(p) => Whole(work[p])

AllCounted ==
  IsFiniteSet(Pending) /\ changed = TheList.rev + Cardinality(Pending)

WriterKnows(p) ==
  phonePc[p] = "written" =>
    Whole(work[p]) /\ work[p].rev <= TheList.rev /\ (work[p].rev = TheList.rev => work[p] = TheList)

PageShows(p) ==
  shown[p].loaded =>
    /\ shown[p].rev \in Nat /\ shown[p].rev <= TheList.rev
    /\ shown[p].rev = TheList.rev /\ Pending = {} => shown[p] = Cart!Json(TheList)

ListKnown == \A p \in Phones : WriterKnows(p) /\ PageShows(p)

CartInv == CartTypes /\ CartLocked /\ AllCounted /\ ListKnown

-----------------------------------------------------------------------------
(* What the operations on the list do *)

LEMMA SeedIsWhole == Whole(Cart!SeedCart) /\ Cart!SeedCart.rev = 0
  <1> DEFINE s == Cart!SeedCart.items
             q == << "a" >>
  <1>1. DOMAIN q = 1 .. 1 /\ q[1] = "a"
    OBVIOUS
  <1>2. s = [i \in DOMAIN q |-> [id |-> << q[i], 0 >>, qty |-> 1, checked |-> TRUE]]
    BY DEF Cart!SeedCart, Cart!NewItem
  <1>3. DOMAIN s = 1 .. 1 /\ s = [i \in DOMAIN s |-> s[i]] /\ DOMAIN s[1] = ItemFields
    BY <1>1, <1>2 DEF ItemFields
  <1>4. Len(s) = 1
    BY <1>3, MapIsASequence
  <1>5. Items(s)
    BY <1>3, <1>4 DEF Items, IsSeq
  <1> QED
    BY <1>5 DEF Whole, CartFields, Cart!SeedCart

LEMMA AddKeepsItems ==
  ASSUME NEW s, Items(s), NEW key, NEW rev
  PROVE  Items(Cart!Add(s, key, rev))
  <1> DEFINE n == Len(s)
  <1>1. n \in Nat /\ DOMAIN s = 1 .. n
    BY DEF Items, IsSeq
  <1>2. CASE \E i \in DOMAIN s : s[i].id[1] = key
    <2> DEFINE r == [i \in DOMAIN s |->
                      IF s[i].id[1] = key THEN [s[i] EXCEPT !.checked = FALSE] ELSE s[i]]
    <2>1. Cart!Add(s, key, rev) = r
      BY <1>2 DEF Cart!Add
    <2>2. DOMAIN r = 1 .. n /\ r = [i \in DOMAIN r |-> r[i]]
      BY <1>1
    <2>3. Len(r) = n
      BY <1>1, <2>2, MapIsASequence
    <2>4. \A i \in 1 .. n : DOMAIN r[i] = ItemFields /\ r[i].id = s[i].id
      BY <1>1 DEF Items, IsSeq, ItemFields
    <2> HIDE DEF r
    <2> QED
      BY <1>1, <2>1, <2>2, <2>3, <2>4 DEF Items, IsSeq
  <1>3. CASE ~\E i \in DOMAIN s : s[i].id[1] = key
    <2> DEFINE new == Cart!NewItem(key, rev, FALSE)
               r   == << new >> \o s
               S   == {new} \cup {s[i] : i \in 1 .. n}
    <2>1. new.id[1] = key /\ DOMAIN new = ItemFields
      BY DEF Cart!NewItem, ItemFields
    <2>2. s \in Seq(S)
      <3>1. \A i \in 1 .. n : s[i] \in S
        OBVIOUS
      <3> QED
        BY <3>1, ItIsASequence DEF Items, IsSeq
    <2> HIDE DEF new
    <2>3. << new >> \in Seq(S)
      OBVIOUS
    <2>4. /\ r \in Seq(S) /\ Len(r) = n + 1
          /\ r[1] = new /\ \A i \in 2 .. n + 1 : r[i] = s[i - 1]
      <3> HIDE DEF S
      <3> QED
        BY <1>1, <2>2, <2>3
    <2>5. IsSeq(r)
      BY <2>4, SequencesAre
    <2>6. \A i \in 1 .. n + 1 : DOMAIN r[i] = ItemFields
      BY <1>1, <2>1, <2>4 DEF Items, IsSeq
    <2>7. \A i, k \in 1 .. n + 1 : r[i].id[1] = r[k].id[1] => i = k
      <3>1. \A i \in 2 .. n + 1 : i - 1 \in 1 .. n /\ r[i].id[1] # key
        BY <1>1, <1>3, <2>4
      <3>2. \A i, k \in 2 .. n + 1 : r[i].id[1] = r[k].id[1] => i - 1 = k - 1
        BY <1>1, <2>4, <3>1 DEF Items, IsSeq
      <3> HIDE DEF r
      <3> QED
        BY <1>1, <2>1, <2>4, <3>1, <3>2
    <2>8. Items(r)
      <3> HIDE DEF r
      <3> QED
        BY <1>1, <2>4, <2>5, <2>6, <2>7 DEF Items, IsSeq
    <2> QED
      BY <1>3, <2>8 DEF Cart!Add, new
  <1> QED
    BY <1>2, <1>3

LEMMA UpdateKeepsItems ==
  ASSUME NEW s, Items(s), NEW id, NEW new,
         \A i \in DOMAIN s : DOMAIN new[i] = ItemFields /\ new[i].id = s[i].id
  PROVE  Items(Cart!Update(s, id, new))
  <1> DEFINE r == Cart!Update(s, id, new)
  <1>1. r = [i \in DOMAIN s |-> IF s[i].id = id THEN new[i] ELSE s[i]]
    BY DEF Cart!Update
  <1>2. DOMAIN s = 1 .. Len(s) /\ Len(s) \in Nat
    BY DEF Items, IsSeq
  <1>3. DOMAIN r = 1 .. Len(s) /\ r = [i \in DOMAIN r |-> r[i]]
    BY <1>1, <1>2
  <1>4. Len(r) = Len(s)
    BY <1>2, <1>3, MapIsASequence
  <1>5. \A i \in 1 .. Len(s) : DOMAIN r[i] = ItemFields /\ r[i].id = s[i].id
    BY <1>1, <1>2 DEF Items, IsSeq
  <1> HIDE DEF r
  <1>6. Items(r)
    BY <1>2, <1>3, <1>4, <1>5 DEF Items, IsSeq
  <1> QED
    BY <1>6 DEF r

Removed(s, id) == Cart!RemoveFirstMatch(s, LAMBDA i : i.id = id)

LEMMA RemoveKeepsItems ==
  ASSUME NEW s, Items(s), NEW id
  PROVE  Items(Removed(s, id))
  <1>1. CASE \E i \in 1 .. Len(s) : s[i].id = id
    <2>1. PICK k \in 1 .. Len(s) : s[k].id = id
      BY <1>1
    <2> DEFINE I == {i \in 1 .. Len(s) : s[i].id = id}
               r == Cart!RemoveAt(s, k)
    <2>2. I = {k}
      BY <2>1 DEF Items, IsSeq
    <2>3. Cart!Min(I) = k
      BY <2>2 DEF Cart!Min
    <2>4. Removed(s, id) = r
      BY <1>1, <2>2, <2>3 DEF Removed, Cart!RemoveFirstMatch, Cart!SelectInSeq
    <2>5. r = RemoveAt(s, k)
      BY DEF RemoveAt, Cart!RemoveAt
    <2>6. IsSeq(s)
      BY DEF Items
    <2> HIDE DEF r
    <2>7. IsSeq(r) /\ WithoutOne(s, k, r)
      BY <2>1, <2>5, <2>6, OneIsRemoved
    <2>8. PICK at : /\ \A i \in 1 .. Len(r) : at[i] \in 1 .. Len(s) /\ at[i] # k /\ r[i] = s[at[i]]
                    /\ \A i, m \in 1 .. Len(r) : at[i] = at[m] => i = m
      BY <2>7 DEF WithoutOne
    <2>9. \A i \in 1 .. Len(r) : DOMAIN r[i] = ItemFields
      BY <2>8 DEF Items
    <2>10. \A i, m \in 1 .. Len(r) : r[i].id[1] = r[m].id[1] => i = m
      BY <2>8, SMTT(20) DEF Items
    <2> QED
      BY <2>4, <2>7, <2>9, <2>10 DEF Items
  <1>2. CASE ~\E i \in 1 .. Len(s) : s[i].id = id
    BY <1>2 DEF Removed, Cart!RemoveFirstMatch
  <1> QED
    BY <1>1, <1>2

LEMMA ChangedRecord ==
  ASSUME NEW c, NEW items, NEW title, Whole(c),
         NEW new, new = [c EXCEPT !.items = items, !.rev = @ + 1, !.title = title]
  PROVE  new = [rev |-> c.rev + 1, title |-> title, items |-> items, header |-> c.header]
  BY DEF Whole, CartFields

LEMMA ApplyKeepsWhole ==
  ASSUME NEW c, Whole(c), NEW d, d.kind = "name" => d.title # "-"
  PROVE  Whole(Cart!ApplyAction(c, d)) /\ Cart!ApplyAction(c, d).rev = c.rev + 1
  <1> DEFINE new == Cart!ApplyAction(c, d)
             s   == c.items
             qty(i)    == [s[i] EXCEPT !.qty = Cart!Clamp(@ + d.delta - 1)]
             value(i)  == [s[i] EXCEPT !.qty = Cart!Clamp(d.value)]
             toggle(i) == [s[i] EXCEPT !.checked = ~@]
  <1>1. Items(s) /\ c.rev \in Nat /\ c.header = TRUE /\ c.title # "-"
    BY DEF Whole
  <1>2. \A i \in DOMAIN s : DOMAIN s[i] = ItemFields
    BY <1>1 DEF Items
  <1>3. Items(new.items)
    <2>1. CASE d.kind = "add"
      <3>1. new.items = Cart!Add(s, d.key, c.rev + 1)
        BY <2>1 DEF Cart!ApplyAction, Whole, CartFields
      <3> HIDE DEF new
      <3> QED
        BY <1>1, <3>1, AddKeepsItems
    <2>2. CASE d.kind = "qty"
      <3> DEFINE f == [i \in DOMAIN s |-> qty(i)]
      <3>1. new.items = Cart!Update(s, d.id, f)
        BY <2>2 DEF Cart!ApplyAction, Whole, CartFields
      <3>2. \A i \in DOMAIN s : DOMAIN f[i] = ItemFields /\ f[i].id = s[i].id
        BY <1>2 DEF ItemFields
      <3> HIDE DEF new, f
      <3> QED
        BY <1>1, <3>1, <3>2, UpdateKeepsItems
    <2>3. CASE d.kind = "value"
      <3> DEFINE f == [i \in DOMAIN s |-> value(i)]
      <3>1. new.items = Cart!Update(s, d.id, f)
        BY <2>3 DEF Cart!ApplyAction, Whole, CartFields
      <3>2. \A i \in DOMAIN s : DOMAIN f[i] = ItemFields /\ f[i].id = s[i].id
        BY <1>2 DEF ItemFields
      <3> HIDE DEF new, f
      <3> QED
        BY <1>1, <3>1, <3>2, UpdateKeepsItems
    <2>4. CASE d.kind = "toggle"
      <3> DEFINE f == [i \in DOMAIN s |-> toggle(i)]
      <3>1. new.items = Cart!Update(s, d.id, f)
        BY <2>4 DEF Cart!ApplyAction, Whole, CartFields
      <3>2. \A i \in DOMAIN s : DOMAIN f[i] = ItemFields /\ f[i].id = s[i].id
        BY <1>2 DEF ItemFields
      <3> HIDE DEF new, f
      <3> QED
        BY <1>1, <3>1, <3>2, UpdateKeepsItems
    <2>5. CASE d.kind = "del"
      <3>1. new.items = Removed(s, d.id)
        BY <2>5 DEF Removed, Cart!ApplyAction, Whole, CartFields
      <3> HIDE DEF new
      <3> QED
        BY <1>1, <3>1, RemoveKeepsItems
    <2>6. CASE d.kind \notin {"add", "qty", "value", "toggle", "del"}
      <3>1. new.items = s
        BY <2>6 DEF Cart!ApplyAction, Whole, CartFields
      <3> QED
        BY <1>1, <3>1
    <2> QED
      BY <2>1, <2>2, <2>3, <2>4, <2>5, <2>6
  <1> DEFINE title == IF d.kind = "name" THEN d.title ELSE c.title
  <1>4. \E items : new = [c EXCEPT !.items = items, !.rev = @ + 1, !.title = title]
    BY Zenon DEF Cart!ApplyAction
  <1>5. PICK items :
          new = [rev |-> c.rev + 1, title |-> title, items |-> items, header |-> c.header]
    <2> HIDE DEF new, title
    <2> QED
      BY <1>4, ChangedRecord
  <1> HIDE DEF new
  <1>6. Whole(new) /\ new.rev = c.rev + 1
    BY <1>1, <1>3, <1>5 DEF Whole, CartFields
  <1> QED
    BY <1>6 DEF new

LEMMA WholeIsParsed == ASSUME NEW c, Whole(c) PROVE Cart!ParseCart(c) = c
  BY DEF Whole, CartFields, Cart!ParseCart

LEMMA EmptyIsSeeded ==
  /\ Cart!ParseCart(Cart!Empty) = Cart!SeedCart
  /\ Cart!Empty.rev = 0 /\ Cart!Empty.items = << >>
  BY DEF Cart!ParseCart, Cart!Empty

\* Whoever is not in the middle of a change sees a list that is whole.
LEMMA TheListIsWhole ==
  ASSUME CartLocked
  PROVE  Whole(TheList) /\ (cartLock = Nobody => TheList.rev = cartFile.rev)
  <1>1. CASE cartLock = Nobody
    <2>1. CASE cartFile = Cart!Empty
      BY <1>1, <2>1, EmptyIsSeeded, SeedIsWhole DEF TheList
    <2>2. CASE Whole(cartFile)
      BY <1>1, <2>2, WholeIsParsed DEF TheList
    <2> QED
      BY <1>1, <2>1, <2>2 DEF CartLocked
  <1>2. CASE cartLock # Nobody
    BY <1>2 DEF TheList, CartLocked
  <1> QED
    BY <1>1, <1>2

LEMMA InitCart == Cart!Init => CartInv
  <1> SUFFICES ASSUME Cart!Init PROVE CartInv
    OBVIOUS
  <1>1. CartTypes
    BY DEF CartTypes, Cart!Init, Cart!Read
  <1>2. CartLocked
    BY NobodyAssumption DEF CartLocked, Cart!Init, Holding
  <1>3. TheList.rev = 0
    BY EmptyIsSeeded, SeedIsWhole DEF TheList, Cart!Init
  <1>4. Pending = {}
    BY DEF Pending, Cart!Init
  <1>5. AllCounted
    BY <1>3, <1>4, FS_EmptySet DEF AllCounted, Cart!Init
  <1>6. ListKnown
    BY DEF ListKnown, WriterKnows, PageShows, Cart!Init, Cart!NoPage
  <1> QED
    BY <1>1, <1>2, <1>5, <1>6 DEF CartInv

-----------------------------------------------------------------------------
(* What the steps do to it *)

\* A request comes in: for the list, or for a change of it.
LEMMA AskingKeeps ==
  ASSUME CartInv, NEW p \in Phones, NEW d,
         phonePc[p] = "idle", phonePc' = [phonePc EXCEPT ![p] = "wanted"],
         deed' = [deed EXCEPT ![p] = d],
         "kind" \in DOMAIN d, d.kind = "name" => d.title # "-",
         UNCHANGED << cartFile, cartLock, work, shown >>,
         \/ d = Cart!Read /\ UNCHANGED << photos, changed >>
         \/ d # Cart!Read /\ changed' = changed + 1
  PROVE  CartInv'
  <1>1. CartTypes'
    BY DEF CartInv, CartTypes
  <1>2. /\ \A q \in Phones : Holding(q)' <=> Holding(q)
        /\ \A q \in Phones : phonePc'[q] = "written" <=> phonePc[q] = "written"
    BY DEF CartInv, CartTypes, Holding
  <1>3. CartLocked'
    BY <1>2, SMTT(20) DEF CartInv, CartLocked, Whole, Items, IsSeq
  <1>4. TheList' = TheList
    BY DEF TheList
  <1>5. TheList.rev \in Nat
    BY TheListIsWhole DEF CartInv, Whole
  <1>6. CASE d = Cart!Read /\ UNCHANGED << photos, changed >>
    <2>1. Pending' = Pending
      BY <1>6 DEF CartInv, CartTypes, Pending
    <2>2. AllCounted'
      BY <1>4, <1>6, <2>1 DEF CartInv, AllCounted
    <2>3. ASSUME NEW q \in Phones
          PROVE  WriterKnows(q)' /\ PageShows(q)'
      <3>1. WriterKnows(q)'
        BY <1>2, <1>4 DEF CartInv, ListKnown, WriterKnows, Whole, Items, IsSeq
      <3>2. Cart!Json(TheList)' = Cart!Json(TheList)
        BY <1>4, <1>6 DEF Cart!Json
      <3>3. PageShows(q)'
        BY <1>4, <1>6, <2>1, <3>2 DEF CartInv, ListKnown, PageShows
      <3> QED
        BY <3>1, <3>3
    <2> QED
      BY <1>1, <1>3, <2>2, <2>3 DEF CartInv, ListKnown
  <1>7. CASE d # Cart!Read /\ changed' = changed + 1
    <2>1. Pending' = Pending \cup {p} /\ p \notin Pending
      BY <1>7 DEF CartInv, CartTypes, Pending
    <2>2. AllCounted'
      <3>1. IsFiniteSet(Pending') /\ Cardinality(Pending') = Cardinality(Pending) + 1
        BY <2>1, FS_AddElement DEF CartInv, AllCounted
      <3>2. Cardinality(Pending) \in Nat /\ changed = TheList.rev + Cardinality(Pending)
        BY FS_CardinalityType DEF CartInv, AllCounted
      <3> QED
        BY <1>4, <1>5, <1>7, <3>1, <3>2 DEF AllCounted
    <2>3. ASSUME NEW q \in Phones
          PROVE  WriterKnows(q)' /\ PageShows(q)'
      <3>1. WriterKnows(q)'
        BY <1>2, <1>4 DEF CartInv, ListKnown, WriterKnows, Whole, Items, IsSeq
      <3>2. PageShows(q)'
        BY <1>4, <2>1 DEF CartInv, ListKnown, PageShows
      <3> QED
        BY <3>1, <3>2
    <2> QED
      BY <1>1, <1>3, <2>2, <2>3 DEF CartInv, ListKnown
  <1> QED
    BY <1>6, <1>7

LEMMA RequestsKeepCart ==
  ASSUME CartInv, "-" \notin Titles, NEW p \in Phones,
         Cart!Change(p) \/ Cart!Load(p) \/ Cart!Poll(p) \/ Cart!PhotoUpload(p)
  PROVE  CartInv'
  <1>1. CASE Cart!Change(p)
    <2>1. PICK d \in Cart!Deeds(p) : deed' = [deed EXCEPT ![p] = d]
      BY <1>1 DEF Cart!Change
    <2>2. "kind" \in DOMAIN d /\ d.kind # "read" /\ (d.kind = "name" => d.title \in Titles)
      BY <2>1 DEF Cart!Deeds
    <2>3. d # Cart!Read
      BY <2>2 DEF Cart!Read
    <2> QED
      BY <1>1, <2>1, <2>2, <2>3, AskingKeeps DEF Cart!Change
  <1>2. "kind" \in DOMAIN Cart!Read /\ Cart!Read.kind = "read"
    BY DEF Cart!Read
  <1>3. CASE Cart!Load(p)
    BY <1>2, <1>3, AskingKeeps DEF Cart!Load
  <1>4. CASE Cart!Poll(p)
    BY <1>2, <1>4, AskingKeeps DEF Cart!Poll
  <1>5. CASE Cart!PhotoUpload(p)
    <2> DEFINE noop == [kind |-> "noop"]
    <2>1. "kind" \in DOMAIN noop /\ noop.kind = "noop" /\ noop # Cart!Read
      BY DEF Cart!Read
    <2> HIDE DEF noop
    <2>2. \/ deed' = [deed EXCEPT ![p] = noop] /\ changed' = changed + 1
          \/ deed' = [deed EXCEPT ![p] = Cart!Read] /\ UNCHANGED << photos, changed >>
      BY <1>5 DEF Cart!PhotoUpload, noop
    <2> QED
      BY <1>2, <1>5, <2>1, <2>2, AskingKeeps DEF Cart!PhotoUpload
  <1> QED
    BY <1>1, <1>3, <1>4, <1>5

LEMMA LockAndApplyKeeps ==
  ASSUME CartInv, NEW p \in Phones, Cart!LockAndApply(p)
  PROVE  CartInv'
  <1> DEFINE c == Cart!ParseCart(cartFile)
             d == deed[p]
  <1>1. /\ phonePc[p] = "wanted" /\ cartLock = Nobody /\ cartLock' = p /\ p # Nobody
        /\ phonePc' = [phonePc EXCEPT ![p] = "locked"]
        /\ work' = [work EXCEPT ![p] = IF d = Cart!Read THEN c ELSE Cart!ApplyAction(c, d)]
        /\ photos' = photos \ Cart!Unlinked(c, d)
        /\ UNCHANGED << cartFile, deed, shown, changed >>
    BY NobodyAssumption DEF Cart!LockAndApply
  <1>2. TheList = c /\ Whole(c)
    BY <1>1, TheListIsWhole DEF CartInv, TheList
  <1> DEFINE w == IF d = Cart!Read THEN c ELSE Cart!ApplyAction(c, d)
  <1>3. /\ Whole(w) /\ TheList' = w /\ work'[p] = w
        /\ w.rev = IF d = Cart!Read THEN c.rev ELSE c.rev + 1
    <2>1. d.kind = "name" => d.title # "-"
      BY DEF CartInv, CartTypes
    <2>2. Whole(w) /\ w.rev = IF d = Cart!Read THEN c.rev ELSE c.rev + 1
      <3> HIDE DEF c, d
      <3> QED
        BY <1>2, <2>1, ApplyKeepsWhole
    <2>3. work'[p] = w
      BY <1>1 DEF CartInv, CartTypes
    <2> QED
      BY <1>1, <2>2, <2>3 DEF TheList
  <1> HIDE DEF w
  <1>4. CartTypes'
    BY <1>1 DEF CartInv, CartTypes
  <1>5. \A q \in Phones \ {p} : phonePc'[q] = phonePc[q] /\ work'[q] = work[q]
    BY <1>1 DEF CartInv, CartTypes
  <1>6. phonePc'[p] = "locked" /\ \A q \in Phones : ~Holding(q)
    BY <1>1, NobodyAssumption DEF CartInv, CartTypes, CartLocked
  <1>7. CartLocked'
    BY <1>1, <1>3, <1>5, <1>6, SMTT(20) DEF CartLocked, Holding, Whole, Items, IsSeq
  <1>8. c.rev \in Nat
    BY <1>2 DEF Whole
  <1>9. CASE d = Cart!Read
    <2>1. photos' = photos /\ TheList' = TheList
      BY <1>1, <1>2, <1>3, <1>9 DEF Cart!Unlinked, Cart!Read, w
    <2>2. Pending' = Pending
      BY <1>1, <1>5, <1>6, <1>9 DEF Pending
    <2>3. AllCounted'
      BY <1>1, <2>1, <2>2 DEF CartInv, AllCounted
    <2>4. ASSUME NEW q \in Phones
          PROVE  WriterKnows(q)' /\ PageShows(q)'
      <3>1. WriterKnows(q)'
        <4>1. CASE q = p
          BY <1>6, <4>1 DEF WriterKnows
        <4>2. CASE q # p
          <5>1. phonePc'[q] = phonePc[q] /\ work'[q] = work[q]
            BY <1>5, <4>2
          <5>2. Whole(work[q])' <=> Whole(work[q])
            BY <5>1 DEF Whole, Items, IsSeq
          <5> QED
            BY <2>1, <5>1, <5>2 DEF CartInv, ListKnown, WriterKnows
        <4> QED
          BY <4>1, <4>2
      <3>2. Cart!Json(TheList)' = Cart!Json(TheList)
        BY <2>1 DEF Cart!Json
      <3>3. PageShows(q)'
        BY <1>1, <2>1, <2>2, <3>2 DEF CartInv, ListKnown, PageShows
      <3> QED
        BY <3>1, <3>3
    <2> QED
      BY <1>4, <1>7, <2>3, <2>4 DEF CartInv, ListKnown
  <1>10. CASE d # Cart!Read
    <2>1. Pending' = Pending \ {p} /\ p \in Pending
      BY <1>1, <1>5, <1>6, <1>10 DEF Pending
    <2>2. AllCounted'
      <3>1. IsFiniteSet(Pending') /\ Cardinality(Pending') = Cardinality(Pending) - 1
        BY <2>1, FS_RemoveElement DEF CartInv, AllCounted
      <3>2. Cardinality(Pending) \in Nat /\ changed = c.rev + Cardinality(Pending)
        BY <1>2, FS_CardinalityType DEF CartInv, AllCounted
      <3>3. TheList'.rev = c.rev + 1 /\ changed' = changed
        BY <1>1, <1>3, <1>10
      <3> QED
        BY <1>8, <3>1, <3>2, <3>3 DEF AllCounted
    <2>3. TheList'.rev = TheList.rev + 1 /\ TheList.rev \in Nat
      BY <1>2, <1>3, <1>8, <1>10
    <2>4. ASSUME NEW q \in Phones
          PROVE  WriterKnows(q)' /\ PageShows(q)'
      <3>1. WriterKnows(q)'
        <4>1. CASE q = p
          BY <1>6, <4>1 DEF WriterKnows
        <4>2. CASE q # p
          <5>1. phonePc'[q] = phonePc[q] /\ work'[q] = work[q]
            BY <1>5, <4>2
          <5>2. Whole(work[q])' <=> Whole(work[q])
            BY <5>1 DEF Whole, Items, IsSeq
          <5>3. Whole(work[q]) => work[q].rev \in Nat
            BY DEF Whole
          <5>4. phonePc[q] = "written" => Whole(work[q]) /\ work[q].rev <= TheList.rev
            BY DEF CartInv, ListKnown, WriterKnows
          <5>5. phonePc[q] = "written" => work'[q].rev < TheList'.rev
            BY <2>3, <5>1, <5>3, <5>4
          <5> QED
            BY <2>3, <5>1, <5>2, <5>3, <5>4, <5>5 DEF WriterKnows
        <4> QED
          BY <4>1, <4>2
      <3>2. PageShows(q)'
        BY <1>1, <2>3 DEF CartInv, ListKnown, PageShows
      <3> QED
        BY <3>1, <3>2
    <2> QED
      BY <1>4, <1>7, <2>2, <2>4 DEF CartInv, ListKnown
  <1> QED
    BY <1>9, <1>10

LEMMA TruncateKeeps ==
  ASSUME CartInv, NEW p \in Phones, Cart!Truncate(p)
  PROVE  CartInv'
  <1>1. /\ phonePc[p] = "locked" /\ phonePc' = [phonePc EXCEPT ![p] = "truncated"]
        /\ UNCHANGED << photos, cartLock, deed, work, shown, changed >>
    BY DEF Cart!Truncate
  <1>2. CartTypes'
    BY <1>1 DEF CartInv, CartTypes
  <1>3. /\ \A q \in Phones : Holding(q)' <=> Holding(q)
        /\ \A q \in Phones : phonePc'[q] = "written" <=> phonePc[q] = "written"
    BY <1>1 DEF CartInv, CartTypes, Holding
  <1>4. cartLock = p /\ p # Nobody
    BY <1>1, NobodyAssumption DEF CartInv, CartLocked, Holding
  <1>5. CartLocked'
    <2>1. \A q \in Phones : Holding(q) => Whole(work[q])'
      BY <1>1 DEF CartInv, CartLocked, Whole, Items, IsSeq
    <2> QED
      BY <1>1, <1>3, <1>4, <2>1 DEF CartInv, CartLocked
  <1>6. TheList' = TheList /\ Pending' = Pending
    BY <1>1, <1>4 DEF CartInv, CartTypes, TheList, Pending
  <1>7. AllCounted'
    BY <1>1, <1>6 DEF CartInv, AllCounted
  <1>8. ASSUME NEW q \in Phones
        PROVE  WriterKnows(q)' /\ PageShows(q)'
    <2>1. WriterKnows(q)'
      BY <1>1, <1>3, <1>6 DEF CartInv, ListKnown, WriterKnows, Whole, Items, IsSeq
    <2>2. Cart!Json(TheList)' = Cart!Json(TheList)
      BY <1>1, <1>6 DEF Cart!Json
    <2>3. PageShows(q)'
      BY <1>1, <1>6, <2>2 DEF CartInv, ListKnown, PageShows
    <2> QED
      BY <2>1, <2>3
  <1> QED
    BY <1>2, <1>5, <1>7, <1>8 DEF CartInv, ListKnown

\* What is written is the list that was held, and is what the next one parses.
LEMMA WriteBackKeeps ==
  ASSUME CartInv, NEW p \in Phones, Cart!WriteBack(p)
  PROVE  CartInv'
  <1>1. /\ phonePc[p] = "truncated" /\ phonePc' = [phonePc EXCEPT ![p] = "written"]
        /\ cartFile' = work[p] /\ cartLock' = Nobody
        /\ UNCHANGED << photos, deed, work, shown, changed >>
    BY DEF Cart!WriteBack
  <1>2. cartLock = p /\ p # Nobody /\ Whole(work[p]) /\ TheList = work[p]
    BY <1>1, NobodyAssumption DEF CartInv, CartLocked, Holding, TheList
  <1>3. CartTypes'
    BY <1>1 DEF CartInv, CartTypes
  <1>4. /\ phonePc'[p] = "written" /\ \A q \in Phones \ {p} : phonePc'[q] = phonePc[q]
        /\ \A q \in Phones \ {p} : ~Holding(q)
    BY <1>1, <1>2 DEF CartInv, CartTypes, CartLocked
  <1>5. CartLocked'
    <2>1. \A q \in Phones : ~Holding(q)'
      BY <1>4 DEF Holding
    <2>2. Whole(cartFile)'
      BY <1>1, <1>2 DEF Whole, Items, IsSeq
    <2> QED
      BY <1>1, <2>1, <2>2, NobodyAssumption DEF CartLocked
  <1>6. TheList' = TheList
    <2>1. TheList' = Cart!ParseCart(work[p])
      BY <1>1 DEF TheList, Cart!ParseCart
    <2> QED
      BY <1>2, <2>1, WholeIsParsed
  <1>7. Pending' = Pending
    BY <1>1, <1>4 DEF Pending
  <1>8. AllCounted'
    BY <1>1, <1>6, <1>7 DEF CartInv, AllCounted
  <1>9. ASSUME NEW q \in Phones
        PROVE  WriterKnows(q)' /\ PageShows(q)'
    <2>1. WriterKnows(q)'
      <3>1. work'[q] = work[q] /\ (Whole(work[q])' <=> Whole(work[q]))
        BY <1>1 DEF Whole, Items, IsSeq
      <3>2. CASE q = p
        BY <1>2, <1>6, <3>1, <3>2 DEF WriterKnows, Whole
      <3>3. CASE q # p
        BY <1>4, <1>6, <3>1, <3>3 DEF CartInv, ListKnown, WriterKnows
      <3> QED
        BY <3>2, <3>3
    <2>2. Cart!Json(TheList)' = Cart!Json(TheList)
      BY <1>1, <1>6 DEF Cart!Json
    <2>3. PageShows(q)'
      BY <1>1, <1>6, <1>7, <2>2 DEF CartInv, ListKnown, PageShows
    <2> QED
      BY <2>1, <2>3
  <1> QED
    BY <1>3, <1>5, <1>8, <1>9 DEF CartInv, ListKnown

\* The page is given what was written, with the photos as they are now.
LEMMA AnswerPhoneKeeps ==
  ASSUME CartInv, NEW p \in Phones, Cart!AnswerPhone(p)
  PROVE  CartInv'
  <1>1. /\ phonePc[p] = "written" /\ phonePc' = [phonePc EXCEPT ![p] = "idle"]
        /\ shown' = [shown EXCEPT ![p] = Cart!Json(work[p])]
        /\ work' = [work EXCEPT ![p] = Cart!Empty]
        /\ deed' = [deed EXCEPT ![p] = Cart!Read]
        /\ UNCHANGED << cartFile, photos, cartLock, changed >>
    BY DEF Cart!AnswerPhone
  <1>2. CartTypes'
    BY <1>1 DEF CartInv, CartTypes, Cart!Read
  <1>3. /\ phonePc'[p] = "idle" /\ shown'[p] = Cart!Json(work[p])
        /\ \A q \in Phones \ {p} : phonePc'[q] = phonePc[q] /\ work'[q] = work[q]
                                   /\ shown'[q] = shown[q] /\ deed'[q] = deed[q]
        /\ cartLock # p
    BY <1>1 DEF CartInv, CartTypes, CartLocked, Holding
  <1>4. CartLocked'
    <2>1. \A q \in Phones : Holding(q)' <=> Holding(q)
      BY <1>1, <1>3 DEF Holding
    <2>2. Whole(cartFile)' <=> Whole(cartFile)
      BY <1>1 DEF Whole, Items, IsSeq
    <2>3. ASSUME NEW q \in Phones, Holding(q)
          PROVE  Whole(work[q])'
      <3>1. work'[q] = work[q] /\ Whole(work[q])
        BY <1>1, <1>3, <2>3 DEF CartInv, CartLocked, Holding
      <3> QED
        BY <3>1 DEF Whole, Items, IsSeq
    <2> QED
      BY <1>1, <2>1, <2>2, <2>3 DEF CartInv, CartLocked
  <1>5. TheList' = TheList /\ Pending' = Pending
    BY <1>1, <1>3 DEF CartInv, CartLocked, TheList, Pending
  <1>6. AllCounted'
    BY <1>1, <1>5 DEF CartInv, AllCounted
  <1>7. Cart!Json(TheList)' = Cart!Json(TheList)
    BY <1>1, <1>5 DEF Cart!Json
  <1>8. PageShows(p)'
    <2>1. Whole(work[p]) /\ work[p].rev <= TheList.rev /\ (work[p].rev = TheList.rev => work[p] = TheList)
      BY <1>1 DEF CartInv, ListKnown, WriterKnows
    <2>2. Cart!Json(work[p]).rev = work[p].rev /\ work[p].rev \in Nat
      BY <2>1 DEF Cart!Json, Whole
    <2> QED
      BY <1>3, <1>5, <1>7, <2>1, <2>2 DEF PageShows
  <1>9. ASSUME NEW q \in Phones, q # p
        PROVE  WriterKnows(q)' /\ PageShows(q)'
    <2>1. phonePc'[q] = phonePc[q] /\ work'[q] = work[q] /\ shown'[q] = shown[q]
      BY <1>3, <1>9
    <2>2. Whole(work[q])' <=> Whole(work[q])
      BY <2>1 DEF Whole, Items, IsSeq
    <2>3. WriterKnows(q)'
      BY <1>5, <2>1, <2>2 DEF CartInv, ListKnown, WriterKnows
    <2>4. PageShows(q)'
      BY <1>5, <1>7, <2>1 DEF CartInv, ListKnown, PageShows
    <2> QED
      BY <2>3, <2>4
  <1>10. WriterKnows(p)'
    BY <1>3 DEF WriterKnows
  <1> QED
    BY <1>2, <1>4, <1>6, <1>8, <1>9, <1>10 DEF CartInv, ListKnown

LEMMA NextKeepsCart ==
  ASSUME "-" \notin Titles
  PROVE  CartInv /\ [Cart!Next]_cartVars => CartInv'
  <1> SUFFICES ASSUME CartInv, [Cart!Next]_cartVars PROVE CartInv'
    OBVIOUS
  <1>1. CASE UNCHANGED cartVars
    <2> USE <1>1 DEF cartVars, CartInv
    <2>1. CartTypes' /\ CartLocked'
      BY DEF CartTypes, CartLocked, Holding, Whole, Items, IsSeq
    <2>2. TheList' = TheList /\ Pending' = Pending
      BY DEF TheList, Pending
    <2>3. AllCounted'
      BY <2>2 DEF AllCounted
    <2>4. ASSUME NEW q \in Phones
          PROVE  WriterKnows(q)' /\ PageShows(q)'
      <3>1. WriterKnows(q)'
        BY <2>2 DEF ListKnown, WriterKnows, Whole, Items, IsSeq
      <3>2. Cart!Json(TheList)' = Cart!Json(TheList)
        BY <2>2 DEF Cart!Json
      <3>3. PageShows(q)'
        BY <2>2, <3>2 DEF ListKnown, PageShows
      <3> QED
        BY <3>1, <3>3
    <2> QED
      BY <2>1, <2>3, <2>4 DEF ListKnown
  <1>2. ASSUME NEW p \in Phones,
               \/ Cart!Change(p) \/ Cart!Load(p) \/ Cart!Poll(p) \/ Cart!PhotoUpload(p)
               \/ Cart!LockAndApply(p) \/ Cart!Truncate(p) \/ Cart!WriteBack(p)
               \/ Cart!AnswerPhone(p)
        PROVE  CartInv'
    BY <1>2, RequestsKeepCart, LockAndApplyKeeps, TruncateKeeps, WriteBackKeeps, AnswerPhoneKeeps
  <1> QED
    BY <1>1, <1>2 DEF Cart!Next

\* Once everybody has been answered, the list everybody agrees on is the file.
LEMMA CartIsRight == CartInv => NoChangeLost /\ ShownIsCurrent
  <1> SUFFICES ASSUME CartInv, Cart!AllAnswered
               PROVE  /\ cartFile.rev = changed
                      /\ \A i, j \in DOMAIN cartFile.items :
                           cartFile.items[i].id[1] = cartFile.items[j].id[1] => i = j
                      /\ \A p \in Phones : shown[p].loaded /\ shown[p].rev = cartFile.rev =>
                           shown[p] = Cart!Json(Cart!ParseCart(cartFile))
    BY DEF NoChangeLost, ShownIsCurrent, Cart!NoChangeLost, Cart!ShownIsCurrent, Cart!Shows
  <1>1. cartLock = Nobody /\ Pending = {}
    BY DEF CartInv, CartLocked, Cart!AllAnswered, Holding, Pending
  <1>2. /\ TheList = Cart!ParseCart(cartFile) /\ TheList.rev = cartFile.rev
        /\ cartFile = Cart!Empty \/ (Whole(cartFile) /\ TheList.rev \in Nat)
    BY <1>1, TheListIsWhole DEF CartInv, CartLocked, TheList, Whole
  <1>3. cartFile.rev = changed
    BY <1>1, <1>2, FS_EmptySet, TheListIsWhole DEF CartInv, AllCounted, Whole
  <1>4. ASSUME NEW i \in DOMAIN cartFile.items, NEW j \in DOMAIN cartFile.items,
               cartFile.items[i].id[1] = cartFile.items[j].id[1]
        PROVE  i = j
    <2>1. CASE cartFile = Cart!Empty
      BY <2>1, EmptyIsSeeded
    <2>2. CASE Whole(cartFile)
      BY <1>4, <2>2 DEF Whole, Items, IsSeq
    <2> QED
      BY <1>2, <2>1, <2>2
  <1>5. ASSUME NEW p \in Phones, shown[p].loaded, shown[p].rev = cartFile.rev
        PROVE  shown[p] = Cart!Json(Cart!ParseCart(cartFile))
    BY <1>1, <1>2, <1>5 DEF CartInv, ListKnown, PageShows
  <1> QED
    BY <1>3, <1>4, <1>5

-----------------------------------------------------------------------------
(* ShareTex: what was typed, and what a browser knows of the file *)

SaveFields  == DOMAIN Tex!NoSave
FetchFields == DOMAIN Tex!NoFetch

TexTypes ==
  /\ version \in Nat \ {0} /\ edits \in Nat /\ unsure \in BOOLEAN
  /\ DOMAIN text = Browsers /\ DOMAIN current = Browsers /\ DOMAIN had = Browsers
  /\ DOMAIN last = Browsers
  /\ dirty \in [Browsers -> BOOLEAN] /\ open \in [Browsers -> BOOLEAN]
  /\ DOMAIN save = Tex!Edits /\ DOMAIN poll = Tex!Fetches
  /\ \A n \in Tex!Edits :
       /\ DOMAIN save[n] = SaveFields
       /\ save[n].pc \in {"none", "sent", "open", "write", "count", "store", "read",
                          "answered", "done"}
       /\ save[n].pc \notin {"none", "done"} => save[n].by \in Browsers
       /\ save[n].pc = "store" => save[n].version \in Nat \ {0}
  /\ \A f \in Tex!Fetches :
       /\ DOMAIN poll[f] = FetchFields
       /\ poll[f].pc \in {"none", "sent", "read", "answered", "done"}
       /\ poll[f].pc \notin {"none", "done"} => poll[f].by \in Browsers

\* A page that its browser waits for.
Loading(f) ==
  poll[f].pc \in {"sent", "read", "answered"} /\ poll[f].kind = "page" /\ ~poll[f].left

\* An edit is the last one of one browser, which has it in the textarea until it is sent.
TypedInv ==
  /\ edits <= MaxEdits
  /\ \A n \in Tex!Edits : n > edits => save[n].pc = "none"
  /\ \A b \in Browsers :
       /\ last[b] \in 0 .. edits
       /\ \A a \in Browsers : last[a] = last[b] /\ last[a] # 0 => a = b
       /\ dirty[b] => last[b] # 0 /\ text[b] = last[b] /\ save[last[b]].pc = "none"
       /\ last[b] # 0 /\ ~dirty[b] => Tex!Sent(last[b])
  /\ \A f, g \in Tex!Fetches :
       /\ Loading(f) => ~dirty[poll[f].by] /\ ~open[poll[f].by]
       /\ Loading(f) /\ Loading(g) /\ poll[f].by = poll[g].by => f = g

Settled == \A n \in Tex!Edits : save[n].pc \notin {"write", "count", "store"}

\* A version of the file that is not newer than the file is.
NotAhead(v) == v \in Nat \ {0} /\ v <= version

\* Whoever has the version v has had the text that the file has as long as its version
\* is v.
Good(v, texts) == NotAhead(v) /\ (v = version /\ Settled => content \in texts)

Writing(n) == save[n].pc \in {"open", "write", "count", "store", "read"}

OneWriter == \A m, n \in Tex!Edits : Writing(m) /\ Writing(n) => m = n

PageKnows(b) == text[b] \in had[b] /\ Good(current[b], had[b])

SaveKnows(n) ==
  /\ save[n].pc \notin {"none", "done"} => n \in had[save[n].by]
  /\ save[n].pc \in {"sent", "open"} => Good(save[n].base, save[n].had)
  /\ save[n].pc = "open" /\ ~save[n].conflict => save[n].base = version
  /\ save[n].pc \in {"count", "store", "read"} => content = n
  /\ save[n].pc = "store" => save[n].version = version + 1
  /\ save[n].pc = "answered" /\ save[n].version # 0 => Good(save[n].version, {n})

FetchKnows(f) ==
  /\ poll[f].pc = "read" => NotAhead(poll[f].version)
  /\ poll[f].pc = "answered" /\ poll[f].text # Tex!NoText =>
       Good(poll[f].version, {poll[f].text})

Known ==
  /\ OneWriter
  /\ \A b \in Browsers : PageKnows(b)
  /\ \A n \in Tex!Edits : SaveKnows(n)
  /\ \A f \in Tex!Fetches : FetchKnows(f)
  /\ silent = {}

TexInv == TexTypes /\ TypedInv /\ (unsure \/ Known)

LEMMA InitTex == Tex!Init => TexInv
  <1> SUFFICES ASSUME Tex!Init PROVE TexInv
    OBVIOUS
  <1> USE DEF Tex!Init
  <1>1. TexTypes
    <2>1. \A n \in Tex!Edits : DOMAIN save[n] = SaveFields /\ save[n].pc = "none"
      BY DEF SaveFields, Tex!NoSave
    <2>2. \A f \in Tex!Fetches : DOMAIN poll[f] = FetchFields /\ poll[f].pc = "none"
      BY DEF FetchFields, Tex!NoFetch
    <2>3. dirty \in [Browsers -> BOOLEAN]
      OBVIOUS
    <2>4. open \in [Browsers -> BOOLEAN]
      OBVIOUS
    <2>5. unsure \in BOOLEAN
      OBVIOUS
    <2>6. /\ version \in Nat \ {0} /\ edits \in Nat
          /\ DOMAIN text = Browsers /\ DOMAIN current = Browsers /\ DOMAIN had = Browsers
          /\ DOMAIN last = Browsers /\ DOMAIN save = Tex!Edits /\ DOMAIN poll = Tex!Fetches
      OBVIOUS
    <2> QED
      BY ONLY <2>1, <2>2, <2>3, <2>4, <2>5, <2>6 DEF TexTypes
  <1>2. TypedInv
    BY TexAssumption DEF TypedInv, Loading, Tex!NoSave, Tex!NoFetch
  <1>3. \A b \in Browsers : PageKnows(b)
    BY DEF PageKnows, Good, NotAhead
  <1>4. \A n \in Tex!Edits : SaveKnows(n)
    BY DEF SaveKnows, Tex!NoSave
  <1>5. \A f \in Tex!Fetches : FetchKnows(f)
    BY DEF FetchKnows, Tex!NoFetch
  <1>6. OneWriter
    BY DEF OneWriter, Writing, Tex!NoSave
  <1> QED
    BY <1>1, <1>2, <1>3, <1>4, <1>5, <1>6 DEF TexInv, Known

\* A step that types nothing, sends no save and loads no page.
LEMMA TypedRests ==
  ASSUME TexTypes, TypedInv, UNCHANGED << edits, last, dirty, open >>,
         \A b \in Browsers : dirty[b] => text'[b] = text[b],
         \A n \in Tex!Edits : /\ save'[n].pc = "none" <=> save[n].pc = "none"
                              /\ Tex!Sent(n) => Tex!Sent(n)',
         \A f \in Tex!Fetches : Loading(f)' => Loading(f) /\ poll'[f].by = poll[f].by
  PROVE  TypedInv'
  <1>1. \A b \in Browsers : last[b] # 0 => last[b] \in Tex!Edits
    BY TexAssumption DEF TypedInv, TexTypes, Tex!Edits
  <1>2. \A f, g \in Tex!Fetches :
          /\ Loading(f)' => ~dirty'[poll'[f].by] /\ ~open'[poll'[f].by]
          /\ Loading(f)' /\ Loading(g)' /\ poll'[f].by = poll'[g].by => f = g
    BY DEF TypedInv
  <1>3. \A b \in Browsers :
       /\ last'[b] \in 0 .. edits'
       /\ \A a \in Browsers : last'[a] = last'[b] /\ last'[a] # 0 => a = b
       /\ dirty'[b] => last'[b] # 0 /\ text'[b] = last'[b] /\ save'[last'[b]].pc = "none"
    BY <1>1 DEF TypedInv
  <1>4. \A b \in Browsers : last'[b] # 0 /\ ~dirty'[b] => Tex!Sent(last[b])'
    BY <1>1 DEF TypedInv
  <1>5. edits' <= MaxEdits /\ \A n \in Tex!Edits : n > edits' => save'[n].pc = "none"
    BY DEF TypedInv
  <1> QED
    BY <1>2, <1>3, <1>4, <1>5 DEF TypedInv

\* A save but for whether its page was left.
SameSave(n) ==
  /\ save'[n].pc = save[n].pc /\ save'[n].by = save[n].by /\ save'[n].base = save[n].base
  /\ save'[n].had = save[n].had /\ save'[n].version = save[n].version
  /\ (save'[n].conflict <=> save[n].conflict)

\* A step after which whoever did not move knows what it knew.
LEMMA OthersKnow ==
  ASSUME TexTypes, Known, OneWriter', silent' = {},
         \/ UNCHANGED << content, version >> /\ (Settled' => Settled)
         \/ version' = version /\ ~Settled'
         \/ version' = version + 1,
         \/ UNCHANGED << content, version >>
         \/ \A n \in Tex!Edits : SameSave(n) => ~Writing(n),
         \A b \in Browsers : had[b] \subseteq had'[b],
         \A b \in Browsers : PageKnows(b)' \/ (text'[b] = text[b] /\ current'[b] = current[b]),
         \A n \in Tex!Edits : SaveKnows(n)' \/ SameSave(n),
         \A f \in Tex!Fetches : FetchKnows(f)' \/ poll'[f] = poll[f]
  PROVE  Known'
  <1> DEFINE G(v, texts) == /\ v \in Nat \ {0} /\ v <= version'
                            /\ (v = version' /\ Settled' => content' \in texts)
  <1>1. \A v : NotAhead(v) => v \in Nat \ {0} /\ v <= version'
    BY DEF NotAhead, TexTypes
  <1>2. \A v, texts, more : Good(v, texts) /\ texts \subseteq more => G(v, more)
    BY <1>1 DEF Good, NotAhead, TexTypes
  <1>3. ASSUME NEW b \in Browsers, text'[b] = text[b], current'[b] = current[b]
        PROVE  PageKnows(b)'
    <2>1. text[b] \in had[b] /\ Good(current[b], had[b])
      BY DEF Known, PageKnows
    <2> HIDE DEF G
    <2>2. G(current[b], had'[b])
      BY <1>2, <2>1
    <2> QED
      BY <1>3, <2>1, <2>2 DEF PageKnows, Good, NotAhead, G
  <1>4. ASSUME NEW n \in Tex!Edits, SameSave(n)
        PROVE  SaveKnows(n)'
    <2>1. SaveKnows(n)
      BY DEF Known
    <2>2. save[n].pc \notin {"none", "done"} => n \in had'[save[n].by]
      BY <2>1 DEF SaveKnows, TexTypes
    <2>3. save[n].pc \in {"sent", "open"} => G(save[n].base, save[n].had)
      BY <1>2, <2>1 DEF SaveKnows
    <2>4. save[n].pc = "answered" /\ save[n].version # 0 => G(save[n].version, {n})
      BY <1>2, <2>1 DEF SaveKnows
    <2>5. Writing(n) => UNCHANGED << content, version >>
      BY <1>4
    <2> HIDE DEF G
    <2>6. \A v, texts : G(v, texts) => Good(v, texts)'
      BY DEF G, Good, NotAhead
    <2>7. /\ save'[n].pc \notin {"none", "done"} => n \in had'[save'[n].by]
          /\ save'[n].pc \in {"sent", "open"} =>
               save'[n].base \in Nat \ {0} /\ G(save'[n].base, save'[n].had)
          /\ save'[n].pc = "answered" /\ save'[n].version # 0 => G(save'[n].version, {n})
      BY <1>4, <2>2, <2>3, <2>4 DEF SameSave, G
    <2>8. /\ save'[n].pc = "open" /\ ~save'[n].conflict => save'[n].base = version'
          /\ save'[n].pc \in {"count", "store", "read"} => content' = n
          /\ save'[n].pc = "store" => save'[n].version = version' + 1
      BY <1>4, <2>1, <2>5 DEF SaveKnows, SameSave, Writing
    <2> QED
      BY <2>7, <2>8 DEF SaveKnows, Good, NotAhead, G
  <1>5. ASSUME NEW f \in Tex!Fetches, poll'[f] = poll[f]
        PROVE  FetchKnows(f)'
    <2>1. FetchKnows(f)
      BY DEF Known
    <2>2. poll[f].pc = "answered" /\ poll[f].text # Tex!NoText =>
            G(poll[f].version, {poll[f].text})
      BY <1>2, <2>1 DEF FetchKnows
    <2> HIDE DEF G
    <2>3. poll[f].pc = "read" => poll[f].version \in Nat \ {0} /\ poll[f].version <= version'
      BY <1>1, <2>1 DEF FetchKnows
    <2> QED
      BY <1>5, <2>2, <2>3 DEF FetchKnows, Good, NotAhead, G
  <1> QED
    BY <1>3, <1>4, <1>5 DEF Known

\* Nobody's save moves on.
LEMMA StillSettled ==
  ASSUME \A n \in Tex!Edits : save'[n].pc = save[n].pc
  PROVE  (Settled' <=> Settled) /\ (OneWriter => OneWriter')
  BY DEF Settled, OneWriter, Writing

LEMMA EditKeeps ==
  ASSUME TexInv, NEW b \in Browsers, Tex!Edit(b)
  PROVE  TexInv'
  <1>1. /\ UNCHANGED << content, version, current, open, save, poll, written, failed,
                        silent, unsure >>
        /\ edits < MaxEdits /\ edits' = edits + 1 /\ open[b]
        /\ text' = [text EXCEPT ![b] = edits + 1]
        /\ last' = [last EXCEPT ![b] = edits + 1]
        /\ had' = [had EXCEPT ![b] = @ \cup {edits + 1}]
        /\ dirty' = [dirty EXCEPT ![b] = TRUE]
    BY DEF Tex!Edit, Tex!file, Tex!results
  <1>2. TexTypes /\ TypedInv
    BY DEF TexInv
  <1>3. TexTypes'
    BY <1>1, <1>2 DEF TexTypes
  <1>4. TypedInv'
    <2>1. edits + 1 \in Tex!Edits /\ edits \in Nat /\ edits + 1 <= MaxEdits
      BY <1>1, <1>2, TexAssumption DEF TexTypes, Tex!Edits
    <2>2. ASSUME NEW c \in Browsers
          PROVE  /\ last'[c] \in 0 .. edits'
                 /\ \A a \in Browsers : last'[a] = last'[c] /\ last'[a] # 0 => a = c
      BY <1>1, <1>2, <2>1 DEF TypedInv, TexTypes
    <2>3. save[edits + 1].pc = "none"
      BY <1>2, <2>1 DEF TypedInv
    <2>4. ASSUME NEW c \in Browsers, dirty'[c]
          PROVE  last'[c] # 0 /\ text'[c] = last'[c] /\ save'[last'[c]].pc = "none"
      <3>1. CASE c = b
        BY <1>1, <1>2, <2>1, <2>3, <3>1 DEF TexTypes
      <3>2. CASE c # b
        BY <1>1, <1>2, <2>4, <3>2 DEF TexTypes, TypedInv
      <3> QED
        BY <3>1, <3>2
    <2>5. ASSUME NEW c \in Browsers, last'[c] # 0, ~dirty'[c]
          PROVE  Tex!Sent(last[c])' /\ last'[c] = last[c]
      <3>1. c # b /\ last'[c] = last[c] /\ ~dirty[c]
        BY <1>1, <1>2, <2>5 DEF TexTypes
      <3>2. Tex!Sent(last[c])
        BY <1>2, <2>5, <3>1 DEF TypedInv
      <3> QED
        BY <1>1, <3>1, <3>2 DEF Tex!Sent
    <2>6. ASSUME NEW f \in Tex!Fetches, Loading(f)'
          PROVE  Loading(f) /\ ~dirty'[poll'[f].by] /\ ~open'[poll'[f].by]
      BY <1>1, <1>2, <2>6 DEF Loading, TypedInv, TexTypes
    <2>7. ASSUME NEW f \in Tex!Fetches, NEW g \in Tex!Fetches,
                 Loading(f)', Loading(g)', poll'[f].by = poll'[g].by
          PROVE  f = g
      BY <1>1, <1>2, <2>6, <2>7 DEF TypedInv
    <2>8. edits' <= MaxEdits /\ \A n \in Tex!Edits : n > edits' => save'[n].pc = "none"
      BY <1>1, <1>2, <2>1 DEF TypedInv, Tex!Edits
    <2> QED
      BY <2>2, <2>4, <2>5, <2>6, <2>7, <2>8 DEF TypedInv, Tex!Sent
  <1>5. ASSUME Known PROVE Known'
    <2>1. PageKnows(b)'
      BY <1>1, <1>2, <1>5 DEF Known, PageKnows, Good, NotAhead, Settled, TexTypes
    <2>2. \A a \in Browsers : had[a] \subseteq had'[a]
      BY <1>1, <1>2 DEF TexTypes
    <2>3. \A a \in Browsers \ {b} : text'[a] = text[a] /\ current'[a] = current[a]
      BY <1>1, <1>2 DEF TexTypes
    <2>4. (\A n \in Tex!Edits : SameSave(n)) /\ \A f \in Tex!Fetches : poll'[f] = poll[f]
      BY <1>1 DEF SameSave
    <2>5. (Settled' <=> Settled) /\ OneWriter' /\ silent' = {}
      BY <1>1, <1>5, StillSettled DEF Known
    <2> QED
      BY <1>1, <1>2, <1>5, <2>1, <2>2, <2>3, <2>4, <2>5, OthersKnow
  <1> QED
    BY <1>1, <1>3, <1>4, <1>5 DEF TexInv

LEMMA DoSaveKeeps ==
  ASSUME TexInv, NEW b \in Browsers, Tex!DoSave(b)
  PROVE  TexInv'
  <1>1. /\ UNCHANGED << content, version, text, current, open, had, poll, edits, last,
                        written, failed, silent, unsure >>
        /\ dirty[b] /\ dirty' = [dirty EXCEPT ![b] = FALSE]
        /\ save' = [save EXCEPT ![text[b]] = [Tex!NoSave EXCEPT !.pc = "sent", !.by = b,
                                                  !.base = current[b], !.had = had[b]]]
    BY DEF Tex!DoSave, Tex!file, Tex!tallies, Tex!results
  <1>2. TexTypes /\ TypedInv
    BY DEF TexInv
  <1>3. PICK n \in Tex!Edits : /\ n = text[b] /\ n = last[b] /\ n # 0 /\ n <= edits
                               /\ save[n].pc = "none"
    BY <1>1, <1>2, TexAssumption DEF TypedInv, TexTypes, Tex!Edits
  <1>4. /\ DOMAIN save' = Tex!Edits
        /\ \A m \in Tex!Edits \ {n} : save'[m] = save[m]
        /\ DOMAIN save'[n] = SaveFields /\ save'[n].pc = "sent" /\ save'[n].by = b
        /\ save'[n].base = current[b] /\ save'[n].had = had[b]
    BY <1>1, <1>2, <1>3 DEF TexTypes, SaveFields, Tex!NoSave
  <1>5. dirty' \in [Browsers -> BOOLEAN]
    BY <1>1, <1>2 DEF TexTypes
  <1>6. TexTypes'
    <2>1. ASSUME NEW m \in Tex!Edits
          PROVE  /\ DOMAIN save'[m] = SaveFields
                 /\ save'[m].pc \in {"none", "sent", "open", "write", "count", "store", "read",
                                    "answered", "done"}
                 /\ save'[m].pc \notin {"none", "done"} => save'[m].by \in Browsers
                 /\ save'[m].pc = "store" => save'[m].version \in Nat \ {0}
      BY <1>2, <1>3, <1>4 DEF TexTypes
    <2> QED
      BY <1>1, <1>2, <1>4, <1>5, <2>1 DEF TexTypes
  <1>7. TypedInv'
    <2>1. ASSUME NEW c \in Browsers, dirty'[c]
          PROVE  last'[c] # 0 /\ text'[c] = last'[c] /\ save'[last'[c]].pc = "none"
      <3>1. c # b /\ dirty[c]
        BY <1>1, <1>2, <2>1 DEF TexTypes
      <3>2. last[c] # n /\ last[c] \in Tex!Edits
        BY <1>2, <1>3, <3>1, TexAssumption DEF TypedInv, TexTypes, Tex!Edits
      <3> QED
        BY <1>1, <1>2, <1>4, <3>1, <3>2 DEF TypedInv
    <2>2. ASSUME NEW m \in Tex!Edits, Tex!Sent(m)
          PROVE  Tex!Sent(m)'
      BY <1>1, <1>4, <2>2 DEF Tex!Sent
    <2>3. ASSUME NEW c \in Browsers, last'[c] # 0, ~dirty'[c]
          PROVE  Tex!Sent(last[c])' /\ last'[c] = last[c]
      <3>1. CASE c = b
        BY <1>1, <1>3, <1>4, <3>1 DEF Tex!Sent
      <3>2. CASE c # b
        <4>1. ~dirty[c] /\ last[c] \in Tex!Edits /\ last'[c] = last[c]
          BY <1>1, <1>2, <2>3, <3>2, TexAssumption DEF TypedInv, TexTypes, Tex!Edits
        <4> QED
          BY <1>2, <2>2, <2>3, <4>1 DEF TypedInv
      <3> QED
        BY <3>1, <3>2
    <2>4. ASSUME NEW f \in Tex!Fetches, Loading(f)'
          PROVE  Loading(f) /\ ~dirty'[poll'[f].by] /\ ~open'[poll'[f].by]
      BY <1>1, <1>2, <2>4 DEF Loading, TypedInv, TexTypes
    <2>5. ASSUME NEW f \in Tex!Fetches, NEW g \in Tex!Fetches,
                 Loading(f)', Loading(g)', poll'[f].by = poll'[g].by
          PROVE  f = g
      BY <1>1, <1>2, <2>4, <2>5 DEF TypedInv
    <2>6. \A m \in Tex!Edits : m > edits' => save'[m].pc = "none"
      BY <1>1, <1>2, <1>3, <1>4 DEF TypedInv, Tex!Edits, TexTypes
    <2>7. edits' <= MaxEdits
      BY <1>1, <1>2 DEF TypedInv
    <2>8. ASSUME NEW c \in Browsers
          PROVE  /\ last'[c] \in 0 .. edits'
                 /\ \A a \in Browsers : last'[a] = last'[c] /\ last'[a] # 0 => a = c
      BY <1>1, <1>2 DEF TypedInv
    <2> QED
      BY <2>1, <2>3, <2>4, <2>5, <2>6, <2>7, <2>8 DEF TypedInv, Tex!Sent
  <1>8. ASSUME Known PROVE Known'
    <2>1. (Settled' => Settled) /\ OneWriter'
      BY <1>3, <1>4, <1>8 DEF Known, Settled, OneWriter, Writing
    <2>2. Good(current[b], had[b]) /\ n \in had[b]
      BY <1>3, <1>8 DEF Known, PageKnows
    <2>3. SaveKnows(n)'
      BY <1>1, <1>4, <2>1, <2>2 DEF SaveKnows, Good, NotAhead
    <2>4. \A m \in Tex!Edits : SaveKnows(m)' \/ SameSave(m)
      BY <1>4, <2>3 DEF SameSave
    <2>5. \A a \in Browsers : had[a] \subseteq had'[a] /\ text'[a] = text[a] /\ current'[a] = current[a]
      BY <1>1
    <2> QED
      BY <1>1, <1>2, <1>8, <2>1, <2>4, <2>5, OthersKnow DEF Known
  <1> QED
    BY <1>1, <1>6, <1>7, <1>8 DEF TexInv

LEMMA SaveAnsweredKeeps ==
  ASSUME TexInv, NEW n \in Tex!Edits, Tex!SaveAnswered(n)
  PROVE  TexInv'
  <1>1. /\ UNCHANGED << content, version, text, dirty, open, had, poll, edits, last,
                        written, failed, silent, unsure >>
        /\ save[n].pc = "answered"
        /\ save' = [save EXCEPT ![n] = Tex!SaveDone]
        /\ \/ current' = current
           \/ /\ save[n].version # 0
              /\ current' = [current EXCEPT ![save[n].by] = save[n].version]
    BY DEF Tex!SaveAnswered, Tex!file, Tex!tallies, Tex!results
  <1>2. TexTypes /\ TypedInv
    BY DEF TexInv
  <1>3. /\ DOMAIN save' = Tex!Edits
        /\ \A m \in Tex!Edits \ {n} : save'[m] = save[m]
        /\ DOMAIN save'[n] = SaveFields /\ save'[n].pc = "done"
    BY <1>1, <1>2 DEF TexTypes, SaveFields, Tex!NoSave, Tex!SaveDone
  <1>4. DOMAIN current' = Browsers /\ save[n].by \in Browsers
    BY <1>1, <1>2 DEF TexTypes
  <1>5. TexTypes'
    BY <1>1, <1>2, <1>3, <1>4 DEF TexTypes
  <1>6. TypedInv'
    <2>1. \A m \in Tex!Edits : /\ save'[m].pc = "none" <=> save[m].pc = "none"
                               /\ Tex!Sent(m) => Tex!Sent(m)'
      BY <1>1, <1>3 DEF Tex!Sent
    <2>2. \A f \in Tex!Fetches : Loading(f)' => Loading(f) /\ poll'[f].by = poll[f].by
      BY <1>1 DEF Loading
    <2> QED
      BY <1>1, <1>2, <2>1, <2>2, TypedRests
  <1>7. ASSUME Known PROVE Known'
    <2>1. (Settled' => Settled) /\ OneWriter'
      BY <1>1, <1>3, <1>7 DEF Known, Settled, OneWriter, Writing
    <2>2. n \in had[save[n].by] /\ (save[n].version # 0 => Good(save[n].version, {n}))
      BY <1>1, <1>7 DEF Known, SaveKnows
    <2>3. ASSUME NEW b \in Browsers
          PROVE  PageKnows(b)' \/ (text'[b] = text[b] /\ current'[b] = current[b])
      <3>1. CASE current' = current
        BY <1>1, <3>1
      <3>2. CASE /\ b = save[n].by /\ save[n].version # 0
                 /\ current' = [current EXCEPT ![save[n].by] = save[n].version]
        <4>1. text[b] \in had[b]
          BY <1>7 DEF Known, PageKnows
        <4>2. current'[b] = save[n].version
          BY <1>2, <3>2 DEF TexTypes
        <4>3. text'[b] \in had'[b]
          BY <1>1, <4>1
        <4>4. current'[b] \in Nat \ {0} /\ current'[b] <= version'
          BY <1>1, <2>2, <3>2, <4>2 DEF Good, NotAhead
        <4>5. save[n].version = version /\ Settled' => content \in had[b]
          BY <2>1, <2>2, <3>2 DEF Good
        <4> QED
          BY <1>1, <4>2, <4>3, <4>4, <4>5 DEF PageKnows, Good, NotAhead
      <3>3. CASE b # save[n].by
        BY <1>1, <1>2, <3>3 DEF TexTypes
      <3> QED
        BY <1>1, <3>1, <3>2, <3>3
    <2>4. \A m \in Tex!Edits : SaveKnows(m)' \/ SameSave(m)
      BY <1>3 DEF SameSave, SaveKnows
    <2> QED
      BY <1>1, <1>2, <1>7, <2>1, <2>3, <2>4, OthersKnow DEF Known
  <1> QED
    BY <1>1, <1>5, <1>6, <1>7 DEF TexInv

LEMMA SaveFailsKeeps ==
  ASSUME TexInv, NEW n \in Tex!Edits, Tex!SaveFails(n)
  PROVE  TexInv'
  <1>1. /\ UNCHANGED << content, version, text, current, dirty, open, had, poll, edits,
                        last, written, silent, unsure >>
        /\ save[n].pc = "sent" /\ failed' = failed \cup {n}
        /\ save' = [save EXCEPT ![n] = Tex!SaveDone]
    BY DEF Tex!SaveFails, Tex!file, Tex!page, Tex!tallies
  <1>2. TexTypes /\ TypedInv
    BY DEF TexInv
  <1>3. /\ DOMAIN save' = Tex!Edits
        /\ \A m \in Tex!Edits \ {n} : save'[m] = save[m]
        /\ DOMAIN save'[n] = SaveFields /\ save'[n].pc = "done"
    BY <1>1, <1>2 DEF TexTypes, SaveFields, Tex!NoSave, Tex!SaveDone
  <1>4. TexTypes'
    BY <1>1, <1>2, <1>3 DEF TexTypes
  <1>5. TypedInv'
    <2>1. \A m \in Tex!Edits : /\ save'[m].pc = "none" <=> save[m].pc = "none"
                               /\ Tex!Sent(m) => Tex!Sent(m)'
      BY <1>1, <1>3 DEF Tex!Sent
    <2>2. \A f \in Tex!Fetches : Loading(f)' => Loading(f) /\ poll'[f].by = poll[f].by
      BY <1>1 DEF Loading
    <2> QED
      BY <1>1, <1>2, <2>1, <2>2, TypedRests
  <1>6. ASSUME Known PROVE Known'
    <2>1. (Settled' => Settled) /\ OneWriter'
      BY <1>1, <1>3, <1>6 DEF Known, Settled, OneWriter, Writing
    <2>2. \A m \in Tex!Edits : SaveKnows(m)' \/ SameSave(m)
      BY <1>3 DEF SameSave, SaveKnows
    <2> QED
      BY <1>1, <1>2, <1>6, <2>1, <2>2, OthersKnow DEF Known
  <1> QED
    BY <1>1, <1>4, <1>5, <1>6 DEF TexInv

LEMMA PollContentKeeps ==
  ASSUME TexInv, NEW b \in Browsers, Tex!PollContent(b)
  PROVE  TexInv'
  <1>1. /\ UNCHANGED << content, version, text, current, dirty, open, had, save, edits,
                        last, written, failed, silent, unsure >>
        /\ poll' = [poll EXCEPT ![fetches + 1] =
                      [Tex!NoFetch EXCEPT !.pc = "sent", !.by = b]]
    BY DEF Tex!PollContent, Tex!file, Tex!page, Tex!results
  <1>2. TexTypes /\ TypedInv
    BY DEF TexInv
  <1>3. /\ DOMAIN poll' = Tex!Fetches
        /\ \A f \in Tex!Fetches :
             \/ poll'[f] = poll[f]
             \/ /\ DOMAIN poll'[f] = FetchFields /\ poll'[f].pc = "sent"
                /\ poll'[f].by = b /\ poll'[f].kind = "poll"
    BY <1>1, <1>2 DEF TexTypes, FetchFields, Tex!NoFetch
  <1>4. TexTypes'
    <2>1. ASSUME NEW f \in Tex!Fetches
          PROVE  /\ DOMAIN poll'[f] = FetchFields
                 /\ poll'[f].pc \in {"none", "sent", "read", "answered", "done"}
                 /\ poll'[f].pc \notin {"none", "done"} => poll'[f].by \in Browsers
      BY <1>2, <1>3 DEF TexTypes
    <2> QED
      BY <1>1, <1>2, <1>3, <2>1 DEF TexTypes
  <1>5. TypedInv'
    <2>1. \A f \in Tex!Fetches : Loading(f)' => Loading(f) /\ poll'[f].by = poll[f].by
      BY <1>3 DEF Loading
    <2>2. \A m \in Tex!Edits : /\ save'[m].pc = "none" <=> save[m].pc = "none"
                               /\ Tex!Sent(m) => Tex!Sent(m)'
      BY <1>1 DEF Tex!Sent
    <2> QED
      BY <1>1, <1>2, <2>1, <2>2, TypedRests
  <1>6. ASSUME Known PROVE Known'
    <2>1. \A f \in Tex!Fetches : FetchKnows(f)' \/ poll'[f] = poll[f]
      BY <1>3 DEF FetchKnows
    <2>2. (\A m \in Tex!Edits : SameSave(m)) /\ (Settled' <=> Settled) /\ OneWriter'
      BY <1>1, <1>6, StillSettled DEF SameSave, Known
    <2> QED
      BY <1>1, <1>2, <1>6, <2>1, <2>2, OthersKnow DEF Known
  <1> QED
    BY <1>1, <1>4, <1>5, <1>6 DEF TexInv

\* The requests of the page that is left are left.
LEMMA LoadPageKeeps ==
  ASSUME TexInv, NEW b \in Browsers, Tex!LoadPage(b)
  PROVE  TexInv'
  <1>1. /\ UNCHANGED << content, version, text, current, dirty, had, edits, last, written,
                        failed, silent, unsure >>
        /\ ~dirty[b] /\ open' = [open EXCEPT ![b] = FALSE]
        /\ save' = [n \in Tex!Edits |-> IF save[n].by = b THEN [save[n] EXCEPT !.left = TRUE]
                                                          ELSE save[n]]
        /\ poll' = [f \in Tex!Fetches |->
                      IF f = fetches + 1
                      THEN [Tex!NoFetch EXCEPT !.pc = "sent", !.by = b, !.kind = "page"]
                      ELSE IF poll[f].by = b THEN [poll[f] EXCEPT !.left = TRUE]
                                             ELSE poll[f]]
    BY DEF Tex!LoadPage, Tex!file, Tex!results
  <1>2. TexTypes /\ TypedInv
    BY DEF TexInv
  <1>3. DOMAIN save' = Tex!Edits /\ DOMAIN poll' = Tex!Fetches
    BY <1>1
  <1>4. ASSUME NEW n \in Tex!Edits
        PROVE  DOMAIN save'[n] = SaveFields /\ SameSave(n)
    <2>1. DOMAIN save[n] = SaveFields
      BY <1>2 DEF TexTypes
    <2> QED
      BY <1>1, <2>1 DEF SameSave, SaveFields, Tex!NoSave
  <1>5. ASSUME NEW f \in Tex!Fetches
        PROVE  /\ DOMAIN poll'[f] = FetchFields
               /\ \/ f = fetches + 1 /\ poll'[f].pc = "sent" /\ poll'[f].by = b
                  \/ /\ f # fetches + 1 /\ poll'[f].pc = poll[f].pc
                     /\ poll'[f].by = poll[f].by /\ poll'[f].kind = poll[f].kind
                     /\ poll'[f].version = poll[f].version /\ poll'[f].text = poll[f].text
                     /\ IF poll[f].by = b THEN poll'[f].left = TRUE
                                          ELSE poll'[f].left = poll[f].left
    <2>1. DOMAIN poll[f] = FetchFields
      BY <1>2 DEF TexTypes
    <2>2. CASE f = fetches + 1
      BY <1>1, <2>2 DEF FetchFields, Tex!NoFetch
    <2>3. CASE f # fetches + 1 /\ poll[f].by = b
      BY <1>1, <2>1, <2>3 DEF FetchFields, Tex!NoFetch
    <2>4. CASE f # fetches + 1 /\ poll[f].by # b
      BY <1>1, <2>1, <2>4
    <2> QED
      BY <2>2, <2>3, <2>4
  <1>6. open' \in [Browsers -> BOOLEAN]
    BY <1>1, <1>2 DEF TexTypes
  <1>7. TexTypes'
    <2>1. ASSUME NEW f \in Tex!Fetches
          PROVE  /\ DOMAIN poll'[f] = FetchFields
                 /\ poll'[f].pc \in {"none", "sent", "read", "answered", "done"}
                 /\ poll'[f].pc \notin {"none", "done"} => poll'[f].by \in Browsers
      BY <1>2, <1>5 DEF TexTypes
    <2>2. ASSUME NEW m \in Tex!Edits
          PROVE  /\ DOMAIN save'[m] = SaveFields
                 /\ save'[m].pc \in {"none", "sent", "open", "write", "count", "store", "read",
                                    "answered", "done"}
                 /\ save'[m].pc \notin {"none", "done"} => save'[m].by \in Browsers
                 /\ save'[m].pc = "store" => save'[m].version \in Nat \ {0}
      BY <1>2, <1>4 DEF TexTypes, SameSave
    <2> QED
      BY <1>1, <1>2, <1>3, <1>6, <2>1, <2>2 DEF TexTypes
  <1>8. TypedInv'
    <2>1. ASSUME NEW c \in Browsers
          PROVE  /\ last'[c] \in 0 .. edits'
                 /\ \A a \in Browsers : last'[a] = last'[c] /\ last'[a] # 0 => a = c
                 /\ dirty'[c] => last'[c] # 0 /\ text'[c] = last'[c]
                                 /\ save'[last'[c]].pc = "none"
      <3>1. last[c] # 0 => last[c] \in Tex!Edits
        BY <1>2, TexAssumption DEF TypedInv, TexTypes, Tex!Edits
      <3> QED
        BY <1>1, <1>2, <1>4, <3>1 DEF TypedInv, SameSave
    <2>2. ASSUME NEW c \in Browsers, last'[c] # 0, ~dirty'[c]
          PROVE  Tex!Sent(last[c])' /\ last'[c] = last[c]
      <3>1. last[c] \in Tex!Edits /\ last'[c] = last[c] /\ Tex!Sent(last[c])
        BY <1>1, <1>2, <2>2, TexAssumption DEF TypedInv, TexTypes, Tex!Edits
      <3> QED
        BY <1>1, <1>4, <3>1 DEF Tex!Sent, SameSave
    <2>3. ASSUME NEW f \in Tex!Fetches, Loading(f)'
          PROVE  \/ f = fetches + 1 /\ poll'[f].by = b
                 \/ Loading(f) /\ poll'[f].by = poll[f].by /\ poll[f].by # b
      BY <1>5, <2>3 DEF Loading
    <2>4. ASSUME NEW f \in Tex!Fetches, Loading(f)'
          PROVE  ~dirty'[poll'[f].by] /\ ~open'[poll'[f].by]
      <3>1. CASE poll'[f].by = b
        BY <1>1, <1>2, <3>1 DEF TexTypes
      <3>2. CASE poll'[f].by # b
        <4>1. Loading(f) /\ poll'[f].by = poll[f].by /\ poll[f].by # b
          BY <2>3, <2>4, <3>2
        <4>2. ~dirty[poll[f].by] /\ ~open[poll[f].by] /\ poll[f].by \in Browsers
          BY <1>2, <4>1 DEF TypedInv, TexTypes, Loading
        <4> QED
          BY <1>1, <1>2, <4>1, <4>2 DEF TexTypes
      <3> QED
        BY <3>1, <3>2
    <2>5. ASSUME NEW f \in Tex!Fetches, NEW g \in Tex!Fetches,
                 Loading(f)', Loading(g)', poll'[f].by = poll'[g].by
          PROVE  f = g
      <3>1. CASE poll'[f].by = b
        BY <2>3, <2>5, <3>1
      <3>2. CASE poll'[f].by # b
        BY <1>2, <2>3, <2>5, <3>2 DEF TypedInv
      <3> QED
        BY <3>1, <3>2
    <2>6. edits' <= MaxEdits /\ \A m \in Tex!Edits : m > edits' => save'[m].pc = "none"
      BY <1>1, <1>2, <1>4 DEF TypedInv, SameSave
    <2> QED
      BY <2>1, <2>2, <2>4, <2>5, <2>6 DEF TypedInv, Tex!Sent
  <1>9. ASSUME Known PROVE Known'
    <2>1. ASSUME NEW f \in Tex!Fetches
          PROVE  FetchKnows(f)'
      <3>1. FetchKnows(f)
        BY <1>9 DEF Known
      <3>2. Settled' <=> Settled
        BY <1>4, StillSettled DEF SameSave
      <3>3. CASE poll'[f].pc = "sent"
        BY <3>3 DEF FetchKnows
      <3>4. CASE poll'[f].pc # "sent"
        BY <1>1, <1>5, <3>1, <3>2, <3>4 DEF FetchKnows, Good, NotAhead
      <3> QED
        BY <3>3, <3>4
    <2>2. (\A m \in Tex!Edits : SameSave(m)) /\ (Settled' <=> Settled) /\ OneWriter'
      BY <1>4, <1>9, StillSettled DEF SameSave, Known
    <2> QED
      BY <1>1, <1>2, <1>9, <2>1, <2>2, OthersKnow DEF Known
  <1> QED
    BY <1>1, <1>7, <1>8, <1>9 DEF TexInv

LEMMA FetchAnsweredKeeps ==
  ASSUME TexInv, NEW f \in Tex!Fetches, Tex!FetchAnswered(f)
  PROVE  TexInv'
  <1>1. TexTypes /\ TypedInv
    BY DEF TexInv
  <1>2. /\ UNCHANGED << content, version, save, edits, last, written, failed, silent >>
        /\ poll[f].pc = "answered" /\ poll' = [poll EXCEPT ![f] = Tex!FetchDone]
    BY DEF Tex!FetchAnswered, Tex!file, Tex!tallies
  <1>3. PICK b \in Browsers : b = poll[f].by
    BY <1>1, <1>2 DEF TexTypes
  <1>4. \/ /\ Loading(f) /\ poll[f].text # Tex!NoText
           /\ Tex!Take(b, poll[f])
           /\ dirty' = [dirty EXCEPT ![b] = FALSE] /\ open' = [open EXCEPT ![b] = TRUE]
           /\ unsure' = unsure
        \/ /\ ~dirty[b] /\ Tex!Take(b, poll[f]) /\ UNCHANGED << dirty, open >>
           /\ unsure' = (unsure \/ poll[f].text = Tex!NoText)
        \/ UNCHANGED << text, current, dirty, open, had, unsure >>
    BY <1>2, <1>3 DEF Tex!FetchAnswered, Tex!page, Loading
  <1>5. /\ DOMAIN poll' = Tex!Fetches
        /\ \A g \in Tex!Fetches \ {f} : poll'[g] = poll[g]
        /\ DOMAIN poll'[f] = FetchFields /\ poll'[f].pc = "done"
    BY <1>1, <1>2 DEF TexTypes, FetchFields, Tex!NoFetch, Tex!FetchDone
  <1>6. /\ DOMAIN text' = Browsers /\ DOMAIN current' = Browsers /\ DOMAIN had' = Browsers
        /\ dirty' \in [Browsers -> BOOLEAN] /\ open' \in [Browsers -> BOOLEAN]
        /\ \A a \in Browsers : had[a] \subseteq had'[a] /\ (dirty'[a] <=> dirty[a])
        /\ \A a \in Browsers \ {b} : /\ text'[a] = text[a] /\ current'[a] = current[a]
                                     /\ (open'[a] <=> open[a])
    <2>1. Loading(f) => ~dirty[b]
      BY <1>1, <1>3 DEF TypedInv
    <2>2. \/ Tex!Take(b, poll[f])
          \/ UNCHANGED << text, current, had >>
      BY <1>4
    <2>3. /\ DOMAIN text' = Browsers /\ DOMAIN current' = Browsers /\ DOMAIN had' = Browsers
          /\ \A a \in Browsers : had[a] \subseteq had'[a]
          /\ \A a \in Browsers \ {b} : text'[a] = text[a] /\ current'[a] = current[a]
      BY <1>1, <2>2 DEF Tex!Take, TexTypes
    <2>4. \/ dirty' = dirty
          \/ Loading(f) /\ dirty' = [dirty EXCEPT ![b] = FALSE]
      BY <1>4
    <2>5. dirty' \in [Browsers -> BOOLEAN] /\ \A a \in Browsers : dirty'[a] <=> dirty[a]
      BY <1>1, <2>1, <2>4 DEF TexTypes
    <2>6. open' = open \/ open' = [open EXCEPT ![b] = TRUE]
      BY <1>4
    <2>7. open' \in [Browsers -> BOOLEAN] /\ \A a \in Browsers \ {b} : open'[a] <=> open[a]
      BY <1>1, <2>6 DEF TexTypes
    <2> QED
      BY <2>3, <2>5, <2>7
  <1>7. unsure' \in BOOLEAN
    BY <1>1, <1>4 DEF TexTypes
  <1>8. TexTypes'
    <2>1. ASSUME NEW g \in Tex!Fetches
          PROVE  /\ DOMAIN poll'[g] = FetchFields
                 /\ poll'[g].pc \in {"none", "sent", "read", "answered", "done"}
                 /\ poll'[g].pc \notin {"none", "done"} => poll'[g].by \in Browsers
      BY <1>1, <1>5 DEF TexTypes
    <2> QED
      BY <1>1, <1>2, <1>5, <1>6, <1>7, <2>1 DEF TexTypes
  <1>9. TypedInv'
    <2>1. ASSUME NEW a \in Browsers, dirty[a]
          PROVE  text'[a] = text[a]
      <3>1. CASE a = b
        <4>1. UNCHANGED text
          BY <1>1, <1>3, <1>4, <2>1, <3>1 DEF TypedInv
        <4> QED
          BY <4>1
      <3>2. CASE a # b
        BY <1>6, <3>2
      <3> QED
        BY <3>1, <3>2
    <2>2. ASSUME NEW c \in Browsers
          PROVE  /\ last'[c] \in 0 .. edits'
                 /\ \A a \in Browsers : last'[a] = last'[c] /\ last'[a] # 0 => a = c
                 /\ dirty'[c] => last'[c] # 0 /\ text'[c] = last'[c]
                                 /\ save'[last'[c]].pc = "none"
      BY <1>1, <1>2, <1>6, <2>1 DEF TypedInv
    <2>3. ASSUME NEW c \in Browsers, last'[c] # 0, ~dirty'[c]
          PROVE  Tex!Sent(last[c])' /\ last'[c] = last[c]
      <3>1. Tex!Sent(last[c])
        BY <1>1, <1>2, <1>6, <2>3 DEF TypedInv
      <3> QED
        BY <1>2, <3>1 DEF Tex!Sent
    <2>4. ASSUME NEW g \in Tex!Fetches, Loading(g)'
          PROVE  Loading(g) /\ g # f /\ poll'[g].by = poll[g].by
      BY <1>5, <2>4 DEF Loading
    <2>5. ASSUME NEW g \in Tex!Fetches, Loading(g)'
          PROVE  ~dirty'[poll'[g].by] /\ ~open'[poll'[g].by]
      <3>1. Loading(g) /\ g # f /\ poll'[g].by = poll[g].by /\ poll[g].by \in Browsers
        BY <1>1, <2>4, <2>5 DEF Loading, TexTypes
      <3>2. ~dirty[poll[g].by] /\ ~open[poll[g].by]
        BY <1>1, <3>1 DEF TypedInv
      <3>3. CASE poll[g].by = b
        <4>1. ~Loading(f)
          BY <1>1, <1>3, <3>1, <3>3 DEF TypedInv
        <4>2. open' = open
          BY <1>4, <4>1
        <4> QED
          BY <1>6, <3>1, <3>2, <4>2
      <3>4. CASE poll[g].by # b
        BY <1>6, <3>1, <3>2, <3>4
      <3> QED
        BY <3>3, <3>4
    <2>6. ASSUME NEW g \in Tex!Fetches, NEW h \in Tex!Fetches,
                 Loading(g)', Loading(h)', poll'[g].by = poll'[h].by
          PROVE  g = h
      BY <1>1, <2>4, <2>6 DEF TypedInv
    <2>7. edits' <= MaxEdits /\ \A m \in Tex!Edits : m > edits' => save'[m].pc = "none"
      BY <1>1, <1>2 DEF TypedInv
    <2> QED
      BY <2>2, <2>3, <2>5, <2>6, <2>7 DEF TypedInv, Tex!Sent
  <1>10. ASSUME Known, ~unsure' PROVE Known'
    <2>1. (\A m \in Tex!Edits : SameSave(m)) /\ (Settled' <=> Settled) /\ OneWriter'
      BY <1>2, <1>10, StillSettled DEF SameSave, Known
    <2>2. \A g \in Tex!Fetches : FetchKnows(g)' \/ poll'[g] = poll[g]
      BY <1>5 DEF FetchKnows
    <2>3. ASSUME NEW a \in Browsers
          PROVE  PageKnows(a)' \/ (text'[a] = text[a] /\ current'[a] = current[a])
      <3>1. CASE a # b \/ UNCHANGED << text, current >>
        BY <1>6, <3>1
      <3>2. CASE a = b /\ Tex!Take(b, poll[f]) /\ poll[f].text # Tex!NoText
        <4>1. Good(poll[f].version, {poll[f].text})
          BY <1>2, <1>10, <3>2 DEF Known, FetchKnows
        <4>2. /\ text'[b] = poll[f].text /\ current'[b] = poll[f].version
              /\ poll[f].text \in had'[b]
          BY <1>1, <3>2 DEF Tex!Take, TexTypes
        <4> QED
          BY <1>2, <2>1, <3>2, <4>1, <4>2 DEF PageKnows, Good, NotAhead
      <3> QED
        BY <1>4, <1>10, <3>1, <3>2
    <2> QED
      BY <1>1, <1>2, <1>6, <1>10, <2>1, <2>2, <2>3, OthersKnow DEF Known
  <1>11. unsure => unsure'
    BY <1>4
  <1> QED
    BY <1>8, <1>9, <1>10, <1>11 DEF TexInv

\* The callback of a fetch goes on.
LEMMA FetchStepsKeep ==
  ASSUME TexInv, NEW f \in Tex!Fetches, Tex!FetchVersion(f) \/ Tex!FetchText(f)
  PROVE  TexInv'
  <1>1. TexTypes /\ TypedInv
    BY DEF TexInv
  <1>2. /\ UNCHANGED << content, version, text, current, dirty, open, had, save, edits, last,
                        written, failed, silent, unsure >>
        /\ DOMAIN poll' = Tex!Fetches
        /\ \A g \in Tex!Fetches \ {f} : poll'[g] = poll[g]
        /\ DOMAIN poll'[f] = FetchFields
        /\ poll'[f].by = poll[f].by /\ poll'[f].kind = poll[f].kind
        /\ poll'[f].left = poll[f].left
    BY <1>1 DEF Tex!FetchVersion, Tex!FetchText, Tex!file, Tex!page, Tex!tallies, Tex!results,
                TexTypes, FetchFields, Tex!NoFetch
  <1>3. \/ poll[f].pc = "sent" /\ poll'[f].pc = "read" /\ poll'[f].version = version
        \/ /\ poll[f].pc = "read" /\ poll'[f].pc = "answered"
           /\ poll'[f].version = poll[f].version
           /\ poll'[f].text = content \/ poll'[f].text = Tex!NoText
    BY <1>1 DEF Tex!FetchVersion, Tex!FetchText, TexTypes, FetchFields, Tex!NoFetch
  <1>4. TexTypes'
    <2>1. ASSUME NEW g \in Tex!Fetches
          PROVE  /\ DOMAIN poll'[g] = FetchFields
                 /\ poll'[g].pc \in {"none", "sent", "read", "answered", "done"}
                 /\ poll'[g].pc \notin {"none", "done"} => poll'[g].by \in Browsers
      BY <1>1, <1>2, <1>3 DEF TexTypes
    <2> QED
      BY <1>1, <1>2, <2>1 DEF TexTypes
  <1>5. TypedInv'
    <2>1. \A g \in Tex!Fetches : Loading(g)' => Loading(g) /\ poll'[g].by = poll[g].by
      BY <1>2, <1>3 DEF Loading
    <2>2. \A m \in Tex!Edits : /\ save'[m].pc = "none" <=> save[m].pc = "none"
                               /\ Tex!Sent(m) => Tex!Sent(m)'
      BY <1>2 DEF Tex!Sent
    <2> QED
      BY <1>1, <1>2, <2>1, <2>2, TypedRests
  <1>6. ASSUME Known PROVE Known'
    <2>1. (\A m \in Tex!Edits : SameSave(m)) /\ (Settled' <=> Settled) /\ OneWriter'
      BY <1>2, <1>6, StillSettled DEF SameSave, Known
    <2>2. FetchKnows(f)'
      <3>1. poll[f].pc = "read" => NotAhead(poll[f].version)
        BY <1>6 DEF Known, FetchKnows
      <3> QED
        BY <1>1, <1>2, <1>3, <3>1 DEF FetchKnows, Good, NotAhead, TexTypes
    <2>3. \A g \in Tex!Fetches : FetchKnows(g)' \/ poll'[g] = poll[g]
      BY <1>2, <2>2
    <2> QED
      BY <1>1, <1>2, <1>6, <2>1, <2>3, OthersKnow DEF Known
  <1> QED
    BY <1>2, <1>4, <1>5, <1>6 DEF TexInv

\* A step of one saveFileContent_callback types nothing, and does not forget an edit.
LEMMA SaveStepKeeps ==
  ASSUME TexTypes, TypedInv, NEW n \in Tex!Edits,
         UNCHANGED << text, current, dirty, open, had, poll, edits, last, failed >>,
         version' \in Nat \ {0}, unsure' \in BOOLEAN,
         DOMAIN save' = Tex!Edits, \A m \in Tex!Edits \ {n} : save'[m] = save[m],
         DOMAIN save'[n] = SaveFields, save'[n].by = save[n].by,
         save[n].pc \notin {"none", "done"},
         save'[n].pc \in {"open", "write", "count", "store", "read", "answered"},
         save'[n].pc = "store" => save'[n].version \in Nat \ {0},
         written \subseteq written',
         save[n].pc \in {"sent", "open", "write"} =>
           save'[n].pc \in {"open", "write"} \/ n \in written'
  PROVE  TexTypes' /\ TypedInv'
  <1>1. TexTypes'
    <2>1. ASSUME NEW m \in Tex!Edits
          PROVE  /\ DOMAIN save'[m] = SaveFields
                 /\ save'[m].pc \in {"none", "sent", "open", "write", "count", "store", "read",
                                    "answered", "done"}
                 /\ save'[m].pc \notin {"none", "done"} => save'[m].by \in Browsers
                 /\ save'[m].pc = "store" => save'[m].version \in Nat \ {0}
      BY DEF TexTypes
    <2> QED
      BY <2>1 DEF TexTypes
  <1>2. \A m \in Tex!Edits : /\ save'[m].pc = "none" <=> save[m].pc = "none"
                             /\ Tex!Sent(m) => Tex!Sent(m)'
    BY DEF Tex!Sent
  <1>3. \A f \in Tex!Fetches : Loading(f)' => Loading(f) /\ poll'[f].by = poll[f].by
    BY DEF Loading
  <1> QED
    BY <1>1, <1>2, <1>3, TypedRests

LEMMA SaveCheckKeeps ==
  ASSUME TexInv, NEW n \in Tex!Edits, Tex!SaveCheck(n)
  PROVE  TexInv'
  <1>1. TexTypes /\ TypedInv
    BY DEF TexInv
  <1>2. /\ UNCHANGED << content, version, text, current, dirty, open, had, poll, edits, last,
                        written, failed, silent >>
        /\ save[n].pc = "sent" /\ DOMAIN save' = Tex!Edits
        /\ \A m \in Tex!Edits \ {n} : save'[m] = save[m]
        /\ DOMAIN save'[n] = SaveFields /\ save'[n].pc = "open"
        /\ save'[n].by = save[n].by /\ save'[n].base = save[n].base
        /\ save'[n].had = save[n].had
    BY <1>1 DEF Tex!SaveCheck, Tex!file, Tex!page, Tex!tallies, TexTypes, SaveFields, Tex!NoSave
  <1>3. save'[n].conflict <=> save[n].base # 0 /\ save[n].base # version
    BY <1>1 DEF Tex!SaveCheck, TexTypes, SaveFields, Tex!NoSave
  <1>4. unsure' = (unsure \/ Tex!Saving # {})
    BY DEF Tex!SaveCheck
  <1>5. unsure' \in BOOLEAN
    BY <1>1, <1>4 DEF TexTypes
  <1>6. TexTypes' /\ TypedInv'
    BY <1>1, <1>2, <1>5, SaveStepKeeps DEF TexTypes
  <1>7. ASSUME Known, ~unsure' PROVE Known'
    <2>1. \A m \in Tex!Edits : ~Writing(m)
      BY <1>4, <1>7 DEF Writing, Tex!Saving
    <2>2. (Settled' => Settled) /\ OneWriter'
      BY <1>2, <2>1 DEF Settled, OneWriter, Writing
    <2>3. Good(save[n].base, save[n].had) /\ n \in had[save[n].by]
      BY <1>2, <1>7 DEF Known, SaveKnows
    <2>4. SaveKnows(n)'
      BY <1>2, <1>3, <2>2, <2>3 DEF SaveKnows, Good, NotAhead
    <2>5. \A m \in Tex!Edits : SaveKnows(m)' \/ SameSave(m)
      BY <1>2, <2>4 DEF SameSave
    <2> QED
      BY <1>1, <1>2, <1>7, <2>2, <2>5, OthersKnow DEF Known
  <1>8. unsure => unsure'
    BY <1>4
  <1> QED
    BY <1>6, <1>7, <1>8 DEF TexInv

LEMMA SaveWriteKeeps ==
  ASSUME TexInv, NEW n \in Tex!Edits, Tex!SaveWrite(n)
  PROVE  TexInv'
  <1>1. TexTypes /\ TypedInv
    BY DEF TexInv
  <1>2. /\ UNCHANGED << version, text, current, dirty, open, had, poll, edits, last, failed,
                        unsure >>
        /\ DOMAIN save' = Tex!Edits
        /\ \A m \in Tex!Edits \ {n} : save'[m] = save[m]
        /\ DOMAIN save'[n] = SaveFields /\ save'[n].by = save[n].by
    BY <1>1 DEF Tex!SaveWrite, Tex!page, Tex!tallies, TexTypes, SaveFields, Tex!NoSave
  <1>3. \/ /\ save[n].pc = "open" /\ save'[n].pc = "write" /\ UNCHANGED written
           /\ silent' = IF content \in save[n].had \/ save[n].conflict THEN silent
                        ELSE silent \cup {n}
        \/ /\ save[n].pc = "write" /\ save'[n].pc = "count" /\ written' = written \cup {n}
           /\ content' = n /\ UNCHANGED silent
    BY <1>1 DEF Tex!SaveWrite, TexTypes, SaveFields, Tex!NoSave
  <1>4. TexTypes' /\ TypedInv'
    BY <1>1, <1>2, <1>3, SaveStepKeeps DEF TexTypes
  <1>5. ASSUME Known PROVE Known'
    <2>1. \A m \in Tex!Edits \ {n} : ~Writing(m)
      BY <1>3, <1>5 DEF Known, OneWriter, Writing
    <2>2. OneWriter' /\ ~Settled'
      BY <1>2, <1>3, <2>1 DEF OneWriter, Writing, Settled
    <2>3. SaveKnows(n)
      BY <1>5 DEF Known
    <2>4. silent' = {}
      <3>1. CASE save[n].pc = "open"
        <4>1. Settled
          BY <2>1, <3>1 DEF Settled, Writing
        <4>2. save[n].conflict \/ content \in save[n].had
          BY <2>3, <3>1, <4>1 DEF SaveKnows, Good
        <4> QED
          BY <1>3, <1>5, <3>1, <4>2 DEF Known
      <3>2. CASE save[n].pc = "write"
        BY <1>3, <1>5, <3>2 DEF Known
      <3> QED
        BY <1>3, <3>1, <3>2
    <2>5. SaveKnows(n)'
      BY <1>2, <1>3, <2>3 DEF SaveKnows
    <2>6. \A m \in Tex!Edits : /\ SaveKnows(m)' \/ SameSave(m)
                               /\ SameSave(m) => ~Writing(m)
      BY <1>2, <1>3, <2>1, <2>5 DEF SameSave
    <2> QED
      BY <1>1, <1>2, <1>5, <2>2, <2>4, <2>6, OthersKnow
  <1> QED
    BY <1>2, <1>4, <1>5 DEF TexInv

LEMMA SaveUnwrittenKeeps ==
  ASSUME TexInv, NEW n \in Tex!Edits, Tex!SaveUnwritten(n)
  PROVE  TexInv'
  <1>1. TexTypes /\ TypedInv
    BY DEF TexInv
  <1>2. /\ UNCHANGED << content, version, text, current, dirty, open, had, poll, edits, last,
                        written, silent, unsure >>
        /\ save[n].pc = "open" /\ failed' = failed \cup {n} /\ DOMAIN save' = Tex!Edits
        /\ \A m \in Tex!Edits \ {n} : save'[m] = save[m]
        /\ DOMAIN save'[n] = SaveFields /\ save'[n].pc = "answered"
        /\ save'[n].by = save[n].by /\ save'[n].version = 0
    BY <1>1 DEF Tex!SaveUnwritten, Tex!file, Tex!page, Tex!tallies, TexTypes, SaveFields,
                Tex!NoSave
  <1>3. TexTypes'
    <2>1. ASSUME NEW m \in Tex!Edits
          PROVE  /\ DOMAIN save'[m] = SaveFields
                 /\ save'[m].pc \in {"none", "sent", "open", "write", "count", "store", "read",
                                    "answered", "done"}
                 /\ save'[m].pc \notin {"none", "done"} => save'[m].by \in Browsers
                 /\ save'[m].pc = "store" => save'[m].version \in Nat \ {0}
      BY <1>1, <1>2 DEF TexTypes
    <2> QED
      BY <1>1, <1>2, <2>1 DEF TexTypes
  <1>4. TypedInv'
    <2>1. \A m \in Tex!Edits : /\ save'[m].pc = "none" <=> save[m].pc = "none"
                               /\ Tex!Sent(m) => Tex!Sent(m)'
      BY <1>2 DEF Tex!Sent
    <2>2. \A f \in Tex!Fetches : Loading(f)' => Loading(f) /\ poll'[f].by = poll[f].by
      BY <1>2 DEF Loading
    <2> QED
      BY <1>1, <1>2, <2>1, <2>2, TypedRests
  <1>5. ASSUME Known PROVE Known'
    <2>1. (Settled' => Settled) /\ OneWriter'
      BY <1>2, <1>5 DEF Known, Settled, OneWriter, Writing
    <2>2. SaveKnows(n)
      BY <1>5 DEF Known
    <2>3. SaveKnows(n)'
      BY <1>2, <2>2 DEF SaveKnows
    <2>4. \A m \in Tex!Edits : SaveKnows(m)' \/ SameSave(m)
      BY <1>2, <2>3 DEF SameSave
    <2> QED
      BY <1>1, <1>2, <1>5, <2>1, <2>4, OthersKnow DEF Known
  <1> QED
    BY <1>2, <1>3, <1>4, <1>5 DEF TexInv

LEMMA SaveCountKeeps ==
  ASSUME TexInv, NEW n \in Tex!Edits, Tex!SaveCount(n)
  PROVE  TexInv'
  <1>1. TexTypes /\ TypedInv
    BY DEF TexInv
  <1>2. /\ UNCHANGED << content, text, current, dirty, open, had, poll, edits, last, written,
                        failed, silent, unsure >>
        /\ DOMAIN save' = Tex!Edits
        /\ \A m \in Tex!Edits \ {n} : save'[m] = save[m]
        /\ DOMAIN save'[n] = SaveFields /\ save'[n].by = save[n].by
    BY <1>1 DEF Tex!SaveCount, Tex!page, Tex!tallies, Tex!results, TexTypes, SaveFields,
                Tex!NoSave
  <1>3. \/ /\ save[n].pc = "count" /\ save'[n].pc = "store" /\ UNCHANGED version
           /\ save'[n].version = version + 1
        \/ /\ save[n].pc = "store" /\ save'[n].pc = "read" /\ version' = save[n].version
        \/ /\ save[n].pc = "read" /\ save'[n].pc = "answered" /\ UNCHANGED version
           /\ save'[n].version = version
    BY <1>1 DEF Tex!SaveCount, TexTypes, SaveFields, Tex!NoSave
  <1>4. version' \in Nat \ {0} /\ (save'[n].pc = "store" => save'[n].version \in Nat \ {0})
    BY <1>1, <1>3 DEF TexTypes
  <1>5. TexTypes' /\ TypedInv'
    BY <1>1, <1>2, <1>3, <1>4, SaveStepKeeps DEF TexTypes
  <1>6. ASSUME Known PROVE Known'
    <2>1. \A m \in Tex!Edits \ {n} : ~Writing(m)
      BY <1>3, <1>6 DEF Known, OneWriter, Writing
    <2>2. SaveKnows(n)
      BY <1>6 DEF Known
    <2>3. OneWriter'
      BY <1>2, <2>1 DEF OneWriter, Writing
    <2>4. \/ UNCHANGED version /\ (Settled' => Settled)
          \/ version' = version + 1
      BY <1>2, <1>3, <2>2 DEF SaveKnows, Settled
    <2>5. SaveKnows(n)'
      BY <1>1, <1>2, <1>3, <2>2 DEF SaveKnows, Good, NotAhead, TexTypes
    <2>6. \A m \in Tex!Edits : /\ SaveKnows(m)' \/ SameSave(m)
                               /\ SameSave(m) => ~Writing(m)
      BY <1>2, <1>3, <2>1, <2>5 DEF SameSave
    <2> QED
      BY <1>1, <1>2, <1>6, <2>3, <2>4, <2>6, OthersKnow DEF Known
  <1> QED
    BY <1>2, <1>5, <1>6 DEF TexInv

\* After a new scan nothing is claimed of the versions.
LEMMA NewFileKeeps ==
  ASSUME TexInv, Tex!NewFile
  PROVE  TexInv'
  <1>1. /\ version' = 1 /\ unsure' = TRUE
        /\ UNCHANGED << text, current, dirty, open, had, save, poll, edits, last, written,
                        failed >>
    BY DEF Tex!NewFile, Tex!page
  <1>2. TexTypes /\ TypedInv
    BY DEF TexInv
  <1>3. unsure' \in BOOLEAN /\ unsure'
    BY <1>1
  <1>4. TexTypes'
    BY <1>1, <1>2, <1>3 DEF TexTypes
  <1>5. TypedInv'
    <2>1. \A m \in Tex!Edits : /\ save'[m].pc = "none" <=> save[m].pc = "none"
                               /\ Tex!Sent(m) => Tex!Sent(m)'
      BY <1>1 DEF Tex!Sent
    <2>2. \A f \in Tex!Fetches : Loading(f)' => Loading(f) /\ poll'[f].by = poll[f].by
      BY <1>1 DEF Loading
    <2> QED
      BY <1>1, <1>2, <2>1, <2>2, TypedRests
  <1> QED
    BY <1>3, <1>4, <1>5 DEF TexInv

LEMMA TexRests == TexInv /\ UNCHANGED texVars => TexInv'
  <1> SUFFICES ASSUME TexInv, UNCHANGED texVars PROVE TexInv'
    OBVIOUS
  <1> USE DEF texVars
  <1>1. TexTypes /\ TypedInv
    BY DEF TexInv
  <1>2. TexTypes'
    BY <1>1 DEF TexTypes
  <1>3. TypedInv'
    <2>1. \A m \in Tex!Edits : /\ save'[m].pc = "none" <=> save[m].pc = "none"
                               /\ Tex!Sent(m) => Tex!Sent(m)'
      BY DEF Tex!Sent
    <2>2. \A f \in Tex!Fetches : Loading(f)' => Loading(f) /\ poll'[f].by = poll[f].by
      BY DEF Loading
    <2> QED
      BY <1>1, <2>1, <2>2, TypedRests
  <1>4. ASSUME Known PROVE Known'
    <2>1. (\A m \in Tex!Edits : SameSave(m)) /\ (Settled' <=> Settled) /\ OneWriter'
      BY <1>4, StillSettled DEF SameSave, Known
    <2> QED
      BY <1>1, <1>4, <2>1, OthersKnow DEF Known
  <1> QED
    BY <1>2, <1>3, <1>4 DEF TexInv

LEMMA NextKeepsTex == TexInv /\ [Tex!Next]_texVars => TexInv'
  <1> SUFFICES ASSUME TexInv, Tex!Next PROVE TexInv'
    BY TexRests
  <1>1. ASSUME NEW b \in Browsers,
               Tex!Edit(b) \/ Tex!DoSave(b) \/ Tex!PollContent(b) \/ Tex!LoadPage(b)
        PROVE  TexInv'
    BY <1>1, EditKeeps, DoSaveKeeps, PollContentKeeps, LoadPageKeeps
  <1>2. ASSUME NEW n \in Tex!Edits,
               \/ Tex!SaveAnswered(n) \/ Tex!SaveFails(n) \/ Tex!SaveCheck(n)
               \/ Tex!SaveWrite(n) \/ Tex!SaveUnwritten(n) \/ Tex!SaveCount(n)
        PROVE  TexInv'
    BY <1>2, SaveAnsweredKeeps, SaveFailsKeeps, SaveCheckKeeps, SaveWriteKeeps,
       SaveUnwrittenKeeps, SaveCountKeeps
  <1>3. ASSUME NEW f \in Tex!Fetches,
               Tex!FetchAnswered(f) \/ Tex!FetchVersion(f) \/ Tex!FetchText(f)
        PROVE  TexInv'
    BY <1>3, FetchAnsweredKeeps, FetchStepsKeep
  <1> QED
    BY <1>1, <1>2, <1>3, NewFileKeeps DEF Tex!Next

-----------------------------------------------------------------------------
(* The programs beside one another *)

\* A step of the composition is a step of one of them, and the others rest.
LEMMA StepOfOne ==
  ASSUME [MCNext]_MCVars
  PROVE  /\ [Asvio!Next]_jobVars
         /\ [Cart!Next]_cartVars
         /\ [Board!Next]_boardVars
         /\ [Polls!Next]_pollVars
         /\ [Next]_socialVars
         /\ [Tex!Next]_texVars
  BY DEF MCNext, MCVars

LEMMA SocialAlone == MCSpec => Spec
  <1>1. MCInit => Init
    BY DEF MCInit
  <1>2. [MCNext]_MCVars => [Next]_socialVars
    BY StepOfOne
  <1> QED
    BY <1>1, <1>2, PTL DEF MCSpec, Spec

-----------------------------------------------------------------------------
(* Theorems *)

\* A table of Social that is locked is locked by a request that is where it holds that
\* lock (renderPosts, addPost, followsToggle, notificationAdd, notificationMarkAllSeen),
\* also after a restart.
THEOREM LocksAreHeld == Spec => []LocksInv
  BY InitLocks, NextLocks, PTL DEF Spec

\* SomebodyGoesOn: the callbacks of Social never wait on one another in a circle.
\* Whoever holds notificationsLock or followsLock awaits nothing, and whoever holds
\* postsLock awaits one of those two at most.
THEOREM NoDeadlock == MCSpec => []SomebodyGoesOn
  BY GoesOn, LocksAreHeld, SocialAlone, PTL

\* UploadsAreThere: every post that a page shows, or that a restart would load, has its
\* upload (deletePost removes it last, mediaStoreFromRequest stores it first), although
\* other requests post and delete in between and the server may die at any point.
THEOREM UploadsStay == MCSpec => []UploadsAreThere
  <1>1. LocksInv => Shaped
    BY DEF LocksInv
  <1>2. UploadsInv => UploadsAreThere
    <2> SUFFICES ASSUME UploadsInv, NEW p \in Range(store.posts) \cup Range(disk.posts), p.media # 0
                 PROVE  p.media \in uploads
      BY DEF UploadsAreThere
    <2>1. /\ DOMAIN store.posts = 1 .. Len(store.posts)
          /\ DOMAIN disk.posts = 1 .. Len(disk.posts)
      BY DEF UploadsInv, PostLists, PostList, IsSeq
    <2>2. p.media \in Media(store.posts) \cup Media(disk.posts)
      BY <2>1 DEF Range, Media
    <2> QED
      BY <2>2 DEF UploadsInv, PostLists
  <1>3. Spec => []UploadsAreThere
    BY <1>1, <1>2, InitUploads, NextUploads, LocksAreHeld, PTL DEF Spec
  <1> QED
    BY <1>3, SocialAlone, PTL

LEMMA JobsHold == MCSpec => []JobsInv
  <1>1. MCInit => JobsInv
    BY InitJobs DEF MCInit
  <1>2. JobsInv /\ [MCNext]_MCVars => JobsInv'
    BY StepOfOne, NextKeepsJobs
  <1> QED
    BY <1>1, <1>2, PTL DEF MCSpec

\* The queue of ASVIO is one chain from its head to its tail with every queued job on it
\* once, whichever jobs are cancelled out of the middle of it (removeFromQueue).
THEOREM QueueIsAChain == MCSpec => [](\E q \in Seq(Jobs) : IsQueue(q))
  <1>1. JobsInv => \E q \in Seq(Jobs) : IsQueue(q)
    BY DEF JobsInv
  <1> QED
    BY <1>1, JobsHold, PTL

\* InputOutlivesCopy: the input of a job that the dispatcher has taken is there while
\* Python may read it outside the lock, whoever cancels the job or lets it grow old
\* meanwhile (asvio_next_job, asvio_job_finish).
THEOREM InputStays == MCSpec => []InputOutlivesCopy
  <1>1. JobsInv => InputOutlivesCopy
    BY DEF JobsInv, HandedOver, InputOutlivesCopy, Asvio!InputOutlivesCopy
  <1> QED
    BY <1>1, JobsHold, PTL

\* NobodyOversleeps: a client that waits on changed has nothing to be told, and the
\* dispatcher waits on queued only while no job is queued, whichever jobs are cancelled
\* out of the queue (removeFromQueue).
THEOREM WaitersAreWoken == MCSpec => []NobodyOversleeps
  <1>1. JobsInv => NobodyOversleeps
    BY DEF JobsInv
  <1> QED
    BY <1>1, JobsHold, PTL

LEMMA CartHolds ==
  ASSUME "-" \notin Titles
  PROVE  MCSpec => []CartInv
  <1>1. MCInit => CartInv
    BY InitCart DEF MCInit
  <1>2. CartInv /\ [MCNext]_MCVars => CartInv'
    BY StepOfOne, NextKeepsCart
  <1> QED
    BY <1>1, <1>2, PTL DEF MCSpec

\* NoChangeLost: phones that change the shopping list at a time lose no change and add
\* no name twice (withCart holds the lock from the read to the rename).  A title of "-"
\* is written as none (serializeCartStream), and is left out.
THEOREM PhonesLoseNothing ==
  ASSUME "-" \notin Titles
  PROVE  MCSpec => []NoChangeLost
  <1>1. CartInv => NoChangeLost
    BY CartIsRight
  <1> QED
    BY <1>1, CartHolds, PTL

\* ShownIsCurrent: a phone that is told its own revision shows the list and its photos
\* as they are (peekCartRev, and photoUpload_callback, which raises the revision).
THEOREM PhonesShowTheList ==
  ASSUME "-" \notin Titles
  PROVE  MCSpec => []ShownIsCurrent
  <1>1. CartInv => ShownIsCurrent
    BY CartIsRight
  <1> QED
    BY <1>1, CartHolds, PTL

LEMMA TexHolds == MCSpec => []TexInv
  <1>1. MCInit => TexInv
    BY InitTex DEF MCInit
  <1>2. TexInv /\ [MCNext]_MCVars => TexInv'
    BY StepOfOne, NextKeepsTex
  <1> QED
    BY <1>1, <1>2, PTL DEF MCSpec

\* TypedIsKept: what was typed last stays in the textarea until a save carries it to the
\* file or fails, however many requests a browser has under way and in whatever order
\* they are answered (pollContent, doSave, scheduleSave).
THEOREM TypedStays == MCSpec => []TypedIsKept
  <1>1. TexInv => TypedIsKept
    <2> SUFFICES ASSUME TexInv, NEW b \in Browsers, last[b] # 0
                 PROVE  text[b] = last[b] \/ Tex!Sent(last[b])
      BY DEF TypedIsKept, Tex!TypedIsKept
    <2> QED
      BY DEF TexInv, TypedInv
  <1> QED
    BY <1>1, TexHolds, PTL

\* OverwriteIsTold: a save over a text that the one who saves has never had is answered
\* with a conflict, however many browsers edit and in whatever order versions and texts
\* cross the network.  What the code does not guard is in the property: nothing is said
\* once two saves were handled at a time, a page took a version without its text, or the
\* files were scanned again (saveFileContent_callback, getFileContent_callback,
\* pollContent).
THEOREM OverwritesAreTold == MCSpec => []OverwriteIsTold
  <1>1. TexInv => OverwriteIsTold
    BY DEF TexInv, Known, OverwriteIsTold, Tex!OverwriteIsTold
  <1> QED
    BY <1>1, TexHolds, PTL
=============================================================================
