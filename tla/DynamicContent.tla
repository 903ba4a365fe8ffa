---------------------------- MODULE DynamicContent ----------------------------
(***************************************************************************)
(* One dynamic resource and the worker threads that serve it:              *)
(* cache_GetResource (cache/file_caching.c), checkRequestFrequency and     *)
(* dynamicRequest_serveContent (cache/dynamic_requests.c), the part of     *)
(* SendFile that answers from the result (network/file_server.c), and the  *)
(* removal of the resource's handler.                                      *)
(*                                                                         *)
(* A thread serves one client after the other over its kept connection.    *)
(* The application's callback is external: it writes into the buffer it is *)
(* given, may reallocate it, and leaves a page, the path of a file to be   *)
(* streamed, or nothing.  Memory that is not in `live` is freed.           *)
(*                                                                         *)
(* executedNow is left out: checkRequestFrequency looks at it only with    *)
(* content_mutex held, when OneCallback makes it 0.                        *)
(***************************************************************************)
EXTENDS Integers, FiniteSets

CONSTANTS
  Threads,      \* worker threads that serve this resource
  Buffers,      \* the addresses malloc may return
  NULL,
  SamePage,     \* SAME_PAGE_FOR_ALL_CLIENTS, else DIFFERENT_PAGE_FOR_EACH_CLIENT
  Every,        \* callback_every_x_msec
  Width,        \* values of the unsigned int last_callback, 2^32 in the code
  MaxClock,     \* bound: milliseconds of uptime
  MaxRequests,  \* bound: requests of one thread
  Results,      \* what the callback may leave behind
  Reallocs,     \* the callback may reallocate its buffer
  Removes,      \* the application removes the handler
  OutOfMemory   \* malloc of the request itself may fail

ASSUME DynamicAssumption ==
  /\ NULL \notin Buffers \cup Threads
  /\ {SamePage, Reallocs, Removes, OutOfMemory} \subseteq BOOLEAN
  /\ Every \in Nat
  /\ Width \in Nat \ {0}
  /\ {MaxClock, MaxRequests} \subseteq Nat
  /\ Results \subseteq {"page", "path", "nothing"}

VARIABLES
  pc,                 \* where each thread is
  mem,                \* cacheMemory of each thread
  content,            \* requestContext.content
  usable,             \* requestContext.MAXcontentSize # 0
  filled,             \* requestContext.contentSize # 0
  mutex,              \* the holder of content_mutex
  last_callback,
  callback_cooldown,
  live,               \* the buffers that are allocated
  page,               \* what each buffer holds
  gens,               \* pages generated so far
  copy,               \* the generation each client has in its cache
  clock,              \* GetTickCountAmmServ
  freshAt,            \* history: when a fresh page was last decided on
  requests            \* requests each thread has begun

context == << content, usable, filled, last_callback, callback_cooldown >>
heap    == << live, page, gens >>

vars == << pc, mem, context, mutex, heap, copy, clock, freshAt, requests >>

Kinds == {"page", "path", "nothing"}

\* A thread that has got past the test for an empty buffer has one.
TypeOK ==
  /\ pc \in [Threads -> {"idle", "wait", "prepare", "callback", "reply", "sending"}]
  /\ mem \in [Threads -> Buffers \cup {NULL}]
  /\ content \in Buffers \cup {NULL}
  /\ {usable, filled, callback_cooldown} \subseteq BOOLEAN
  /\ mutex \in Threads \cup {NULL}
  /\ last_callback \in 0 .. Width - 1
  /\ live \subseteq Buffers
  /\ page \in [Buffers -> [gen : Nat, kind : Kinds]]
  /\ gens \in Nat
  /\ copy \in [Threads -> Nat]
  /\ clock \in 0 .. MaxClock
  /\ freshAt \in Int
  /\ requests \in [Threads -> 0 .. MaxRequests]
  /\ \A t \in Threads : pc[t] # "idle" => mem[t] # NULL

\* AmmServer_AddResourceHandler has allocated the shared buffer; the context is
\* otherwise cleared.
Init ==
  /\ pc = [t \in Threads |-> "idle"]
  /\ mem = [t \in Threads |-> NULL]
  /\ content \in Buffers
  /\ usable = TRUE
  /\ filled = FALSE
  /\ mutex = NULL
  /\ last_callback = 0
  /\ callback_cooldown = FALSE
  /\ live = {content}
  /\ page = [b \in Buffers |-> [gen |-> 0, kind |-> "nothing"]]
  /\ gens = 0
  /\ copy = [t \in Threads |-> 0]
  /\ clock = 0
  /\ freshAt = -Every
  /\ requests = [t \in Threads |-> 0]

Goto(t, label) == pc' = [pc EXCEPT ![t] = label]

\* freeMallocIfNeeded: only a buffer made for this request is the caller's.
FreeIfPrivate(t) == live' = IF SamePage THEN live ELSE live \ {mem[t]}

-----------------------------------------------------------------------------
(* dynamicRequest_serveContent *)

\* Mutant: a private buffer that cannot be had is replaced by the shared one.
ChooseBufferOrDefault(t) ==
  /\ pc[t] = "idle"
  /\ requests[t] < MaxRequests
  /\ requests' = [requests EXCEPT ![t] = @ + 1]
  /\ \/ /\ ~SamePage
        /\ usable
        /\ \E b \in (Buffers \ live) \cup {content} :
             /\ mem' = [mem EXCEPT ![t] = b]
             /\ live' = live \cup {b}
        /\ Goto(t, "prepare")
     \/ /\ SamePage
        /\ usable
        /\ content # NULL
        /\ mem' = [mem EXCEPT ![t] = content]
        /\ Goto(t, "wait")
        /\ UNCHANGED live
  /\ UNCHANGED << context, mutex, page, gens, copy, clock, freshAt >>

\* The buffer is chosen before the lock is taken: a new one for this client, or
\* the address that the shared context has now.
ChooseBuffer(t) ==
  /\ pc[t] = "idle"
  /\ requests[t] < MaxRequests
  /\ usable
  /\ requests' = [requests EXCEPT ![t] = @ + 1]
  /\ \/ /\ ~SamePage
        /\ \E b \in Buffers \ live :
             /\ mem' = [mem EXCEPT ![t] = b]
             /\ live' = live \cup {b}
        /\ Goto(t, "prepare")
     \/ /\ SamePage
        /\ content # NULL
        /\ mem' = [mem EXCEPT ![t] = content]
        /\ Goto(t, "wait")
        /\ UNCHANGED live
  /\ UNCHANGED << context, mutex, page, gens, copy, clock, freshAt >>

\* The early return: malloc failed, or the handler has been removed.
NoBuffer(t) ==
  /\ pc[t] = "idle"
  /\ requests[t] < MaxRequests
  /\ SamePage => ~usable \/ content = NULL
  /\ requests' = [requests EXCEPT ![t] = @ + 1]
  /\ UNCHANGED << pc, mem, context, mutex, heap, copy, clock, freshAt >>

\* *now - last_callback < callback_every_x_msec, with last_callback narrower
\* than now.
TooFast == Every # 0 /\ clock - last_callback < Every

\* Mutant: a canned page is returned with the lock held.
ServeCannedLocked(t) ==
  /\ pc[t] = "wait"
  /\ mutex = NULL
  /\ TooFast
  /\ mutex' = t
  /\ callback_cooldown' = TRUE
  /\ Goto(t, IF filled THEN "reply" ELSE "idle")
  /\ UNCHANGED << mem, content, usable, filled, last_callback, heap, copy, clock,
                  freshAt, requests >>

\* TIME_IS_TOO_FAST_SERVE_CACHED: lock, mark the cooldown, unlock.  Without
\* content cache_GetResource returns nothing.
ServeCanned(t) ==
  /\ pc[t] = "wait"
  /\ mutex = NULL
  /\ TooFast
  /\ callback_cooldown' = TRUE
  /\ Goto(t, IF filled THEN "reply" ELSE "idle")
  /\ UNCHANGED << mem, content, usable, filled, mutex, last_callback, heap, copy,
                  clock, freshAt, requests >>

\* Mutant: the lock covers the frequency check only.
DecideFreshUnlocked(t) ==
  /\ pc[t] = "wait"
  /\ mutex = NULL
  /\ ~TooFast
  /\ callback_cooldown' = FALSE
  /\ last_callback' = IF Every = 0 THEN 0 ELSE clock % Width
  /\ freshAt' = clock
  /\ Goto(t, "prepare")
  /\ UNCHANGED << mem, content, usable, filled, mutex, heap, copy, clock, requests >>

\* Mutant: the time of the callback is not kept.
DecideFreshForgets(t) ==
  /\ pc[t] = "wait"
  /\ mutex = NULL
  /\ ~TooFast
  /\ mutex' = t
  /\ callback_cooldown' = FALSE
  /\ freshAt' = clock
  /\ Goto(t, "prepare")
  /\ UNCHANGED << mem, content, usable, filled, last_callback, heap, copy, clock,
                  requests >>

\* TIME_IS_OK_SERVE_FRESH: the lock is kept.  (A private page always gets here,
\* with now = 0, and leaves the values that Init has.)
DecideFresh(t) ==
  /\ pc[t] = "wait"
  /\ mutex = NULL
  /\ ~TooFast
  /\ mutex' = t
  /\ callback_cooldown' = FALSE
  /\ last_callback' = IF Every = 0 THEN 0 ELSE clock % Width
  /\ freshAt' = clock
  /\ Goto(t, "prepare")
  /\ UNCHANGED << mem, content, usable, filled, heap, copy, clock, requests >>

Unlock(t) == mutex' = IF SamePage THEN NULL ELSE mutex

\* The AmmServer_DynamicRequest is filled in and the callback called.
CallbackStarts(t) ==
  /\ pc[t] = "prepare"
  /\ Goto(t, "callback")
  /\ UNCHANGED << mem, context, mutex, heap, copy, clock, freshAt, requests >>

\* There is no memory for the request: its buffer is returned with a size of
\* zero, which cache_GetResource does not pass on.
RequestNotAllocated(t) ==
  /\ OutOfMemory
  /\ pc[t] = "prepare"
  /\ Unlock(t)
  /\ Goto(t, "idle")
  /\ UNCHANGED << mem, context, heap, copy, clock, freshAt, requests >>

\* Mutant: the address is not read back from the request after the callback.
CallbackEndsStale(t, result, b) ==
  /\ pc[t] = "callback"
  /\ gens' = gens + 1
  /\ page' = [page EXCEPT ![b] = [gen |-> gens + 1, kind |-> result]]
  /\ filled' = (result # "nothing")
  /\ Unlock(t)
  /\ LET held == (live \ {mem[t]}) \cup {b}
     IN  live' = IF result = "path" /\ ~SamePage THEN held \ {b} ELSE held
  /\ Goto(t, IF result = "page" THEN "reply" ELSE "idle")
  /\ UNCHANGED << mem, content, usable, last_callback, callback_cooldown, copy, clock,
                  freshAt, requests >>

\* The callback leaves `result` in buffer b.  The address and the size are read
\* back, into the shared context too when the page is shared, and the lock is
\* released.  A path is copied out and streamed from disk, its private buffer
\* freed; nothing is passed on of an empty page.
CallbackEnds(t, result, b) ==
  /\ pc[t] = "callback"
  /\ gens' = gens + 1
  /\ page' = [page EXCEPT ![b] = [gen |-> gens + 1, kind |-> result]]
  /\ filled' = (result # "nothing")
  /\ mem' = [mem EXCEPT ![t] = b]
  /\ IF SamePage THEN content' = b /\ usable' = TRUE
                 ELSE UNCHANGED << content, usable >>
  /\ Unlock(t)
  /\ LET held == (live \ {mem[t]}) \cup {b}
     IN  live' = IF result = "path" /\ ~SamePage THEN held \ {b} ELSE held
  /\ Goto(t, IF result = "page" THEN "reply" ELSE "idle")
  /\ UNCHANGED << last_callback, callback_cooldown, copy, clock, freshAt, requests >>

-----------------------------------------------------------------------------
(* SendFile, with the buffer it was given and without the lock *)

\* The ETag is made from the resource's name: any client that has a copy has it.
NotModified(t) ==
  /\ pc[t] = "reply"
  /\ copy[t] # 0
  /\ callback_cooldown
  /\ FreeIfPrivate(t)
  /\ Goto(t, "idle")
  /\ UNCHANGED << mem, context, mutex, page, gens, copy, clock, freshAt, requests >>

\* The headers are out, the body is being sent.
SendBody(t) ==
  /\ pc[t] = "reply"
  /\ Goto(t, "sending")
  /\ UNCHANGED << mem, context, mutex, heap, copy, clock, freshAt, requests >>

\* The body is sent, or the client is lost; the buffer is done with either way.
BodySent(t) ==
  /\ pc[t] = "sending"
  /\ copy' \in { copy, [copy EXCEPT ![t] = page[mem[t]].gen] }
  /\ FreeIfPrivate(t)
  /\ Goto(t, "idle")
  /\ UNCHANGED << mem, context, mutex, page, gens, clock, freshAt, requests >>

-----------------------------------------------------------------------------
\* cache_RemoveContextAndResource: no lock is taken, and the look-up by the bare
\* resource name finds no cache entry, so the handler stays registered.
RemoveHandler(free_mem) ==
  /\ Removes
  /\ usable
  /\ usable' = FALSE
  /\ IF free_mem /\ content # NULL
     THEN /\ live' = live \ {content}
          /\ content' = NULL
     ELSE UNCHANGED << live, content >>
  /\ UNCHANGED << pc, mem, filled, mutex, last_callback, callback_cooldown, page,
                  gens, copy, clock, freshAt, requests >>

Tick ==
  /\ clock < MaxClock
  /\ clock' = clock + 1
  /\ UNCHANGED << pc, mem, context, mutex, heap, copy, freshAt, requests >>

Serve(t) ==
  \/ ChooseBuffer(t)
  \/ NoBuffer(t)
  \/ ServeCanned(t)
  \/ DecideFresh(t)
  \/ CallbackStarts(t)
  \/ RequestNotAllocated(t)
  \/ \E result \in Results :
       \E b \in IF Reallocs THEN {mem[t]} \cup (Buffers \ live) ELSE {mem[t]} :
         CallbackEnds(t, result, b)
  \/ NotModified(t)
  \/ SendBody(t)
  \/ BodySent(t)

Next ==
  \/ \E t \in Threads : Serve(t)
  \/ \E free_mem \in BOOLEAN : RemoveHandler(free_mem)
  \/ Tick

Spec == Init /\ [][Next]_vars

\* Threads run, callbacks return and sends end: SO_SNDTIMEO bounds a send.
FairSpec == Spec /\ \A t \in Threads : WF_vars(pc[t] # "idle" /\ Serve(t))

-----------------------------------------------------------------------------
(* Properties *)

\* Two threads never run the callback of a shared page at the same time, over
\* all the ways content_mutex is taken and released.
OneCallback ==
  SamePage => \A t, u \in Threads :
                pc[t] = "callback" /\ pc[u] = "callback" => t = u

\* Two fresh pages are decided on at least callback_every_x_msec apart.
RateLimit ==
  [][ freshAt' # freshAt => freshAt' - freshAt >= Every ]_vars

\* Every request comes to its end, whoever else holds content_mutex.
RequestEnds == \A t \in Threads : pc[t] # "idle" ~> pc[t] = "idle"

\* The memory that a callback writes to and that a body is sent from has not
\* been freed, whatever other threads did since its address was read.
LiveBuffer ==
  \A t \in Threads : pc[t] \in {"callback", "reply", "sending"} => mem[t] \in live

\* Of a resource with a page for each client, no two requests in progress share
\* a buffer, and none uses the one that was registered with the handler.
PrivatePages ==
  ~SamePage =>
    \A t \in Threads : pc[t] # "idle" =>
      /\ mem[t] # content
      /\ \A u \in Threads \ {t} : pc[u] # "idle" => mem[t] # mem[u]

\* Between requests no private buffer stays allocated.
NoLeak ==
  ~SamePage /\ (\A t \in Threads : pc[t] = "idle") => Cardinality(live) <= 1

\* A body is not sent from a buffer in which a callback is writing.
NotReadWhileWritten ==
  \A t, u \in Threads :
    pc[t] = "sending" /\ pc[u] = "callback" => mem[t] # mem[u]

\* What is sent as a page was generated as a page: a canned answer is what the
\* last callback meant its clients to get.
CannedIsAPage == \A t \in Threads : pc[t] = "sending" => page[mem[t]].kind = "page"

\* A client that is told 304 has the page that was generated last.
NotModifiedIsCurrent ==
  [][ \A t \in Threads : NotModified(t) => copy[t] = page[mem[t]].gen ]_vars
=============================================================================
