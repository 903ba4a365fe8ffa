----------------------------- MODULE Cache_proofs -----------------------------
(***************************************************************************)
(* What holds of the cache's two kinds of resources.                       *)
(*                                                                         *)
(* Of a dynamic resource (DynamicContent), for any number of threads,      *)
(* buffers and requests: content_mutex keeps callbacks of a shared page    *)
(* apart, the rate limit holds as long as the uptime fits last_callback,   *)
(* and private pages stay private and allocated.                           *)
(*                                                                         *)
(* Of the static files (FileCache), for any number of files, callers and   *)
(* calls, until a load meets another call: each answer is the right file   *)
(* with its own size, and a barred file is not sent from the cache.        *)
(***************************************************************************)
EXTENDS MC_Cache, Sequences, TLAPS

-----------------------------------------------------------------------------
(* A dynamic resource *)

Labels == {"idle", "wait", "prepare", "callback", "reply", "sending"}

Control ==
  /\ pc \in [Threads -> Labels]
  /\ mutex \in Threads \cup {NULL}

\* A thread between the decision for a fresh page and the end of its callback
\* holds the lock.
HoldsMutex ==
  SamePage => \A t \in Threads : pc[t] \in {"prepare", "callback"} => mutex = t

MutexInv == Control /\ HoldsMutex

LEMMA MutexInit == Init => MutexInv
  BY DEF Init, MutexInv, Control, Labels, HoldsMutex

LEMMA MutexStep == MutexInv /\ [Next]_vars => MutexInv'
<1> SUFFICES ASSUME MutexInv, [Next]_vars PROVE MutexInv'
  OBVIOUS
<1> USE DynamicAssumption DEF DynamicAssumption, MutexInv, Control, Labels, HoldsMutex, Goto
<1>1. CASE UNCHANGED vars
  BY <1>1 DEF vars
<1>2. CASE Tick
  BY <1>2 DEF Tick
<1>3. ASSUME NEW free_mem \in BOOLEAN, RemoveHandler(free_mem) PROVE MutexInv'
  BY <1>3 DEF RemoveHandler
<1>4. ASSUME NEW t \in Threads, Serve(t) PROVE MutexInv'
  <2>1. CASE ChooseBuffer(t)
    BY <2>1 DEF ChooseBuffer
  <2>2. CASE NoBuffer(t)
    BY <2>2 DEF NoBuffer
  <2>3. CASE ServeCanned(t)
    BY <2>3 DEF ServeCanned
  <2>4. CASE DecideFresh(t)
    BY <2>4 DEF DecideFresh
  <2>5. CASE CallbackStarts(t)
    BY <2>5 DEF CallbackStarts
  <2>6. CASE RequestNotAllocated(t)
    BY <2>6 DEF RequestNotAllocated, Unlock
  <2>7. ASSUME NEW result, NEW b, CallbackEnds(t, result, b) PROVE MutexInv'
    BY <2>7 DEF CallbackEnds, Unlock
  <2>8. CASE NotModified(t)
    BY <2>8 DEF NotModified
  <2>9. CASE SendBody(t)
    BY <2>9 DEF SendBody
  <2>10. CASE BodySent(t)
    BY <2>10 DEF BodySent
  <2> QED
    BY <1>4, <2>1, <2>2, <2>3, <2>4, <2>5, <2>6, <2>7, <2>8, <2>9, <2>10 DEF Serve
<1> QED
  BY <1>1, <1>2, <1>3, <1>4 DEF Next

\* content_mutex serialises the callbacks of a shared page, with any number of
\* threads and however a request ends.
THEOREM CallbacksSerialised == Spec => []OneCallback
<1>1. MutexInv => OneCallback
  BY DEF MutexInv, Control, HoldsMutex, OneCallback
<1> QED
  BY MutexInit, MutexStep, <1>1, PTL DEF Spec

-----------------------------------------------------------------------------
\* The uptime fits last_callback: 2^32 milliseconds are some 49 days.
ClockFits == MaxClock < Width

\* last_callback is the time of the last decision, once there is one.
LastIsFresh ==
  /\ clock \in 0 .. MaxClock
  /\ last_callback \in Int
  /\ freshAt \in Int
  /\ \/ freshAt = -Every
     \/ /\ freshAt >= 0
        /\ freshAt =< clock
        /\ Every # 0 => last_callback = freshAt

LEMMA RateInit == Init => LastIsFresh
  BY DynamicAssumption DEF DynamicAssumption, Init, LastIsFresh

\* Truncation to last_callback's width does nothing to a time that fits.
LEMMA FittingTime ==
  ASSUME ClockFits, clock \in 0 .. MaxClock
  PROVE  clock % Width = clock
  BY DynamicAssumption DEF DynamicAssumption, ClockFits

LEMMA FreshDecision ==
  ASSUME ClockFits, LastIsFresh, NEW t \in Threads, DecideFresh(t)
  PROVE  /\ LastIsFresh'
         /\ freshAt' - freshAt >= Every
<1>1. clock % Width = clock
  BY FittingTime DEF LastIsFresh
<1>2. /\ clock' = clock
      /\ freshAt' = clock
      /\ last_callback' = IF Every = 0 THEN 0 ELSE clock
      /\ Every = 0 \/ clock - last_callback >= Every
  BY <1>1, DynamicAssumption DEF DecideFresh, TooFast, LastIsFresh, DynamicAssumption
<1>3. LastIsFresh'
  BY <1>2, DynamicAssumption DEF LastIsFresh, DynamicAssumption
<1>4. freshAt' - freshAt >= Every
  BY <1>2, DynamicAssumption DEF LastIsFresh, DynamicAssumption
<1> QED
  BY <1>3, <1>4

\* Only a decision for a fresh page touches the times, and only a tick the clock.
LEMMA TimesKept ==
  ASSUME [Next]_vars, \A t \in Threads : ~DecideFresh(t)
  PROVE  /\ UNCHANGED << last_callback, freshAt >>
         /\ clock' = clock \/ Tick
<1>1. CASE UNCHANGED vars
  BY <1>1 DEF vars, context
<1>2. CASE Tick
  BY <1>2 DEF Tick, context
<1>3. ASSUME NEW free_mem \in BOOLEAN, RemoveHandler(free_mem)
      PROVE UNCHANGED << last_callback, freshAt, clock >>
  BY <1>3 DEF RemoveHandler
<1>4. ASSUME NEW t \in Threads, Serve(t)
      PROVE UNCHANGED << last_callback, freshAt, clock >>
  BY <1>4 DEF Serve, ChooseBuffer, NoBuffer, ServeCanned, CallbackStarts,
     RequestNotAllocated, CallbackEnds, NotModified, SendBody, BodySent, context
<1> QED
  BY <1>1, <1>2, <1>3, <1>4 DEF Next

LEMMA RateStep ==
  ASSUME ClockFits, LastIsFresh, [Next]_vars
  PROVE  /\ LastIsFresh'
         /\ freshAt' # freshAt => freshAt' - freshAt >= Every
<1>1. CASE \E t \in Threads : DecideFresh(t)
  BY <1>1, FreshDecision
<1>2. CASE \A t \in Threads : ~DecideFresh(t)
  <2>1. UNCHANGED << last_callback, freshAt >> /\ (clock' = clock \/ Tick)
    BY <1>2, TimesKept
  <2>2. clock' \in 0 .. MaxClock /\ clock' >= clock
    BY <2>1, DynamicAssumption DEF Tick, LastIsFresh, DynamicAssumption
  <2> QED
    BY <2>1, <2>2, DynamicAssumption DEF LastIsFresh, DynamicAssumption
<1> QED
  BY <1>1, <1>2

\* Callbacks of a shared page are callback_every_x_msec apart until the uptime
\* outgrows last_callback; the run shared_page_uptime shows what happens then.
THEOREM RateLimitHolds == ClockFits => (Spec => RateLimit)
<1> SUFFICES ASSUME ClockFits PROVE Spec => RateLimit
  OBVIOUS
<1>1. LastIsFresh /\ [Next]_vars => LastIsFresh'
  BY RateStep
<1>2. LastIsFresh /\ [Next]_vars
        => [freshAt' # freshAt => freshAt' - freshAt >= Every]_vars
  BY RateStep
<1> QED
  BY RateInit, <1>1, <1>2, PTL DEF Spec, RateLimit

-----------------------------------------------------------------------------
\* What a page for each client needs in order to stay its own: the requests in
\* progress and the registered buffer hold different, allocated addresses.
Addresses ==
  /\ pc \in [Threads -> Labels]
  /\ mem \in [Threads -> Buffers \cup {NULL}]
  /\ live \subseteq Buffers
  /\ content \in live \cup {NULL}

Owned ==
  \A t \in Threads : pc[t] # "idle" =>
    /\ pc[t] # "wait"
    /\ mem[t] \in live
    /\ mem[t] # content
    /\ \A u \in Threads \ {t} : pc[u] # "idle" => mem[t] # mem[u]

PrivateInv == Addresses /\ Owned

LEMMA PrivateInit == Init => PrivateInv
  BY DEF Init, PrivateInv, Addresses, Owned, Labels

\* A request that ends and frees its buffer takes none from the others.
LEMMA OwnerFrees ==
  ASSUME PrivateInv, NEW t \in Threads, Goto(t, "idle"), pc[t] # "idle",
         live' \in {live, live \ {mem[t]}}, UNCHANGED << mem, content >>
  PROVE  PrivateInv'
<1>1. Addresses'
  BY DEF PrivateInv, Addresses, Owned, Goto, Labels
<1>2. Owned'
  BY DEF PrivateInv, Addresses, Owned, Goto, Labels
<1> QED
  BY <1>1, <1>2 DEF PrivateInv

\* A request that goes on keeps the buffer it has.
LEMMA OwnerGoesOn ==
  ASSUME PrivateInv, NEW t \in Threads, NEW label \in Labels \ {"idle", "wait"},
         Goto(t, label), pc[t] # "idle", UNCHANGED << mem, content, live >>
  PROVE  PrivateInv'
  BY DEF PrivateInv, Addresses, Owned, Goto

\* The buffer of a callback is its own before, during and after a realloc.
LEMMA CallbackKeepsOwn ==
  ASSUME ~SamePage, PrivateInv, NEW t \in Threads, NEW result \in Results,
         NEW b \in {mem[t]} \cup (Buffers \ live), CallbackEnds(t, result, b)
  PROVE  PrivateInv'
<1> DEFINE held == (live \ {mem[t]}) \cup {b}
<1>1. /\ pc[t] = "callback"
      /\ mem' = [mem EXCEPT ![t] = b]
      /\ content' = content
      /\ pc' = [pc EXCEPT ![t] = IF result = "page" THEN "reply" ELSE "idle"]
      /\ live' = IF result = "path" THEN held \ {b} ELSE held
  BY DEF CallbackEnds, Goto
<1>2. mem[t] \in live /\ mem[t] # content /\ b \in Buffers /\ b # content
  BY <1>1, DynamicAssumption DEF PrivateInv, Addresses, Owned, DynamicAssumption
<1>3. \A u \in Threads \ {t} : pc[u] # "idle" => mem[u] \in live \ {mem[t], b}
  BY <1>1 DEF PrivateInv, Addresses, Owned
<1>4. Addresses'
  BY <1>1, <1>2 DEF PrivateInv, Addresses, Labels
<1>5. Owned'
  BY <1>1, <1>2, <1>3 DEF PrivateInv, Addresses, Owned, Labels
<1> QED
  BY <1>4, <1>5 DEF PrivateInv

LEMMA PrivateStep ==
  ASSUME ~SamePage, PrivateInv, [Next]_vars
  PROVE  PrivateInv'
<1>1. CASE UNCHANGED vars
  BY <1>1 DEF vars, context, heap, PrivateInv, Addresses, Owned
<1>2. CASE Tick
  BY <1>2 DEF Tick, context, heap, PrivateInv, Addresses, Owned
<1>3. ASSUME NEW free_mem \in BOOLEAN, RemoveHandler(free_mem) PROVE PrivateInv'
  <2>1. Addresses'
    BY <1>3 DEF RemoveHandler, PrivateInv, Addresses
  <2>2. Owned'
    BY <1>3, DynamicAssumption
    DEF RemoveHandler, PrivateInv, Addresses, Owned, DynamicAssumption
  <2> QED
    BY <2>1, <2>2 DEF PrivateInv
<1>4. ASSUME NEW t \in Threads, Serve(t) PROVE PrivateInv'
  <2>1. CASE ChooseBuffer(t)
    <3>1. PICK b \in Buffers \ live : /\ mem' = [mem EXCEPT ![t] = b]
                                      /\ live' = live \cup {b}
      BY <2>1 DEF ChooseBuffer
    <3>2. pc[t] = "idle" /\ pc' = [pc EXCEPT ![t] = "prepare"] /\ content' = content
      BY <2>1 DEF ChooseBuffer, Goto, context
    <3>3. Addresses'
      BY <3>1, <3>2 DEF PrivateInv, Addresses, Labels
    <3>4. b # content
      BY <3>1, DynamicAssumption DEF PrivateInv, Addresses, DynamicAssumption
    <3>5. Owned'
      BY <3>1, <3>2, <3>4 DEF PrivateInv, Addresses, Owned, Labels
    <3> QED
      BY <3>3, <3>5 DEF PrivateInv
  <2>2. CASE NoBuffer(t)
    BY <2>2 DEF NoBuffer, context, heap, PrivateInv, Addresses, Owned
  <2>3. CASE ServeCanned(t) \/ DecideFresh(t)
    BY <2>3 DEF ServeCanned, DecideFresh, PrivateInv, Owned
  <2>4. CASE CallbackStarts(t)
    BY <2>4, OwnerGoesOn DEF CallbackStarts, context, heap, Labels
  <2>5. CASE RequestNotAllocated(t)
    BY <2>5, OwnerFrees DEF RequestNotAllocated, context, heap
  <2>6. ASSUME NEW result \in Results,
               NEW b \in IF Reallocs THEN {mem[t]} \cup (Buffers \ live) ELSE {mem[t]},
               CallbackEnds(t, result, b)
        PROVE  PrivateInv'
    BY <2>6, CallbackKeepsOwn
  <2>7. CASE NotModified(t) \/ BodySent(t)
    BY <2>7, OwnerFrees DEF NotModified, BodySent, FreeIfPrivate, context
  <2>8. CASE SendBody(t)
    BY <2>8, OwnerGoesOn DEF SendBody, context, heap, Labels
  <2> QED
    BY <1>4, <2>1, <2>2, <2>3, <2>4, <2>5, <2>6, <2>7, <2>8 DEF Serve
<1> QED
  BY <1>1, <1>2, <1>3, <1>4 DEF Next

\* A page made for one client is in memory that is allocated and that no other
\* request uses, for any number of clients, with reallocating callbacks, failing
\* allocations and the removal of the handler at any time.
THEOREM PrivatePagesOwned == ~SamePage => (Spec => [](LiveBuffer /\ PrivatePages))
<1> SUFFICES ASSUME ~SamePage PROVE Spec => [](LiveBuffer /\ PrivatePages)
  OBVIOUS
<1>1. PrivateInv => LiveBuffer /\ PrivatePages
  BY DEF PrivateInv, Owned, LiveBuffer, PrivatePages
<1>2. PrivateInv /\ [Next]_vars => PrivateInv'
  BY PrivateStep
<1> QED
  BY PrivateInit, <1>1, <1>2, PTL DEF Spec

\* What a request of a shared page uses is what the context holds, as long as nobody
\* reallocates or frees it.
SharedInv ==
  /\ Control
  /\ content \in Buffers
  /\ content \in live
  /\ mem \in [Threads -> Buffers \cup {NULL}]
  /\ \A t \in Threads : pc[t] # "idle" => mem[t] = content

LEMMA SharedStep ==
  SamePage /\ ~Reallocs /\ ~Removes /\ SharedInv /\ [Next]_vars => SharedInv'
<1> SUFFICES ASSUME SamePage, ~Reallocs, ~Removes, SharedInv, [Next]_vars PROVE SharedInv'
  OBVIOUS
<1> USE DEF SharedInv, Control, Labels, Goto
<1>1. CASE UNCHANGED vars
  BY <1>1 DEF vars, context, heap
<1>2. ASSUME NEW t \in Threads, Serve(t) PROVE SharedInv'
  <2>1. CASE ChooseBuffer(t)
    BY <2>1 DEF ChooseBuffer, context
  <2>2. CASE NoBuffer(t)
    BY <2>2 DEF NoBuffer, context, heap
  <2>3. CASE ServeCanned(t) \/ DecideFresh(t)
    BY <2>3 DEF ServeCanned, DecideFresh, heap
  <2>4. CASE CallbackStarts(t)
    BY <2>4 DEF CallbackStarts, context, heap
  <2>5. CASE RequestNotAllocated(t)
    BY <2>5, DynamicAssumption DEF RequestNotAllocated, Unlock, context, heap
  <2>6. ASSUME NEW result \in Results, CallbackEnds(t, result, mem[t]) PROVE SharedInv'
    <3>1. /\ mem' = [mem EXCEPT ![t] = content] /\ content' = content
          /\ live' = (live \ {content}) \cup {content}
          /\ pc' = [pc EXCEPT ![t] = IF result = "page" THEN "reply" ELSE "idle"]
          /\ mutex' = NULL
      BY <2>6 DEF CallbackEnds, Unlock
    <3> QED
      BY <3>1
  <2>7. CASE NotModified(t) \/ SendBody(t) \/ BodySent(t)
    BY <2>7 DEF NotModified, SendBody, BodySent, FreeIfPrivate, context, heap
  <2> QED
    BY <1>2, <2>1, <2>2, <2>3, <2>4, <2>5, <2>6, <2>7 DEF Serve
<1>3. CASE \E free_mem \in BOOLEAN : RemoveHandler(free_mem)
  BY <1>3 DEF RemoveHandler
<1>4. CASE Tick
  BY <1>4 DEF Tick, context, heap
<1> QED
  BY <1>1, <1>2, <1>3, <1>4 DEF Next

\* LiveBuffer: dynamicRequest_serveContent reads the address of a shared buffer before it
\* takes content_mutex.  That does no harm to a page for each client, and none to a shared
\* one either unless a callback reallocates the buffer or the handler is removed.
THEOREM BuffersAreLive == ~SamePage \/ (~Reallocs /\ ~Removes) => (Spec => []LiveBuffer)
<1>1. CASE ~SamePage
  <2>1. PrivateInv => LiveBuffer
    BY <1>1 DEF PrivateInv, Owned, LiveBuffer
  <2>2. ~SamePage /\ PrivateInv /\ [Next]_vars => PrivateInv'
    BY PrivateStep
  <2>3. ~SamePage /\ Init => PrivateInv
    BY PrivateInit
  <2> QED
    BY <1>1, <2>1, <2>2, <2>3, PTL DEF Spec
<1>2. CASE SamePage /\ ~Reallocs /\ ~Removes
  <2>1. Init => SharedInv
    BY DEF Init, SharedInv, Control, Labels
  <2>2. SharedInv => LiveBuffer
    BY DEF SharedInv, LiveBuffer
  <2>3. SharedInv /\ [Next]_vars => SharedInv'
    BY <1>2, SharedStep
  <2> QED
    BY <2>1, <2>2, <2>3, PTL DEF Spec
<1> QED
  BY <1>1, <1>2, DynamicAssumption DEF DynamicAssumption

-----------------------------------------------------------------------------
(* The static files *)

\* The array is as long as the counter may get, as it is with the sizes that the server
\* comes with (1024 items, 128 MB).
ArrayHoldsAll == MAX_CACHE_SIZE_IN_MB <= MAX_SEPERATE_CACHE_ITEMS + 2

fileVars == Static!vars

\* An entry whose payload has been written, as far as t knows.
Settled(t, k) ==
  /\ k \in DOMAIN entries
  /\ k = Len(entries) => filePc[t] # "payload"

\* t is filling an item.
Filling(t, i) == filePc[t] \in {"alloc", "fill"} /\ index[t] = i

\* What an item holds for f, if anything, is f and as long as f.
Whole(i, f) ==
  /\ cache[i].content \in {NULL, f}
  /\ cache[i].content = f => cache[i].contentSize = f

\* What the entries lead to, if nobody but t fills the cache.
EntriesInv(t) ==
  /\ \A i \in Static!Indices : i >= loaded_cache_items => cache[i].content = NULL
  /\ \A k \in DOMAIN entries : Settled(t, k) =>
       /\ entries[k].payload < loaded_cache_items
       /\ Filling(t, entries[k].payload) \/ Whole(entries[k].payload, entries[k].key)

\* Where a call is says what its item and the entries for it hold.
CallInv(t) ==
  /\ filePc[t] # "idle" => file[t] \in Files
  /\ filePc[t] \in {"count", "counted"} => loaded_cache_items + 1 < MAX_CACHE_SIZE_IN_MB
  /\ filePc[t] = "counted" => reg[t] = loaded_cache_items
  /\ filePc[t] \in {"key", "payload"} =>
       /\ index[t] < loaded_cache_items
       /\ cache[index[t]].content = NULL
       /\ \A k \in DOMAIN entries : Settled(t, k) => entries[k].payload # index[t]
  /\ filePc[t] = "payload" => entries # << >> /\ entries[Len(entries)].key = file[t]
  /\ filePc[t] \in {"clear", "open", "charge", "charged", "content", "alloc", "fill", "loaded"} =>
       /\ index[t] < loaded_cache_items
       /\ \A k \in DOMAIN entries : entries[k].payload = index[t] => entries[k].key = file[t]
  /\ filePc[t] \in {"alloc", "fill", "loaded", "size"} => cache[index[t]].content = file[t]
  /\ filePc[t] \in {"loaded", "size"} => cache[index[t]].contentSize = file[t]
  /\ filePc[t] = "read" => Whole(index[t], file[t])
  /\ filePc[t] \in {"size", "send"} => body[t] = file[t]
  /\ filePc[t] = "send" => size[t] = file[t]

OwnInv(t) == Static!TypeOK /\ EntriesInv(t) /\ CallInv(t)

\* What holds as long as no load has met another call.
StaticInv ==
  /\ Static!TypeOK
  /\ Static!Apart
  /\ \A t \in Callers : /\ CallInv(t)
                        /\ (\A s \in Callers \ {t} : ~Static!Fills(s)) => EntriesInv(t)

SerialInv == mixed \/ StaticInv

LEMMA InitSerial == Static!Init => SerialInv
  <1> SUFFICES ASSUME Static!Init PROVE StaticInv
    BY DEF SerialInv
  <1> USE FileCacheAssumption DEF FileCacheAssumption, Static!Init
  <1>1. Static!TypeOK
    <2>1. << >> \in Seq([key : Files, payload : Static!Indices])
      OBVIOUS
    <2>2. Static!Cleared \in Static!Item /\ 0 \in Static!Indices
      BY DEF Static!Cleared, Static!Item, Static!Indices
    <2> QED
      BY <2>1, <2>2 DEF Static!TypeOK, Static!Labels
  <1>2. Static!Apart
    BY DEF Static!Apart, Static!Fills
  <1>3. \A t \in Callers : CallInv(t)
    BY DEF CallInv
  <1>4. \A t \in Callers : EntriesInv(t)
    BY DEF EntriesInv, Static!Cleared
  <1> QED
    BY <1>1, <1>2, <1>3, <1>4 DEF StaticInv

LEMMA EntryTypes ==
  ASSUME Static!TypeOK, NEW k \in DOMAIN entries
  PROVE  entries[k].key \in Files /\ entries[k].payload \in Static!Indices
  <1>1. PICK S : S = [key : Files, payload : Static!Indices]
    OBVIOUS
  <1>2. entries \in Seq(S)
    BY <1>1 DEF Static!TypeOK
  <1>3. entries[k] \in S
    BY <1>2
  <1> QED
    BY <1>1, <1>3

\* A step moves one caller.
LEMMA OthersRest ==
  ASSUME Static!TypeOK, NEW t \in Callers, Static!Step(t), NEW s \in Callers \ {t}
  PROVE  /\ filePc'[s] = filePc[s] /\ index'[s] = index[s] /\ file'[s] = file[s]
         /\ reg'[s] = reg[s] /\ body'[s] = body[s] /\ size'[s] = size[s]
         /\ op'[s] = op[s] /\ ruled'[s] = ruled[s]
  <1> USE DEF Static!TypeOK, Static!Go, Static!request, Static!answer, Static!WithoutCache
  <1>1. ASSUME NEW o, NEW f, Static!Call(t, o, f)
        PROVE  /\ filePc'[s] = filePc[s] /\ index'[s] = index[s] /\ file'[s] = file[s]
               /\ reg'[s] = reg[s] /\ body'[s] = body[s] /\ size'[s] = size[s]
               /\ op'[s] = op[s] /\ ruled'[s] = ruled[s]
    BY <1>1 DEF Static!Call
  <1>2. CASE \/ Static!Send(t) \/ Static!FindHit(t) \/ Static!FindMiss(t)
             \/ Static!FindAgain(t) \/ Static!SetRule(t) \/ Static!ReadItem(t)
             \/ Static!ReadSize(t) \/ Static!CheckRoom(t)
    BY <1>2 DEF Static!Send, Static!FindHit, Static!FindMiss, Static!FindAgain,
       Static!SetRule, Static!ReadItem, Static!ReadSize, Static!CheckRoom
  <1>3. CASE \/ Static!CountLoad(t) \/ Static!CountStore(t) \/ Static!AddKey(t)
             \/ Static!AddKeyFails(t) \/ Static!AddPayload(t) \/ Static!ClearItem(t)
             \/ Static!OpenFile(t) \/ Static!OpenFails(t)
    BY <1>3 DEF Static!CountLoad, Static!CountStore, Static!AddKey, Static!AddKeyFails,
       Static!AddPayload, Static!ClearItem, Static!OpenFile, Static!OpenFails
  <1>4. CASE \/ Static!ChargeLoad(t) \/ Static!ChargeStore(t) \/ Static!ReadFails(t)
             \/ Static!SetContent(t) \/ Static!AllocSize(t) \/ Static!FillSize(t)
             \/ Static!ReturnLoaded(t)
    BY <1>4 DEF Static!ChargeLoad, Static!ChargeStore, Static!ReadFails, Static!SetContent,
       Static!AllocSize, Static!FillSize, Static!ReturnLoaded
  <1> QED
    BY <1>1, <1>2, <1>3, <1>4 DEF Static!Step

\* A caller's step, beside others that do nothing to the cache.
LEMMA OwnStep ==
  ASSUME ArrayHoldsAll, NEW t \in Callers, OwnInv(t), Static!Step(t), mixed' \in BOOLEAN
  PROVE  OwnInv(t)'
  <1> USE FileCacheAssumption DEF FileCacheAssumption
  <1>1. filePc[t] \in Static!Labels /\ index[t] \in Static!Indices
    BY DEF OwnInv, Static!TypeOK
  <1>2. ASSUME NEW o \in {"get", "precache", "rule"}, NEW f \in Files, Static!Call(t, o, f)
        PROVE  OwnInv(t)'
    BY <1>1, <1>2 DEF OwnInv, Static!TypeOK, EntriesInv, CallInv, Static!Call, Static!Go,
       Static!counters, Static!map, Static!answer, Static!Labels, Settled, Filling, Whole,
       Static!Ruled
  <1>3. CASE Static!Send(t)
    BY <1>1, <1>3 DEF OwnInv, Static!TypeOK, EntriesInv, CallInv, Static!Send, Static!Go,
       Static!counters, Static!map, Static!answer, Static!request, Static!Labels, Settled,
       Filling, Whole
  <1>4. CASE Static!FindHit(t)
    <2>1. /\ filePc[t] = "find"
          /\ UNCHANGED << Static!counters, cache, Static!map, Static!request, reg, Static!answer >>
      BY <1>4 DEF Static!FindHit, Static!Go
    <2>2. ASSUME NEW k \in DOMAIN entries, entries[k].key = file[t],
                 filePc' = [filePc EXCEPT ![t] = "read"],
                 index' = [index EXCEPT ![t] = entries[k].payload]
          PROVE  OwnInv(t)'
      <3>1. Whole(entries[k].payload, file[t])
        BY <1>1, <2>1, <2>2 DEF OwnInv, EntriesInv, Settled, Filling
      <3>2. entries[k].payload \in Static!Indices
        BY EntryTypes DEF OwnInv
      <3> QED
        BY <1>1, <2>1, <2>2, <3>1, <3>2 DEF OwnInv, Static!TypeOK, EntriesInv, CallInv,
           Static!counters, Static!map, Static!answer, Static!request, Static!Labels, Settled,
           Filling, Whole
    <2> QED
      BY <1>4, <2>2 DEF Static!FindHit, Static!FirstEntry, Static!Go
  <1>5. CASE Static!FindMiss(t)
    BY <1>1, <1>5 DEF OwnInv, Static!TypeOK, EntriesInv, CallInv, Static!FindMiss,
       Static!Go, Static!counters, Static!map, Static!answer, Static!request, Static!Labels,
       Settled, Filling, Whole
  <1>6. CASE Static!FindAgain(t)
    <2>1. /\ filePc[t] = "again"
          /\ UNCHANGED << Static!counters, cache, Static!map, Static!request, reg, Static!answer >>
      BY <1>6 DEF Static!FindAgain, Static!Go
    <2>2. ASSUME NEW k \in DOMAIN entries, entries[k].key = file[t],
                 filePc' = [filePc EXCEPT ![t] = "read"],
                 index' = [index EXCEPT ![t] = entries[k].payload]
          PROVE  OwnInv(t)'
      <3>1. Whole(entries[k].payload, file[t])
        BY <1>1, <2>1, <2>2 DEF OwnInv, EntriesInv, Settled, Filling
      <3>2. entries[k].payload \in Static!Indices
        BY EntryTypes DEF OwnInv
      <3> QED
        BY <1>1, <2>1, <2>2, <3>1, <3>2 DEF OwnInv, Static!TypeOK, EntriesInv, CallInv,
           Static!counters, Static!map, Static!answer, Static!request, Static!Labels, Settled,
           Filling, Whole
    <2>3. CASE filePc' = [filePc EXCEPT ![t] = "idle"] /\ UNCHANGED index
      BY <1>1, <2>1, <2>3 DEF OwnInv, Static!TypeOK, EntriesInv, CallInv, Static!counters,
         Static!map, Static!answer, Static!request, Static!Labels, Settled, Filling, Whole
    <2> QED
      BY <1>6, <2>2, <2>3 DEF Static!FindAgain, Static!FirstEntry, Static!Go
  <1>7. CASE Static!SetRule(t)
    <2>1. /\ filePc[t] = "read" /\ filePc' = [filePc EXCEPT ![t] = "idle"]
          /\ index[t] \in Static!Indices
          /\ cache' = [cache EXCEPT ![index[t]].doNOTCacheRule = TRUE]
          /\ UNCHANGED << Static!counters, Static!map, Static!request, index, reg,
                          Static!answer >>
      BY <1>7 DEF Static!SetRule, Static!Go, OwnInv, Static!TypeOK
    <2>2. /\ cache' \in [Static!Indices -> Static!Item]
          /\ \A i \in Static!Indices : /\ cache'[i].content = cache[i].content
                                /\ cache'[i].contentSize = cache[i].contentSize
      <3>1. cache \in [Static!Indices -> Static!Item] /\ cache[index[t]] \in Static!Item
        BY <2>1 DEF OwnInv, Static!TypeOK
      <3>2. [cache[index[t]] EXCEPT !.doNOTCacheRule = TRUE] \in Static!Item
        BY <3>1 DEF Static!Item
      <3>3. \A i \in Static!Indices : cache'[i] = IF i = index[t]
                                THEN [cache[i] EXCEPT !.doNOTCacheRule = TRUE] ELSE cache[i]
        BY <2>1, <3>1
      <3>4. cache' \in [Static!Indices -> Static!Item]
        BY <2>1, <3>1, <3>2
      <3>5. \A c \in Static!Item : /\ [c EXCEPT !.doNOTCacheRule = TRUE].content = c.content
                           /\ [c EXCEPT !.doNOTCacheRule = TRUE].contentSize = c.contentSize
        BY DEF Static!Item
      <3> QED
        BY <3>1, <3>3, <3>4, <3>5
    <2>3. Static!TypeOK'
      BY <1>1, <2>1, <2>2 DEF OwnInv, Static!TypeOK, Static!counters, Static!map,
         Static!answer, Static!request, Static!Labels
    <2>4. EntriesInv(t)'
      <3>1. \A k \in DOMAIN entries : entries[k].payload \in Static!Indices
        BY EntryTypes DEF OwnInv
      <3> QED
        <4>1. ASSUME NEW k \in DOMAIN entries, Settled(t, k)'
              PROVE  /\ entries[k].payload < loaded_cache_items
                     /\ Whole(entries[k].payload, entries[k].key)'
          <5>1. Settled(t, k) /\ ~Filling(t, entries[k].payload)
            BY <1>1, <2>1, <4>1 DEF Settled, Static!map, OwnInv, Filling
          <5>2. /\ Whole(entries[k].payload, entries[k].key)
                /\ entries[k].payload < loaded_cache_items
            BY <5>1 DEF OwnInv, EntriesInv
          <5> QED
            BY <2>1, <2>2, <3>1, <5>2 DEF Whole, Static!map
        <4> QED
          BY <2>1, <2>2, <4>1 DEF OwnInv, EntriesInv, Static!counters, Static!map
    <2>5. CallInv(t)'
      BY <2>1, <2>3 DEF Static!TypeOK, CallInv
    <2> QED
      BY <1>1, <2>3, <2>4, <2>5 DEF OwnInv
  <1>8. CASE Static!ReadItem(t)
    BY <1>1, <1>8 DEF OwnInv, Static!TypeOK, EntriesInv, CallInv, Static!ReadItem,
       Static!WithoutCache, Static!Go, Static!counters, Static!map, Static!answer,
       Static!request, Static!Labels, Settled, Filling, Whole, Static!Item
  <1>9. CASE Static!ReadSize(t)
    BY <1>1, <1>9 DEF OwnInv, Static!TypeOK, EntriesInv, CallInv, Static!ReadSize,
       Static!Go, Static!counters, Static!map, Static!answer, Static!request, Static!Labels,
       Settled, Filling, Whole, Static!Item
  <1>10. CASE Static!CheckRoom(t)
    <2>1. /\ filePc[t] = "room"
          /\ UNCHANGED << Static!counters, cache, Static!map, Static!request, index, reg >>
      BY <1>10 DEF Static!CheckRoom, Static!WithoutCache, Static!Go
    <2>2. CASE /\ filePc' = [filePc EXCEPT ![t] = IF op[t] = "get" THEN "send" ELSE "idle"]
               /\ body' = [body EXCEPT ![t] = file[t]] /\ size' = [size EXCEPT ![t] = file[t]]
      BY <1>1, <2>1, <2>2 DEF OwnInv, Static!TypeOK, EntriesInv, CallInv, Static!counters,
         Static!map, Static!request, Static!Labels, Settled, Filling, Whole
    <2>3. CASE /\ loaded_cache_items + 1 < MAX_CACHE_SIZE_IN_MB
               /\ filePc' = [filePc EXCEPT ![t] = "count"] /\ UNCHANGED Static!answer
      BY <1>1, <2>1, <2>3 DEF OwnInv, Static!TypeOK, EntriesInv, CallInv, Static!counters,
         Static!map, Static!request, Static!answer, Static!Labels, Settled, Filling, Whole
    <2> QED
      BY <1>10, <2>2, <2>3 DEF Static!CheckRoom, Static!WithoutCache, Static!Go, OwnInv,
         Static!TypeOK
  <1>11. CASE Static!CountLoad(t)
    BY <1>1, <1>11 DEF OwnInv, Static!TypeOK, EntriesInv, CallInv, Static!CountLoad,
       Static!Go, Static!counters, Static!map, Static!answer, Static!request, Static!Labels,
       Settled, Filling, Whole
  <1>12. CASE Static!CountStore(t)
    <2>1. /\ filePc[t] = "counted" /\ filePc' = [filePc EXCEPT ![t] = "key"]
          /\ loaded_cache_items' = loaded_cache_items + 1
          /\ index' = [index EXCEPT ![t] = loaded_cache_items]
          /\ loaded_cache_items \in Static!Indices
          /\ loaded_cache_items + 1 \in 0 .. MAX_SEPERATE_CACHE_ITEMS + 1
          /\ UNCHANGED << loaded_cache_items_MB, cache, Static!map, Static!request, reg,
                          Static!answer >>
      BY <1>1, <1>12 DEF Static!CountStore, Static!Go, OwnInv, Static!TypeOK, CallInv,
         ArrayHoldsAll, Static!Indices
    <2>2. Static!TypeOK'
      BY <2>1 DEF OwnInv, Static!TypeOK, Static!map, Static!answer, Static!request,
         Static!Labels
    <2>3. EntriesInv(t)'
      <3>1. ASSUME NEW k \in DOMAIN entries
            PROVE  /\ entries[k].payload < loaded_cache_items'
                   /\ Whole(entries[k].payload, entries[k].key)'
        <4>1. Settled(t, k) /\ ~Filling(t, entries[k].payload)
          BY <1>1, <2>1, <3>1 DEF Settled, Filling
        <4>2. /\ entries[k].payload < loaded_cache_items
              /\ Whole(entries[k].payload, entries[k].key)
          BY <4>1, <3>1 DEF OwnInv, EntriesInv
        <4>3. entries[k].payload \in Static!Indices
          BY <3>1, EntryTypes DEF OwnInv
        <4> QED
          BY <2>1, <4>2, <4>3 DEF Static!Indices, Whole, Static!map
      <3>2. \A i \in Static!Indices : i >= loaded_cache_items' => cache'[i].content = NULL
        BY <2>1 DEF OwnInv, EntriesInv, Static!Indices
      <3> QED
        BY <2>1, <3>1, <3>2 DEF EntriesInv, Static!map
    <2>4. CallInv(t)'
      <3>1. \A k \in DOMAIN entries : entries[k].payload < loaded_cache_items
        BY <1>1, <2>1 DEF OwnInv, EntriesInv, Settled
      <3>2. cache[loaded_cache_items].content = NULL
        BY <2>1 DEF OwnInv, EntriesInv, Static!Indices
      <3>3. filePc'[t] = "key" /\ index'[t] = loaded_cache_items /\ file'[t] \in Files
        BY <2>1 DEF OwnInv, Static!TypeOK, CallInv, Static!request
      <3>4. \A k \in DOMAIN entries' : entries'[k].payload # index'[t]
        BY <2>1, <3>1, <3>3, EntryTypes DEF OwnInv, Static!map, Static!Indices
      <3> QED
        BY <2>1, <3>2, <3>3, <3>4 DEF CallInv, Static!Indices
    <2> QED
      BY <1>1, <2>2, <2>3, <2>4 DEF OwnInv
  <1>13. CASE Static!AddKey(t)
    <2>1. /\ filePc[t] = "key" /\ filePc' = [filePc EXCEPT ![t] = "payload"] /\ hm_addLock' = t
          /\ entries' = Append(entries, [key |-> file[t], payload |-> 0]) /\ file[t] \in Files
          /\ UNCHANGED << Static!counters, cache, Static!request, index, reg, Static!answer >>
      BY <1>13 DEF Static!AddKey, Static!Go, OwnInv, CallInv
    <2>2. /\ entries \in Seq([key : Files, payload : Static!Indices])
          /\ [key |-> file[t], payload |-> 0] \in [key : Files, payload : Static!Indices]
      BY <2>1 DEF OwnInv, Static!TypeOK, Static!Indices
    <2>3. /\ entries' \in Seq([key : Files, payload : Static!Indices])
          /\ Len(entries') = Len(entries) + 1 /\ entries' # << >>
          /\ entries'[Len(entries')].key = file[t]
          /\ \A k \in DOMAIN entries' : k # Len(entries') =>
               k \in DOMAIN entries /\ entries'[k] = entries[k]
      BY <2>1, <2>2
    <2>4. Static!TypeOK'
      BY <2>1, <2>3 DEF OwnInv, Static!TypeOK, Static!counters, Static!answer,
         Static!request, Static!Labels
    <2>5. \A k \in DOMAIN entries' : Settled(t, k)' =>
            k \in DOMAIN entries /\ entries'[k] = entries[k] /\ Settled(t, k)
      BY <1>1, <2>1, <2>3 DEF Settled, OwnInv, Static!TypeOK
    <2>6. EntriesInv(t)'
      <3>1. ASSUME NEW k \in DOMAIN entries, Settled(t, k)
            PROVE  /\ entries[k].payload < loaded_cache_items
                   /\ Whole(entries[k].payload, entries[k].key)
        BY <1>1, <2>1, <3>1 DEF OwnInv, EntriesInv, Filling
      <3>2. ASSUME NEW k \in DOMAIN entries', Settled(t, k)'
            PROVE  /\ entries'[k].payload < loaded_cache_items
                   /\ Whole(entries'[k].payload, entries'[k].key)
        BY <2>5, <3>1, <3>2
      <3> QED
        BY <2>1, <3>2 DEF OwnInv, EntriesInv, Static!counters, Whole
    <2>7. CallInv(t)'
      BY <2>1, <2>3, <2>5 DEF OwnInv, Static!TypeOK, CallInv, Static!counters, Static!request
    <2> QED
      BY <1>1, <2>4, <2>6, <2>7 DEF OwnInv
  <1>14. CASE Static!AddKeyFails(t)
    BY <1>1, <1>14 DEF OwnInv, Static!TypeOK, EntriesInv, CallInv, Static!AddKeyFails,
       Static!AfterCreate, Static!Go, Static!counters, Static!map, Static!answer,
       Static!request, Static!Labels, Settled, Filling, Whole
  <1>15. CASE Static!AddPayload(t)
    <2>1. /\ filePc[t] = "payload" /\ filePc' = [filePc EXCEPT ![t] = Static!AfterCreate(t)]
          /\ hm_addLock' = NULL
          /\ entries' = [entries EXCEPT ![Len(entries)].payload = index[t]] /\ file[t] \in Files
          /\ Static!AfterCreate(t) \in {"again", "clear"}
          /\ index[t] \in Static!Indices /\ index[t] < loaded_cache_items
          /\ cache[index[t]].content = NULL
          /\ UNCHANGED << Static!counters, cache, Static!request, index, reg, Static!answer >>
      BY <1>15 DEF Static!AddPayload, Static!AfterCreate, Static!Go, OwnInv, Static!TypeOK,
         CallInv
    <2>2. /\ entries \in Seq([key : Files, payload : Static!Indices])
          /\ entries # << >> /\ entries[Len(entries)].key = file[t]
      BY <2>1 DEF OwnInv, Static!TypeOK, CallInv
    <2>3. /\ entries' \in Seq([key : Files, payload : Static!Indices])
          /\ Len(entries') = Len(entries) /\ DOMAIN entries' = DOMAIN entries
          /\ entries'[Len(entries)].key = file[t] /\ entries'[Len(entries)].payload = index[t]
          /\ \A k \in DOMAIN entries : k # Len(entries) => entries'[k] = entries[k] /\ Settled(t, k)
      <3>1. PICK S : S = [key : Files, payload : Static!Indices]
        OBVIOUS
      <3>2. PICK n \in Nat : n = Len(entries) /\ DOMAIN entries = 1 .. n /\ n \in 1 .. n
        BY <2>2
      <3>3. entries \in [1 .. n -> S] /\ entries' = [entries EXCEPT ![n].payload = index[t]]
        <4>1. entries \in Seq(S)
          BY <2>2, <3>1
        <4>2. entries \in [1 .. n -> S]
          BY <3>2, <4>1
        <4> QED
          BY <2>1, <3>2, <4>2
      <3>4. entries[n] \in [key : Files, payload : Static!Indices]
        BY <3>1, <3>2, <3>3
      <3>5. PICK e : e = [entries[n] EXCEPT !.payload = index[t]]
        OBVIOUS
      <3>6. e \in S /\ e.key = file[t] /\ e.payload = index[t]
        BY <2>1, <2>2, <3>1, <3>2, <3>4, <3>5
      <3>7. entries' = [entries EXCEPT ![n] = e]
        BY <3>3, <3>5
      <3>8. entries' \in [1 .. n -> S] /\ entries'[n] = e
            /\ \A k \in 1 .. n : k # n => entries'[k] = entries[k]
        BY <3>2, <3>3, <3>6, <3>7
      <3>9. entries' \in Seq(S) /\ Len(entries') = n
        BY <3>8
      <3> QED
        BY <3>1, <3>2, <3>6, <3>8, <3>9 DEF Settled
    <2>4. Static!TypeOK'
      BY <2>1, <2>3 DEF OwnInv, Static!TypeOK, Static!counters, Static!answer,
         Static!request, Static!Labels
    <2>5. EntriesInv(t)'
      <3>1. ASSUME NEW k \in DOMAIN entries'
            PROVE  /\ entries'[k].payload < loaded_cache_items
                   /\ Whole(entries'[k].payload, entries'[k].key)
        <4>1. CASE k = Len(entries)
          BY <2>1, <2>3, <4>1 DEF Whole
        <4>2. CASE k # Len(entries)
          <5>1. Settled(t, k) /\ k \in DOMAIN entries /\ ~Filling(t, entries[k].payload)
            BY <1>1, <2>1, <2>3, <3>1, <4>2 DEF Filling
          <5> QED
            BY <2>3, <4>2, <5>1 DEF OwnInv, EntriesInv
        <4> QED
          BY <4>1, <4>2
      <3> QED
        BY <2>1, <3>1 DEF OwnInv, EntriesInv, Static!counters, Whole
    <2>6. CallInv(t)'
      BY <2>1, <2>3 DEF OwnInv, Static!TypeOK, CallInv, Static!counters, Static!request
    <2> QED
      BY <1>1, <2>4, <2>5, <2>6 DEF OwnInv
  <1>16. CASE Static!ClearItem(t)
    BY <1>1, <1>16 DEF OwnInv, Static!TypeOK, EntriesInv, CallInv, Static!ClearItem,
       Static!Go, Static!counters, Static!map, Static!answer, Static!request, Static!Labels,
       Settled, Filling, Whole, Static!Item, Static!Cleared
  <1>17. CASE Static!OpenFile(t)
    BY <1>1, <1>17 DEF OwnInv, Static!TypeOK, EntriesInv, CallInv, Static!OpenFile,
       Static!Go, Static!counters, Static!map, Static!answer, Static!request, Static!Labels,
       Settled, Filling, Whole
  <1>18. CASE Static!OpenFails(t)
    BY <1>1, <1>18 DEF OwnInv, Static!TypeOK, EntriesInv, CallInv, Static!OpenFails,
       Static!WithoutCache, Static!Go, Static!counters, Static!map, Static!answer,
       Static!request, Static!Labels, Settled, Filling, Whole, Static!Indices
  <1>19. CASE Static!ChargeLoad(t)
    BY <1>1, <1>19 DEF OwnInv, Static!TypeOK, EntriesInv, CallInv, Static!ChargeLoad,
       Static!Go, Static!counters, Static!map, Static!answer, Static!request, Static!Labels,
       Settled, Filling, Whole
  <1>20. CASE Static!ChargeStore(t)
    BY <1>1, <1>20 DEF OwnInv, Static!TypeOK, EntriesInv, CallInv, Static!ChargeStore,
       Static!Go, Static!counters, Static!map, Static!answer, Static!request, Static!Labels,
       Settled, Filling, Whole
  <1>21. CASE Static!ReadFails(t)
    BY <1>1, <1>21 DEF OwnInv, Static!TypeOK, EntriesInv, CallInv, Static!ReadFails,
       Static!WithoutCache, Static!Go, Static!counters, Static!map, Static!answer,
       Static!request, Static!Labels, Settled, Filling, Whole, Static!Indices
  <1>22. CASE Static!SetContent(t)
    <2>1. /\ filePc[t] = "content" /\ filePc' = [filePc EXCEPT ![t] = "alloc"]
          /\ cache' = [cache EXCEPT ![index[t]].content = file[t]]
          /\ index[t] \in Static!Indices /\ index[t] < loaded_cache_items /\ file[t] \in Files
          /\ \A k \in DOMAIN entries : entries[k].payload = index[t] => entries[k].key = file[t]
          /\ UNCHANGED << Static!counters, Static!map, Static!request, index, reg,
                          Static!answer >>
      BY <1>22 DEF Static!SetContent, Static!Go, OwnInv, Static!TypeOK, CallInv
    <2>2. /\ cache' \in [Static!Indices -> Static!Item]
          /\ \A i \in Static!Indices \ {index[t]} : cache'[i] = cache[i]
          /\ cache'[index[t]].content = file[t]
          /\ cache'[index[t]].contentSize = cache[index[t]].contentSize
      <3>1. cache \in [Static!Indices -> Static!Item] /\ cache[index[t]] \in Static!Item
        BY <2>1 DEF OwnInv, Static!TypeOK
      <3>2. [cache[index[t]] EXCEPT !.content = file[t]] \in Static!Item
        BY <2>1, <3>1 DEF Static!Item
      <3>3. /\ [cache[index[t]] EXCEPT !.content = file[t]].content = file[t]
            /\ [cache[index[t]] EXCEPT !.content = file[t]].contentSize = cache[index[t]].contentSize
        BY <3>1 DEF Static!Item
      <3> QED
        BY <2>1, <3>1, <3>2, <3>3
    <2>3. Static!TypeOK'
      BY <2>1, <2>2 DEF OwnInv, Static!TypeOK, Static!counters, Static!map, Static!answer,
         Static!request, Static!Labels
    <2>4. EntriesInv(t)'
      <3>1. \A k \in DOMAIN entries : entries[k].payload \in Static!Indices
        BY EntryTypes DEF OwnInv
      <3>2. \A i \in Static!Indices : i >= loaded_cache_items => cache'[i].content = NULL
        BY <2>1, <2>2 DEF OwnInv, EntriesInv, Static!TypeOK, Static!Indices
      <3>3. ASSUME NEW k \in DOMAIN entries, Settled(t, k)'
            PROVE  /\ entries[k].payload < loaded_cache_items
                   /\ Filling(t, entries[k].payload)' \/ Whole(entries[k].payload, entries[k].key)'
        <4>1. /\ Settled(t, k) /\ entries[k].payload < loaded_cache_items
              /\ Filling(t, entries[k].payload) \/ Whole(entries[k].payload, entries[k].key)
          BY <1>1, <2>1, <3>3 DEF Settled, Static!map, OwnInv, EntriesInv
        <4>2. CASE entries[k].payload = index[t]
          BY <1>1, <2>1, <2>2, <4>1, <4>2 DEF OwnInv, Static!TypeOK, CallInv, Filling,
             Whole, Static!map, Settled
        <4>3. CASE entries[k].payload # index[t]
          BY <1>1, <2>1, <2>2, <3>1, <4>1, <4>3 DEF OwnInv, Static!TypeOK, Filling, Whole,
             Static!map
        <4> QED
          BY <4>2, <4>3
      <3> QED
        BY <2>1, <3>2, <3>3 DEF EntriesInv, Static!counters, Static!map
    <2>5. CallInv(t)'
      BY <2>1, <2>2 DEF OwnInv, Static!TypeOK, CallInv, Static!counters, Static!request,
         Static!map
    <2> QED
      BY <1>1, <2>3, <2>4, <2>5 DEF OwnInv
  <1>23. CASE Static!AllocSize(t)
    <2>1. /\ filePc[t] = "alloc" /\ filePc' = [filePc EXCEPT ![t] = "fill"]
          /\ cache' = [cache EXCEPT ![index[t]].contentSize = Garbage]
          /\ index[t] \in Static!Indices /\ index[t] < loaded_cache_items /\ file[t] \in Files
          /\ \A k \in DOMAIN entries : entries[k].payload = index[t] => entries[k].key = file[t]
          /\ UNCHANGED << Static!counters, Static!map, Static!request, index, reg,
                          Static!answer >>
      BY <1>23 DEF Static!AllocSize, Static!Go, OwnInv, Static!TypeOK, CallInv
    <2>2. /\ cache' \in [Static!Indices -> Static!Item]
          /\ \A i \in Static!Indices \ {index[t]} : cache'[i] = cache[i]
          /\ cache'[index[t]].contentSize = Garbage
          /\ cache'[index[t]].content = cache[index[t]].content
      <3>1. cache \in [Static!Indices -> Static!Item] /\ cache[index[t]] \in Static!Item
        BY <2>1 DEF OwnInv, Static!TypeOK
      <3>2. [cache[index[t]] EXCEPT !.contentSize = Garbage] \in Static!Item
        BY <2>1, <3>1 DEF Static!Item
      <3>3. /\ [cache[index[t]] EXCEPT !.contentSize = Garbage].contentSize = Garbage
            /\ [cache[index[t]] EXCEPT !.contentSize = Garbage].content = cache[index[t]].content
        BY <3>1 DEF Static!Item
      <3> QED
        BY <2>1, <3>1, <3>2, <3>3
    <2>3. Static!TypeOK'
      BY <2>1, <2>2 DEF OwnInv, Static!TypeOK, Static!counters, Static!map, Static!answer,
         Static!request, Static!Labels
    <2>4. EntriesInv(t)'
      <3>1. \A k \in DOMAIN entries : entries[k].payload \in Static!Indices
        BY EntryTypes DEF OwnInv
      <3>2. \A i \in Static!Indices : i >= loaded_cache_items => cache'[i].content = NULL
        BY <2>1, <2>2 DEF OwnInv, EntriesInv, Static!TypeOK, Static!Indices
      <3>3. ASSUME NEW k \in DOMAIN entries, Settled(t, k)'
            PROVE  /\ entries[k].payload < loaded_cache_items
                   /\ Filling(t, entries[k].payload)' \/ Whole(entries[k].payload, entries[k].key)'
        <4>1. /\ Settled(t, k) /\ entries[k].payload < loaded_cache_items
              /\ Filling(t, entries[k].payload) \/ Whole(entries[k].payload, entries[k].key)
          BY <1>1, <2>1, <3>3 DEF Settled, Static!map, OwnInv, EntriesInv
        <4>2. CASE entries[k].payload = index[t]
          BY <1>1, <2>1, <2>2, <4>1, <4>2 DEF OwnInv, Static!TypeOK, CallInv, Filling,
             Whole, Static!map, Settled
        <4>3. CASE entries[k].payload # index[t]
          BY <1>1, <2>1, <2>2, <3>1, <4>1, <4>3 DEF OwnInv, Static!TypeOK, Filling, Whole,
             Static!map
        <4> QED
          BY <4>2, <4>3
      <3> QED
        BY <2>1, <3>2, <3>3 DEF EntriesInv, Static!counters, Static!map
    <2>5. CallInv(t)'
      BY <2>1, <2>2 DEF OwnInv, Static!TypeOK, CallInv, Static!counters, Static!request,
         Static!map
    <2> QED
      BY <1>1, <2>3, <2>4, <2>5 DEF OwnInv
  <1>24. CASE Static!FillSize(t)
    <2>1. /\ filePc[t] = "fill"
          /\ filePc' = [filePc EXCEPT ![t] = IF op[t] = "get" THEN "loaded" ELSE "idle"]
          /\ cache' = [cache EXCEPT ![index[t]].contentSize = file[t]]
          /\ index[t] \in Static!Indices /\ index[t] < loaded_cache_items /\ file[t] \in Files
          /\ \A k \in DOMAIN entries : entries[k].payload = index[t] => entries[k].key = file[t]
          /\ UNCHANGED << Static!counters, Static!map, Static!request, index, reg,
                          Static!answer >>
      BY <1>24 DEF Static!FillSize, Static!Go, OwnInv, Static!TypeOK, CallInv
    <2>2. /\ cache' \in [Static!Indices -> Static!Item]
          /\ \A i \in Static!Indices \ {index[t]} : cache'[i] = cache[i]
          /\ cache'[index[t]].contentSize = file[t]
          /\ cache'[index[t]].content = cache[index[t]].content
      <3>1. cache \in [Static!Indices -> Static!Item] /\ cache[index[t]] \in Static!Item
        BY <2>1 DEF OwnInv, Static!TypeOK
      <3>2. [cache[index[t]] EXCEPT !.contentSize = file[t]] \in Static!Item
        BY <2>1, <3>1 DEF Static!Item
      <3>3. /\ [cache[index[t]] EXCEPT !.contentSize = file[t]].contentSize = file[t]
            /\ [cache[index[t]] EXCEPT !.contentSize = file[t]].content = cache[index[t]].content
        BY <3>1 DEF Static!Item
      <3> QED
        BY <2>1, <3>1, <3>2, <3>3
    <2>3. Static!TypeOK'
      BY <2>1, <2>2 DEF OwnInv, Static!TypeOK, Static!counters, Static!map, Static!answer,
         Static!request, Static!Labels
    <2>4. EntriesInv(t)'
      <3>1. \A k \in DOMAIN entries : entries[k].payload \in Static!Indices
        BY EntryTypes DEF OwnInv
      <3>2. \A i \in Static!Indices : i >= loaded_cache_items => cache'[i].content = NULL
        BY <2>1, <2>2 DEF OwnInv, EntriesInv, Static!TypeOK, Static!Indices
      <3>3. ASSUME NEW k \in DOMAIN entries, Settled(t, k)'
            PROVE  /\ entries[k].payload < loaded_cache_items
                   /\ Filling(t, entries[k].payload)' \/ Whole(entries[k].payload, entries[k].key)'
        <4>1. /\ Settled(t, k) /\ entries[k].payload < loaded_cache_items
              /\ Filling(t, entries[k].payload) \/ Whole(entries[k].payload, entries[k].key)
          BY <1>1, <2>1, <3>3 DEF Settled, Static!map, OwnInv, EntriesInv
        <4>2. CASE entries[k].payload = index[t]
          BY <1>1, <2>1, <2>2, <4>1, <4>2, SMTT(20) DEF OwnInv, Static!TypeOK, CallInv, Filling,
             Whole, Static!map, Settled
        <4>3. CASE entries[k].payload # index[t]
          BY <1>1, <2>1, <2>2, <3>1, <4>1, <4>3 DEF OwnInv, Static!TypeOK, Filling, Whole,
             Static!map
        <4> QED
          BY <4>2, <4>3
      <3> QED
        BY <2>1, <3>2, <3>3 DEF EntriesInv, Static!counters, Static!map
    <2>5. CallInv(t)'
      BY <2>1, <2>2 DEF OwnInv, Static!TypeOK, CallInv, Static!counters, Static!request,
         Static!map
    <2> QED
      BY <1>1, <2>3, <2>4, <2>5 DEF OwnInv
  <1>25. CASE Static!ReturnLoaded(t)
    BY <1>1, <1>25 DEF OwnInv, Static!TypeOK, EntriesInv, CallInv, Static!ReturnLoaded,
       Static!Go, Static!counters, Static!map, Static!answer, Static!request, Static!Labels,
       Settled, Filling, Whole
  <1> QED
    BY <1>2, <1>3, <1>4, <1>5, <1>6, <1>7, <1>8, <1>9, <1>10, <1>11, <1>12, <1>13, <1>14, <1>15,
       <1>16, <1>17, <1>18, <1>19, <1>20, <1>21, <1>22, <1>23, <1>24, <1>25 DEF Static!Step

\* A caller that does not fill leaves what the items hold, the way to them and the rules.
LEMMA ReaderKeeps ==
  ASSUME Static!TypeOK, NEW t \in Callers, Static!Step(t),
         ~Static!Fills(t), ~(Static!Fills(t)')
  PROVE  /\ UNCHANGED << entries, loaded_cache_items >>
         /\ \A i \in Static!Indices : /\ cache'[i].content = cache[i].content
                                      /\ cache'[i].contentSize = cache[i].contentSize
                                      /\ cache[i].doNOTCacheRule => cache'[i].doNOTCacheRule
  <1>1. /\ filePc[t] \in {"idle", "find", "read", "size", "send"}
        /\ filePc'[t] \in {"idle", "find", "read", "size", "send"}
    BY DEF Static!Fills
  <1>2. filePc \in [Callers -> Static!Labels] /\ filePc[t] \in Static!Labels
    BY DEF Static!TypeOK
  <1>3. CASE Static!SetRule(t)
    <2>1. cache' = [cache EXCEPT ![index[t]].doNOTCacheRule = TRUE]
          /\ UNCHANGED << entries, loaded_cache_items >>
      BY <1>3 DEF Static!SetRule, Static!counters, Static!map
    <2>2. /\ cache \in [Static!Indices -> Static!Item] /\ index[t] \in Static!Indices
          /\ cache[index[t]] \in Static!Item
      BY DEF Static!TypeOK
    <2>3. \A i \in Static!Indices : cache'[i] = IF i = index[t]
                                THEN [cache[i] EXCEPT !.doNOTCacheRule = TRUE] ELSE cache[i]
      BY <2>1, <2>2
    <2>4. \A c \in Static!Item : /\ [c EXCEPT !.doNOTCacheRule = TRUE].content = c.content
                           /\ [c EXCEPT !.doNOTCacheRule = TRUE].contentSize = c.contentSize
                           /\ [c EXCEPT !.doNOTCacheRule = TRUE].doNOTCacheRule = TRUE
      BY DEF Static!Item
    <2> QED
      BY <2>1, <2>2, <2>3, <2>4
  <1>4. ASSUME NEW o \in {"get", "precache", "rule"}, NEW f \in Files, Static!Call(t, o, f)
        PROVE  UNCHANGED << entries, loaded_cache_items, cache >>
    BY <1>4 DEF Static!Call, Static!counters, Static!map
  <1>5. CASE \/ Static!Send(t) \/ Static!FindHit(t) \/ Static!FindMiss(t)
             \/ Static!FindAgain(t) \/ Static!ReadItem(t) \/ Static!ReadSize(t)
             \/ Static!CheckRoom(t)
    BY <1>5 DEF Static!Send, Static!FindHit, Static!FindMiss, Static!FindAgain,
       Static!ReadItem, Static!ReadSize, Static!CheckRoom, Static!counters, Static!map
  <1>6. CASE \/ Static!CountLoad(t) \/ Static!CountStore(t) \/ Static!AddKey(t)
             \/ Static!AddKeyFails(t) \/ Static!AddPayload(t) \/ Static!ClearItem(t)
             \/ Static!OpenFile(t) \/ Static!OpenFails(t)
    BY <1>1, <1>6 DEF Static!CountLoad, Static!CountStore, Static!AddKey, Static!AddKeyFails,
       Static!AddPayload, Static!ClearItem, Static!OpenFile, Static!OpenFails, Static!Go,
       Static!WithoutCache
  <1>7. CASE \/ Static!ChargeLoad(t) \/ Static!ChargeStore(t) \/ Static!ReadFails(t)
             \/ Static!SetContent(t) \/ Static!AllocSize(t) \/ Static!FillSize(t)
             \/ Static!ReturnLoaded(t)
    BY <1>1, <1>7 DEF Static!ChargeLoad, Static!ChargeStore, Static!ReadFails,
       Static!SetContent, Static!AllocSize, Static!FillSize, Static!ReturnLoaded, Static!Go,
       Static!WithoutCache
  <1> QED
    BY <1>3, <1>4, <1>5, <1>6, <1>7 DEF Static!Step

\* Beside a load a call only begins or ends, and one that begins has met it.
LEMMA BesideFiller ==
  ASSUME Static!TypeOK, Static!Apart, Static!Apart', NEW t \in Callers, Static!Step(t),
         NEW s \in Callers \ {t}, Static!Fills(s)
  PROVE  Static!Send(t)
  <1>1. filePc \in [Callers -> Static!Labels] /\ filePc[t] \in {"idle", "send"}
    BY DEF Static!TypeOK, Static!Apart
  <1>2. filePc'[s] = filePc[s]
    BY OthersRest
  <1>3. filePc'[t] \in {"idle", "send"}
    BY <1>2 DEF Static!Apart, Static!Fills
  <1>4. ASSUME NEW o \in {"get", "precache", "rule"}, NEW f \in Files
        PROVE  ~Static!Call(t, o, f)
    BY <1>1, <1>3 DEF Static!Call, Static!Go
  <1>5. /\ ~Static!FindHit(t) /\ ~Static!FindMiss(t) /\ ~Static!FindAgain(t)
        /\ ~Static!SetRule(t) /\ ~Static!ReadItem(t) /\ ~Static!ReadSize(t)
        /\ ~Static!CheckRoom(t) /\ ~Static!CountLoad(t) /\ ~Static!CountStore(t)
        /\ ~Static!AddKey(t) /\ ~Static!AddKeyFails(t) /\ ~Static!AddPayload(t)
    BY <1>1 DEF Static!FindHit, Static!FindMiss, Static!FindAgain, Static!SetRule,
       Static!ReadItem, Static!ReadSize, Static!CheckRoom, Static!CountLoad,
       Static!CountStore, Static!AddKey, Static!AddKeyFails, Static!AddPayload, Static!Go,
       Static!WithoutCache
  <1>6. /\ ~Static!ClearItem(t) /\ ~Static!OpenFile(t) /\ ~Static!OpenFails(t)
        /\ ~Static!ChargeLoad(t) /\ ~Static!ChargeStore(t) /\ ~Static!ReadFails(t)
        /\ ~Static!SetContent(t) /\ ~Static!AllocSize(t) /\ ~Static!FillSize(t)
        /\ ~Static!ReturnLoaded(t)
    BY <1>1 DEF Static!ClearItem, Static!OpenFile, Static!OpenFails, Static!ChargeLoad,
       Static!ChargeStore, Static!ReadFails, Static!SetContent, Static!AllocSize,
       Static!FillSize, Static!ReturnLoaded, Static!Go, Static!WithoutCache
  <1> QED
    BY <1>4, <1>5, <1>6 DEF Static!Step

LEMMA SerialStep ==
  ASSUME ArrayHoldsAll, SerialInv, NEW t \in Callers, Static!Step(t),
         mixed' = (mixed \/ ~(Static!Apart'))
  PROVE  SerialInv'
  <1> SUFFICES ASSUME ~(mixed') PROVE StaticInv'
    BY DEF SerialInv
  <1>1. StaticInv /\ Static!Apart' /\ mixed' \in BOOLEAN
    BY DEF SerialInv
  <1>2. Static!TypeOK /\ Static!Apart /\ \A s \in Callers : CallInv(s)
    BY <1>1 DEF StaticInv
  <1>3. \A s \in Callers \ {t} : /\ filePc'[s] = filePc[s] /\ index'[s] = index[s]
                                 /\ file'[s] = file[s] /\ reg'[s] = reg[s]
                                 /\ body'[s] = body[s] /\ size'[s] = size[s]
                                 /\ Static!Fills(s)' <=> Static!Fills(s)
    BY <1>2, OthersRest DEF Static!Fills
  <1>4. ASSUME NEW s \in Callers \ {t}, Static!Fills(s) PROVE StaticInv'
    <2>1. Static!Send(t)
      BY <1>1, <1>2, <1>4, BesideFiller
    <2>2. /\ filePc[t] = "send" /\ filePc' = [filePc EXCEPT ![t] = "idle"]
          /\ UNCHANGED << Static!counters, cache, Static!map, Static!request, index, reg,
                          Static!answer >>
      BY <2>1 DEF Static!Send, Static!Go
    <2>3. Static!TypeOK'
      BY <1>1, <1>2, <2>2 DEF Static!TypeOK, Static!counters, Static!map, Static!request,
         Static!answer, Static!Labels
    <2>4. ASSUME NEW u \in Callers PROVE CallInv(u)'
      BY <1>2, <2>2 DEF CallInv, Settled, Whole, Static!counters, Static!map,
         Static!request, Static!answer, Static!TypeOK
    <2>5. ASSUME NEW u \in Callers, \A v \in Callers \ {u} : ~(Static!Fills(v)')
          PROVE  EntriesInv(u)'
      <3>1. u # t /\ \A v \in Callers \ {u} : ~Static!Fills(v)
        BY <1>3, <1>4, <2>2, <2>5 DEF Static!Fills
      <3>2. EntriesInv(u)
        BY <1>1, <3>1 DEF StaticInv
      <3> QED
        BY <1>3, <2>2, <3>1, <3>2 DEF EntriesInv, Settled, Filling, Whole, Static!counters,
           Static!map
    <2> QED
      BY <1>1, <2>3, <2>4, <2>5 DEF StaticInv
  <1>5. CASE \A s \in Callers \ {t} : ~Static!Fills(s)
    <2>1. OwnInv(t)
      BY <1>1, <1>5 DEF OwnInv, StaticInv
    <2>2. Static!TypeOK' /\ EntriesInv(t)' /\ CallInv(t)'
      BY <1>1, <2>1, OwnStep DEF OwnInv
    <2>3. ASSUME NEW s \in Callers \ {t} PROVE CallInv(s)'
      <3>1. CallInv(s) /\ filePc[s] \in Static!Labels /\ index[s] \in Static!Indices
        BY <1>2 DEF Static!TypeOK
      <3>2. CASE filePc[s] \in {"idle", "send"}
        BY <1>3, <3>1, <3>2 DEF CallInv
      <3>3. CASE filePc[s] \notin {"idle", "send"}
        <4>1. ~Static!Fills(t) /\ ~(Static!Fills(t)')
          BY <1>1, <1>2, <1>3, <3>3 DEF Static!Apart
        <4>2. filePc[s] \in {"find", "read", "size"}
          BY <1>5, <3>1, <3>3 DEF Static!Fills
        <4>3. /\ cache'[index[s]].content = cache[index[s]].content
              /\ cache'[index[s]].contentSize = cache[index[s]].contentSize
          BY <1>2, <3>1, <4>1, ReaderKeeps
        <4> QED
          BY <1>3, <3>1, <4>2, <4>3 DEF CallInv, Whole
      <3> QED
        BY <3>2, <3>3
    <2>4. ASSUME NEW s \in Callers \ {t}, \A v \in Callers \ {s} : ~(Static!Fills(v)')
          PROVE  EntriesInv(s)'
      <3>1. filePc'[t] \notin {"payload", "alloc", "fill"}
        BY <2>4 DEF Static!Fills
      <3> QED
        BY <2>2, <3>1 DEF EntriesInv, Settled, Filling
    <2> QED
      BY <1>1, <2>2, <2>3, <2>4 DEF StaticInv
  <1> QED
    BY <1>4, <1>5

LEMMA SerialRests ==
  ASSUME SerialInv, UNCHANGED fileVars
  PROVE  SerialInv'
  BY DEF SerialInv, StaticInv, Static!TypeOK, Static!Apart, Static!Fills, EntriesInv, CallInv,
     fileVars, Static!vars, Static!counters, Static!map, Static!answer, Static!request,
     Settled, Filling, Whole

LEMMA SerialNext == SerialInv /\ ArrayHoldsAll /\ [Static!Next]_fileVars => SerialInv'
  <1> SUFFICES ASSUME SerialInv, ArrayHoldsAll, [Static!Next]_fileVars PROVE SerialInv'
    OBVIOUS
  <1>1. CASE Static!Next
    BY <1>1, SerialStep DEF Static!Next
  <1> QED
    BY <1>1, SerialRests

\* ServedRightFile: whatever loads failed before and in whatever order files are asked for,
\* preloaded and barred, by any number of threads, what cache_GetResource and the disk give
\* SendFile is the file with its own length, until a load meets another call.
THEOREM FilesAreServedRight == ArrayHoldsAll => (Static!Spec => []ServedRightFile)
  <1> SUFFICES ASSUME ArrayHoldsAll PROVE Static!Spec => []ServedRightFile
    OBVIOUS
  <1>1. SerialInv /\ [Static!Next]_fileVars => SerialInv'
    BY SerialNext
  <1>2. SerialInv => ServedRightFile
    BY DEF SerialInv, StaticInv, CallInv, ServedRightFile, Static!ServedRightFile
  <1> QED
    BY InitSerial, <1>1, <1>2, PTL DEF Static!Spec, fileVars

\* A request for a file with a rule finds the item that has the rule, and one that finds
\* no item was for a file without one.
RuleInv(t) ==
  /\ filePc[t] = "find" => ruled[t] \subseteq Static!Ruled
  /\ filePc[t] = "read" /\ op[t] = "get" /\ file[t] \in ruled[t] =>
       cache[index[t]].doNOTCacheRule
  /\ filePc[t] \in {"room", "count", "counted", "key", "payload", "clear", "open", "charge",
                "charged", "content", "alloc", "fill"} /\ op[t] = "get" => file[t] \notin ruled[t]
  /\ filePc[t] \in {"size", "loaded"} => file[t] \notin ruled[t]
  /\ filePc[t] = "again" => op[t] = "rule"

\* A caller's own step; it looks for what it found ruled when it was called, and more.
LEMMA RuleStep ==
  ASSUME Static!TypeOK, NEW t \in Callers, RuleInv(t), Static!Step(t)
  PROVE  RuleInv(t)'
  <1>1. filePc \in [Callers -> Static!Labels] /\ filePc[t] \in Static!Labels
    BY DEF Static!TypeOK
  <1>2. ASSUME NEW o \in {"get", "precache", "rule"}, NEW f \in Files, Static!Call(t, o, f)
        PROVE  RuleInv(t)'
    <2>1. /\ filePc'[t] = IF o = "precache" THEN "room" ELSE "find"
          /\ op'[t] = o /\ ruled'[t] = Static!Ruled /\ UNCHANGED << cache, entries >>
      BY <1>1, <1>2 DEF Static!Call, Static!Go, Static!TypeOK, Static!map
    <2>2. Static!Ruled' = Static!Ruled
      BY <2>1 DEF Static!Ruled, Static!FirstEntry
    <2> QED
      BY <2>1, <2>2 DEF RuleInv
  <1>3. CASE Static!FindHit(t)
    <2>1. /\ filePc[t] = "find" /\ filePc'[t] = "read"
          /\ UNCHANGED << cache, entries, op, file, ruled >>
      BY <1>1, <1>3 DEF Static!FindHit, Static!Go, Static!map, Static!request
    <2>2. PICK i \in DOMAIN entries : Static!FirstEntry(i, file[t])
             /\ index'[t] = entries[i].payload
      BY <1>3 DEF Static!FindHit, Static!TypeOK
    <2>3. ASSUME file[t] \in ruled[t] PROVE cache[entries[i].payload].doNOTCacheRule
      <3>1. PICK j \in DOMAIN entries :
              Static!FirstEntry(j, file[t]) /\ cache[entries[j].payload].doNOTCacheRule
        BY <2>1, <2>3 DEF RuleInv, Static!Ruled
      <3>2. i \in Nat \ {0} /\ j \in Nat \ {0}
        BY DEF Static!TypeOK
      <3>3. i = j
        BY <2>2, <3>1, <3>2 DEF Static!FirstEntry
      <3> QED
        BY <3>1, <3>3
    <2> QED
      BY <2>1, <2>2, <2>3 DEF RuleInv
  <1>4. CASE Static!FindMiss(t)
    <2>1. /\ filePc[t] = "find" /\ filePc'[t] = "room"
          /\ UNCHANGED << cache, entries, op, file, ruled >>
          /\ \A i \in DOMAIN entries : entries[i].key # file[t]
      BY <1>1, <1>4 DEF Static!FindMiss, Static!Go, Static!map, Static!request
    <2> QED
      BY <2>1 DEF RuleInv, Static!Ruled, Static!FirstEntry
  <1>5. CASE Static!Send(t) \/ Static!FindAgain(t) \/ Static!SetRule(t)
    <2>1. /\ filePc'[t] = "idle" \/ (filePc[t] = "again" /\ filePc'[t] = "read")
          /\ UNCHANGED << op, file, ruled >>
      BY <1>1, <1>5 DEF Static!Send, Static!FindAgain, Static!SetRule, Static!Go, Static!request
    <2> QED
      BY <2>1 DEF RuleInv
  <1>6. CASE Static!ReadItem(t)
    <2>1. /\ filePc[t] = "read" /\ op[t] = "get" /\ UNCHANGED << op, file, ruled >>
          /\ filePc'[t] = "send" \/ (filePc'[t] = "size" /\ ~cache[index[t]].doNOTCacheRule)
      BY <1>1, <1>6 DEF Static!ReadItem, Static!WithoutCache, Static!Go, Static!request
    <2> QED
      BY <2>1 DEF RuleInv
  <1>7. CASE \/ Static!ReadSize(t) \/ Static!CheckRoom(t) \/ Static!CountLoad(t)
             \/ Static!CountStore(t) \/ Static!AddKey(t) \/ Static!AddKeyFails(t)
             \/ Static!AddPayload(t) \/ Static!ClearItem(t) \/ Static!OpenFile(t)
             \/ Static!OpenFails(t) \/ Static!ChargeLoad(t) \/ Static!ChargeStore(t)
             \/ Static!ReadFails(t) \/ Static!SetContent(t) \/ Static!AllocSize(t)
             \/ Static!FillSize(t) \/ Static!ReturnLoaded(t)
    <2>1. UNCHANGED << op, file, ruled >>
      BY <1>7 DEF Static!ReadSize, Static!CheckRoom, Static!CountLoad, Static!CountStore,
         Static!AddKey, Static!AddKeyFails, Static!AddPayload, Static!ClearItem,
         Static!OpenFile, Static!OpenFails, Static!ChargeLoad, Static!ChargeStore,
         Static!ReadFails, Static!SetContent, Static!AllocSize, Static!FillSize,
         Static!ReturnLoaded, Static!request
    <2>2. \/ filePc'[t] \in {"idle", "send"}
          \/ filePc'[t] = "again" /\ op[t] = "rule"
          \/ /\ filePc[t] \in {"room", "count", "counted", "key", "payload", "clear", "open",
                           "charge", "charged", "content", "alloc", "fill"}
             /\ filePc'[t] \in {"count", "counted", "key", "payload", "clear", "open", "charge",
                            "charged", "content", "alloc", "fill"}
                \/ (filePc'[t] = "loaded" /\ op[t] = "get")
      <3>1. CASE \/ Static!ReadSize(t) \/ Static!CheckRoom(t) \/ Static!CountLoad(t)
                 \/ Static!CountStore(t) \/ Static!AddKey(t) \/ Static!AddKeyFails(t)
                 \/ Static!AddPayload(t)
        BY <1>1, <3>1 DEF Static!ReadSize, Static!CheckRoom, Static!CountLoad,
           Static!CountStore, Static!AddKey, Static!AddKeyFails, Static!AddPayload,
           Static!AfterCreate, Static!WithoutCache, Static!Go
      <3>2. CASE \/ Static!ClearItem(t) \/ Static!OpenFile(t) \/ Static!OpenFails(t)
                 \/ Static!ChargeLoad(t) \/ Static!ChargeStore(t) \/ Static!ReadFails(t)
        BY <1>1, <3>2 DEF Static!ClearItem, Static!OpenFile, Static!OpenFails,
           Static!ChargeLoad, Static!ChargeStore, Static!ReadFails, Static!WithoutCache,
           Static!Go
      <3>3. CASE \/ Static!SetContent(t) \/ Static!AllocSize(t) \/ Static!FillSize(t)
                 \/ Static!ReturnLoaded(t)
        BY <1>1, <3>3 DEF Static!SetContent, Static!AllocSize, Static!FillSize,
           Static!ReturnLoaded, Static!Go
      <3> QED
        BY <1>7, <3>1, <3>2, <3>3
    <2> QED
      BY <2>1, <2>2 DEF RuleInv
  <1> QED
    BY <1>2, <1>3, <1>4, <1>5, <1>6, <1>7 DEF Static!Step

\* Another's step, as long as no load meets a call.
LEMMA RuleBeside ==
  ASSUME Static!TypeOK, Static!Apart, Static!Apart', NEW u \in Callers, Static!Step(u),
         NEW t \in Callers \ {u}, RuleInv(t)
  PROVE  RuleInv(t)'
  <1>1. /\ filePc'[t] = filePc[t] /\ index'[t] = index[t] /\ file'[t] = file[t]
        /\ op'[t] = op[t] /\ ruled'[t] = ruled[t] /\ index[t] \in Static!Indices
    BY OthersRest DEF Static!TypeOK
  <1>2. CASE filePc[t] \in {"idle", "send"}
    BY <1>1, <1>2 DEF RuleInv
  <1>3. CASE filePc[t] \notin {"idle", "send"} /\ Static!Fills(t)
    <2>1. Static!Send(u)
      BY <1>3, BesideFiller
    <2>2. UNCHANGED << cache, entries >>
      BY <2>1 DEF Static!Send, Static!map
    <2>3. UNCHANGED Static!Ruled
      BY <2>2 DEF Static!Ruled, Static!FirstEntry
    <2> QED
      BY <1>1, <2>2, <2>3 DEF RuleInv
  <1>4. CASE filePc[t] \notin {"idle", "send"} /\ ~Static!Fills(t)
    <2>1. ~Static!Fills(u) /\ ~(Static!Fills(u)')
      BY <1>1, <1>4 DEF Static!Apart
    <2>2. /\ UNCHANGED entries
          /\ \A i \in Static!Indices : cache[i].doNOTCacheRule => cache'[i].doNOTCacheRule
      BY <2>1, ReaderKeeps
    <2>3. \A i \in DOMAIN entries : entries[i].payload \in Static!Indices
      BY EntryTypes
    <2>4. Static!Ruled \subseteq Static!Ruled'
      BY <2>2, <2>3 DEF Static!Ruled, Static!FirstEntry
    <2>5. filePc[t] \in {"find", "read", "size"}
      BY <1>4 DEF Static!Fills
    <2> QED
      BY <1>1, <2>2, <2>4, <2>5 DEF RuleInv
  <1> QED
    BY <1>2, <1>3, <1>4

\* RuleRespected: a file that AmmServer_DoNOTCacheResource has barred is not sent from the
\* cache, although AmmServer_PreCacheFile makes a second entry for it, until a load meets
\* another call.
THEOREM RulesAreRespected == ArrayHoldsAll => (Static!Spec => []RuleRespected)
  <1> SUFFICES ASSUME ArrayHoldsAll PROVE Static!Spec => []RuleRespected
    OBVIOUS
  <1> DEFINE Inv == SerialInv /\ (mixed \/ \A t \in Callers : RuleInv(t))
  <1>1. Static!Init => Inv
    BY InitSerial DEF Static!Init, RuleInv
  <1>2. Inv /\ [Static!Next]_fileVars => Inv'
    <2> SUFFICES ASSUME Inv, [Static!Next]_fileVars PROVE Inv'
      OBVIOUS
    <2>1. SerialInv'
      BY SerialNext
    <2>2. CASE UNCHANGED fileVars
      BY <2>1, <2>2 DEF fileVars, Static!vars, Static!counters, Static!map,
         Static!request, RuleInv, Static!Ruled, Static!FirstEntry
    <2>3. ASSUME NEW t \in Callers, Static!Step(t), mixed' = (mixed \/ ~(Static!Apart'))
          PROVE  Inv'
      <3>1. CASE mixed'
        BY <2>1, <3>1
      <3>2. CASE ~(mixed')
        <4>1. /\ Static!TypeOK /\ Static!Apart /\ Static!Apart'
              /\ \A u \in Callers : RuleInv(u)
          BY <2>3, <3>2 DEF SerialInv, StaticInv
        <4>2. \A u \in Callers \ {t} : RuleInv(u)'
          BY <2>3, <4>1, RuleBeside
        <4>3. RuleInv(t)'
          BY <2>3, <4>1, RuleStep
        <4> QED
          BY <2>1, <4>2, <4>3
      <3> QED
        BY <3>1, <3>2
    <2> QED
      BY <2>2, <2>3 DEF Static!Next
  <1>3. Inv => RuleRespected
    BY DEF RuleInv, RuleRespected, Static!RuleRespected
  <1> QED
    BY <1>1, <1>2, <1>3, PTL DEF Static!Spec, fileVars

-----------------------------------------------------------------------------
(* Both *)

\* A behaviour of MC_Cache is one of the dynamic resource and one of the static files, one of
\* which does nothing, so that what is proved of each holds there.
LEMMA BothBehave == MCSpec => Spec /\ Static!Spec
  <1>1. MCInit => Init /\ Static!Init
    BY DEF MCInit
  <1>2. [MCNext]_<< view, vars, staticVars >> => [Next]_vars /\ [Static!Next]_fileVars
    <2> SUFFICES ASSUME [MCNext]_<< view, vars, staticVars >>
                 PROVE  [Next]_vars /\ [Static!Next]_fileVars
      OBVIOUS
    <2>1. UNCHANGED staticVars => UNCHANGED fileVars
      BY DEF staticVars, fileVars, Static!vars, Static!counters, Static!map, Static!request,
         Static!answer
    <2> QED
      BY <2>1 DEF MCNext
  <1> QED
    BY <1>1, <1>2, PTL DEF MCSpec, Spec, Static!Spec, fileVars
=============================================================================
