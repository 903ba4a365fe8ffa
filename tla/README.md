# AmmarServer in TLA+

AmmarServer is a C library (`src/src/AmmServerlib`) that turns a program into an
HTTP server. The application's thread starts an *instance*; the instance accepts
connections on threads of its own, gives each connection to a worker thread or
to an event loop, and answers from a cache of static files or from callbacks of
the application. Around the library the repository has programs built on it: a
job bridge for Python (ASVIO) and a set of services. Most of the state is shared
between threads, some of it under locks and some of it not, and the services
keep theirs in files as well. These modules describe that state and the steps
that change it, TLC checks small instances of them, and TLAPS proves the most
important properties for every instance.

## The system: inventory

The server library:

| Component | State it keeps | Operations | Meets | What makes it correct |
|---|---|---|---|---|
| Accept layer (`threads/threadedServer.c`) | listening socket, `accept_epoll_fd`, one `PendingAccept` per idle connection | accept, register, first byte, dispatch | fast path, both pools | no event points to freed memory; each connection has one owner |
| Fast path (`threads/epollFastPathServer.c`) | iteration counter, one `FastPathPendingWrite` per deferred answer | peek, answer, defer, resume | accept layer, file cache, pools | answers in order and once |
| Prespawned threads (`threads/prespawnedThreads.c`) | slot (mutex, condition variable, `busy`, job), `prespawn_turn_to_serve` | fill, signal, take, free | dispatchers, stop | a job reaches one worker; no lost wake-up |
| Fresh threads (`threads/freshThreads.c`) | `threads_pool`, `CLIENT_THREADS_STARTED`, `CLIENT_THREADS_STOPPED`, no lock | search, create, serve, clear, count | dispatchers | an entry belongs to one worker; every socket is closed |
| Keep-alive loop (`threads/clientServer.c`) | one connection, its requests | receive, answer, keep or close | fast path before it | a complete request is answered or the connection ends |
| Request framing (`network/recvHTTPHeader.c`, `header_analysis/`) | growing buffer, the lines walked over, body length, chunks | receive, parse, refuse, 100 Continue | keep-alive loop | a request means the same however it is cut; nobody waits for the other |
| File sending (`network/file_server.c`, `network/sendHTTPHeader.c`) | size, range, what is left to send | condition, range, cached or streamed body, 304, HEAD | keep-alive loop, file cache | the range asked for; header and body agree on a connection that is kept |
| API transport, epoll (`threads/apiProtocol.c`, `epollAPIServer.c`) | partial request, deferred response, shared scratch buffer | read, frame, serve, defer, resume | accept layer, API handler | answers in order and once; what is received is not forgotten |
| API transport, io_uring (`threads/uringAPIServer.c`) | table of connections, pools of receive buffers and send tickets, queues linked through the table, where the accept is | submit, complete, serve, batch, defer, notify, move the accept | kernel, API handler | no client gets another's answer; pools and queues survive the reuse of a slot; some ring accepts |
| Life cycle (`main.c`, `threads/threadedServer.c`) | `server_running`, `stop_server`, the context on the caller's stack, the kill switch | start, bind, listen, stop, signals | all threads | start comes back; nothing is freed under a thread |
| Dynamic content (`cache/dynamic_requests.c`) | request context, shared buffer, `content_mutex`, `last_callback` | choose buffer, rate limit, callback, reply, remove | file server, application callbacks | callbacks serialised; the rate limit; buffers owned and alive |
| Session store (`cache/session_list.c`, `UserAccounts/userAccountsWeb.c`) | token table under `tableLock`, entries under their own locks | resolve, create, evict, expire, access, login, logout | callbacks of all workers | bounded; a lost session stays lost; a login gets a new token |
| File cache (`cache/file_caching.c`, `Hashmap/hashmap.c`) | item array, item and memory counters, hashmap with an add lock | look up, create, load, rule | file server, application | the right bytes with the right length; within the limits |

The programs built on it:

| Component | State it keeps | Operations | What makes it correct |
|---|---|---|---|
| ASVIO (`ASVIO/bridge/asvio.c`, `ASVIO/python/asvio/`) | job table and queue under one lock, two condition variables | run, poll, cancel, dispatch, publish, forget | a job's input is alive while it is copied; nobody sleeps through news |
| SuperMarket (`Services/SuperMarket/state.c`) | one list in a file under `flock`, photos beside it, a revision | add, change, clear, poll the revision, photos | no change is lost; a phone that is told it is current is |
| HabChan (`Services/HabChan/`) | threads and posts in memory and in directories | new thread, reply, delete, prune, load at start | what was confirmed survives a restart; what was removed stays removed |
| Availability (`Services/Availability/`) | polls and rows in memory and in directories | create, vote, close, finalize, load at start | confirmed votes survive a restart |
| Social (`Services/Social/`) | posts, follows, notifications: three tables, three mutexes, three files, uploads | post, comment, like, follow, delete, show, mark | no deadlock; a post that was saved has its upload |
| ShareTex (`Services/ShareTex/`) | a file, its version; in each browser a text, a version and the requests under way | load, save, poll, scan | what was typed is not lost; an overwritten text is told as a conflict |

`PROJECT.json` lists the remaining components (parsers, tools, templates,
libraries) with the reason why each has no module.

What is hard here, and so what the properties are about: counters and array
entries that several threads change without a lock; addresses and decisions
taken before a lock and used after it; memory that belongs to an event or a
thread which outlives it; slots that are reused while the kernel still works for
their previous owner; early returns that skip the clean-up; a connection that
changes hands several times; a `recv` that may end anywhere; limits (threads,
slots, sessions, tickets, tries) that are reached; and files that are emptied,
written and loaded by a server that may die in between. The hazards in
`PROJECT.json` give the line for each.

## Modules

| Module | Models | One step is |
|---|---|---|
| `FreshThreads` | the pool of fresh threads and its users | one access to the array or a counter |
| `PreSpawnedPool` | the pool of prespawned threads | one critical section, or one load or store of the turn |
| `Connection` | one connection from accept to close | one hand-over, one send or one recv |
| `HTTPExchange` | what a client may rely on (abstract) | a request, an answer, an end |
| `ServerLifecycle` | start, stop, signals | one phase of a thread between two shared accesses; setting the flag of the handshake and reading it back are two |
| `DynamicContent` | one dynamic resource | one critical section, the callback's start and end, the sending |
| `SessionList` | the sessions of all clients | one critical section under `tableLock` or an entry's lock |
| `FileCache` | the static file cache and its hashmap | one access to a shared field |
| `RequestReceive` | one request at a worker | one recv, with all that is parsed after it |
| `FileServe` | the answer with one file | one system call: stat, open, read, send |
| `APIProtocol` | how both API transports cut bytes into requests | (operators only) |
| `EpollAPI` | one API connection on the epoll thread | what happens between two recv or send calls |
| `UringAPI` | the connections of one ring | one completion with its whole handler, one act of the kernel or a client |
| `UringAccept` | the accept of several rings | one completion, one act of the kernel |
| `AsvioJobs` | ASVIO's jobs | one critical section of the bridge, one act of a Python thread |
| `SharedCart` | SuperMarket's list | one file operation |
| `BoardThreads` | a board of HabChan | one change of memory, one file operation |
| `AvailabilityPolls` | Availability's polls | one change of memory, one file operation |
| `SocialStores` | Social's three tables | one step under a lock, one file operation |
| `TexEditor` | ShareTex's editor | one step of a callback or of a browser |

`MC_X` instantiates `X` for TLC (`MC_Uring`: `UringAPI`); `MC_Cache`
(`DynamicContent` and `FileCache`), `MC_Threads` (`PreSpawnedPool` and
`ServerLifecycle`), `MC_Requests` (`RequestReceive`, `FileServe`,
`EpollAPI` and `UringAccept`) and `MC_Services` (the six services' modules)
instantiate several modules that share no state, and a behaviour of theirs is one
of the module its variable `view` names from the initial state on. That makes one
run of several small questions and loses nothing, since no step of one could
enable or disable a step of another. `X_proofs` holds the theorems of `X`, or
of the modules of `MC_X` where that instantiates several (`Cache`, `Requests`,
`Services`, `Threads`);
`Uring_proofs` holds those of `UringAPI`, and `UringInvariant` the inductive invariants
they rest on.

Variables and actions keep the code's names where there are some; `PROJECT.json`
maps each definition to its lines. Components that interact are composed where
the interaction is what may go wrong: accept layer, fast path, deferred write,
dispatch and worker in `Connection`; application, server thread, pools and epoll
layer in `ServerLifecycle`; ring, kernel, handler and clients in `UringAPI`;
bridge, dispatcher, workers and clients in `AsvioJobs`; editor and server in
`TexEditor`. The abstract `HTTPExchange` is implemented by `Connection` and by
`EpollAPI` (both checked and proved). Where a component stands behind another
one it is refined separately: the `Dispatch` step of `Connection` is what
`PreSpawnedPool` and `FreshThreads` do, its `RecvRequest` is `RequestReceive`, and
its answer is `FileServe`, whose cache is `FileCache`.

How the data is abstracted:

- a thread id is the connection it serves, and an unsigned increment is a load
  and a store modulo `UINT`;
- in `Connection` a request is its target, whether it carries a header the fast
  path declines, its version and its `Connection` header; it arrives in two
  parts, so that a reader can find half of one. In `RequestReceive` it is a
  sequence of units (one of text per line, CR, LF, units of a body), and recv may
  end after any of them. In the API modules a unit knows its request and its
  place in it. An answer is the number of the request it is for;
- bytes of a file are their offsets, so a body is the sequence of offsets sent;
- a page is its generation and kind (page, path of a file, nothing), a buffer is
  an address that is allocated or not;
- a session token names its entry, since 256 random bits are not drawn twice;
- a file's bytes and size are stood for by its name. Between the allocation and
  the filling of `contentSize` the value is `Garbage`;
- what visitors send is the number of their request. A file that is rewritten is
  empty first, and a server that dies is started again from what the files hold.

Where the code would use memory that has been freed, the models end the
description of that thread there, and a property says whether that can happen.

Definitions whose comment starts with "Mutant:" are deliberate errors: for each
property of a passing run one of them replaces the definition it stands before,
and TLC must then find the property violated.

## Runs

| Run | Configuration | Checks | Shows |
|---|---|---|---|
| `fresh_threads` | 3 clients, 2 entries, 2 passes, 1 dispatcher, all faults | `SlotIsMine`, `EveryClientIsClosed` | entries stay with their worker; sockets are closed |
| `threads` | the pool: 3 clients, 2 slots (one without a thread), 2 dispatchers, stop at any time; an instance: 2 tries to bind, 2 prespawned and 2 fresh threads, signals, privileged port | `HandedOverOnce`, `ServesItsSlot`, `NoLostWakeup`, `HandedOverIsServed`, `ContextOutlivesCopy`, `StartComesBack` | jobs are neither lost nor shared and wake-ups are not lost; the start handshake in every order |
| `prespawned_two_dispatchers` | the pool alone | `IndexInPool` | violated: finding |
| `connection` | 3 requests of 5 kinds, fast path limit 2, waiting and pipelining clients | `NoEventOnFreedMemory`, `ExchangeSpec`, `AnsweredOrClosed` | the hand-overs implement `HTTPExchange` |
| `lifecycle_stop_running` | an instance alone, stopped while it runs | `InstanceOutlivesThreads` | violated: finding |
| `shared_page` | 3 clients of a shared page, limit of 2 ms, 5 ms of time, removal | `OneCallback`, `RateLimit`, `RequestEnds` | the lock and the rate limit over all exits |
| `cache` | 2 clients of a page each, 3 buffers, reallocating callbacks, removal; 3 static files, one of them large, 4 MB, 2 items, 2 callers of 2 calls each that interleave until a load meets another call, every failure | `LiveBuffer`, `PrivatePages`, `ServedRightFile` | ownership of buffers from malloc to free; neither readers that interleave nor what failed loads leave behind do harm |
| `session_table` | 3 tokens, table of 2, 2 threads | `LoginGetsFreshSession` | the store at its limit |
| `uring` | 3 clients, 2 slots, 1 buffer, 1 ticket, batches of 1 | `AnswersInOrder`, `QueuesIntact`, `NoRequestForgotten`, `NothingLeaks` | reuse of slots, buffers and tickets while work of the previous owner is under way |
| `requests` | requests of every framing cut anywhere; files of 0 to 5 bytes read 2 at a time, changed once; API connections of 3 requests of 6 kinds; 1 and 2 rings that accept | `AnsweredAsSent`, `NobodyWaits`, `RangeAsAsked`, `KeptInStep`, `ExchangeSpec`, `AnsweredOrClosed`, `OneRingAccepts` | a request means the same in pieces; what a kept connection carries is what was promised; the API connection implements `HTTPExchange`; one ring goes on accepting |
| `services` | ASVIO: 2 jobs, table of 2, 1 worker; two phones, three board threads on pages with room for two posts, three ballots for two rows, two members in two tabs, two browsers with a text too large for an answer | `InputOutlivesCopy`, `NobodyOversleeps`, `ShownIsCurrent`, `NoChangeLost`, `ReceivedIsShown`, `RemovedStaysRemoved`, `BallotsKept`, `SomebodyGoesOn`, `UploadsAreThere`, `TypedIsKept`, `OverwriteIsTold` | what was received, saved or removed stays so, also after a crash |
| `tex_local_copy` | the two browsers alone | `LocalCopyIsKept` | violated: finding |

Bounds. Each is chosen so that the limit it belongs to is reached: more clients
than entries and slots; more tokens than the table holds; a third request after
the fast path's limit of two; more files than fit in the memory limit; a clock
that passes `callback_every_x_msec` twice. On the ring two connections compete
for one buffer and one ticket, the third client meets a slot whose predecessor's
work is still under way, and tags wrap at 4 so that a wrong comparison shows. A
file of 5 bytes read 2 at a time has ranges within a block, over several and past
the end. In `requests` the header buffer holds the longest header by one line, so
that a POST grows it several times and a longer request fills it. The services'
tables (items, threads, posts, polls, rows, notifications) hold two or three and
one more is sent. HabChan, Social and Availability may die once or twice between
any two steps; a second crash matters only to Availability, whose loading moves
rows to other places. `PageFits = 2` cuts a thread of three posts and a list of two
threads, three voters and `MAX_RESPONSES = 2` fill a poll, one file of a response may
fail to open (`MaxFailures`), the two photos share a second (`PhotosASecond`; for
others the theorem holds as well), and the second text of ShareTex is `TooLarge`. Only
one voter leaves an address (`Mailers`), and one poll or page load is made by the two
browsers (`MaxFetches`), which keeps the run short; the theorems hold for any number.
Two threads suffice for the interleavings that matter, as every shared access is
between two; `shared_page` has three because a third can wait for the lock while the
second holds it. HabChan and Availability are checked for one worker at a time: with
two, their callbacks race without a lock, which is listed under the departures below.
In `cache` a load that meets another call ends the behaviour (`PastMeetings` lifts
that bound in `Cache_two.cfg`). Deadlock is not checked, since every instance
has a bounded number of clients, requests or crashes and stops when they are
used up; that Social's locks do not deadlock is the invariant `SomebodyGoesOn`.

Fairness. The kernel schedules every thread: weak fairness for each thread or
pool. A served client ends because `SO_RCVTIMEO` and `SO_SNDTIMEO` are set on its
socket (a timeout is a step of `Connection`). In `PreSpawnedPool` the 200 ms
timeout of the wait is *not* fair: `HandedOverIsServed` holds by the signal
alone. In `Connection` only what the server does by itself is fair (`ServerAlone`). A
deferred answer is resumed when the client has read, and `epoll_wait` has no timeout
for it, so that this step is the client's and not fair. In `DynamicContent` the
application's callback is assumed to return, and threads that are idle owe nothing. In
`EpollAPI` the epoll thread is weakly fair, and a deferred write waits for its client
there as well. Clients are never fair. The
ring, the receive loop and the services are checked for safety only, except
that `JobComesToAnEnd` of `AsvioJobs` holds under `FairSpec` of `MC_Services`
(59,240 states, by hand with `Views = {"asvio"}`).

Liveness properties state their exceptions. `EveryClientIsClosed` excepts the
worker whose `setSocketTimeouts` failed, `AnsweredOrClosed` besides a connection
whose deferred answer the client never reads, `HandedOverIsServed` a stopping server
and a slot whose thread could not be created: there the code does leave the
connection open. `AnsweredAsSent` excepts three cuts at which the code fails, all
listed below.

## Proofs

TLAPS checks these for all values of the constants:

| Theorem | States | Under | Inductive invariant, and why it is needed |
|---|---|---|---|
| `PoolTypeCorrect` | `TypeOK`, `CreateInRange` | any dispatchers | `TypeOK` with `CreateInRange`: the index that a search leaves behind is in range when the id is stored |
| `SlotOwnership` | `SlotIsMine` | `OneDispatcher` | `Ownership`: besides `SlotIsMine`, the entry a dispatcher is about to use is empty (`EntryFree`). Without it the dispatcher's store could overwrite an id |
| `PreSpawnedTypeCorrect` | `TypeOK` | any dispatchers that race for the turn | `TypeOK` alone: the turn, and what is read of it, may be one past the pool, while a slot that was filled is one of it (`DispatcherState`) |
| `PreSpawnedHandsOverOnce`, `PreSpawnedServesItsSlot`, `PreSpawnedLosesNoWakeup` | the pool's invariants of `threads` | any dispatchers that race for the turn | `HandOver`: workers are in step with their slots (`WorkerInStep`), full slots hold different connections (`SlotsHold`), and what a dispatcher still carries is in no slot (`DispatchersCarry`). Each of the three properties needs the other parts at the step that fills a slot |
| `OneDispatcherStaysInPool` | `IndexInPool` | one dispatcher | `TurnInStep`: the turn is one past the pool only while the dispatcher is between storing and reducing it. The finding below needs the second one |
| `ConnectionTypeCorrect`, `ConnectionHandsOver`, `NoEventOnFreedMemoryHolds` | `TypeOK`; `HandOver`; `NoEventOnFreedMemory` | all | `HandOver`: an event in hand belongs to whoever owns the connection (`EventsOwned`), what is answered, deferred, peeked and unread follow one another without a gap (`InOrder`), a request is with one party at a time (`OneAtATime`), and the fast path's count bounds what it took (`FastPathCounts`). That no event points to freed memory needs to know who armed the descriptor last, which only the owner's place in the code tells |
| `ConnectionImplementsExchange` | `ExchangeSpec` | all | the same: initial states map to initial states, and every step of the accept layer, the fast path, the deferred write and the worker is a request, an answer, an end, or a stutter of `HTTPExchange` |
| `LifecycleTypeCorrect` | `TypeOK` | all | `TypeOK` alone |
| `ContextIsCopied` | `ContextOutlivesCopy` | all | `ParentWaits`: until the server thread has copied the context and set the flag, its parent is in the handshake. Reading the flag back comes after that, and is among the departures below |
| `DeadServerIsSeen` | `DeadServerIsNotRunning` | all | `LeavingIsTold`: every way out of the loops clears `server_running` first |
| `PatientApplicationIsSafe` | `InstanceOutlivesThreads` | `Patient`: no stop while `AmmServer_Running`, no signals | `NeverStopped`: without them the server's loops are left only by a server that never listened, which has started no thread. So the finding below needs one of the two |
| `CallbacksSerialised` | `OneCallback` | all | `MutexInv`: a thread in the critical section is the one `content_mutex` names, so two cannot be there |
| `RateLimitHolds` | `RateLimit` | `ClockFits` | `LastIsFresh`: `last_callback` is the time of the last fresh page as long as it is not truncated |
| `PrivatePagesOwned` | `LiveBuffer`, `PrivatePages` | `~SamePage` | `PrivateInv`: addresses are in range, and (`Owned`) every request's buffer is allocated from malloc to free, and is different from everyone else's and from the resource's own |
| `BuffersAreLive` | `LiveBuffer` | private pages, or `~Reallocs` and `~Removes` | `PrivateInv` for private pages; for a shared one `SharedInv`: the resource keeps the address that it was made with, so the one that a request read before it took the lock is still allocated. The hypothesis is what the counterexample below needs |
| `FilesAreServedRight` | `ServedRightFile` | `ArrayHoldsAll` | `mixed`, or `StaticInv`: no call fills an item while another one is between its look-up and its answer (`Apart`, in the model); items past `loaded_cache_items` are empty, and an entry whose payload was written names an item below it that is empty or holds the whole of the entry's file (`EntriesInv`); the place of each call in the code says what its item holds (`CallInv`). That a failed load does no harm needs the first two: its item stays empty, and no later file gets it. That readers interleave with one another does none, as they change nothing but rules |
| `RulesAreRespected` | `RuleRespected` | `ArrayHoldsAll` | the same with `RuleInv`: a file that has a rule has its rule at its first entry, which is the one that a look-up finds |
| `SessionStoreBounded` | `SessionsBounded` | all | `Bounded`: the bound, and that the table holds tokens only, so that it is finite. The argument is the critical section that makes a session: it evicts from a full table first |
| `LoginIsFresh` | `LoginGetsFreshSession` | all | `FreshInv`: a thread between `create` and the writing of the user name has a token that was not given out to an anonymous client (`LoginOwnsToken`) |
| `LostStaysLost` | `NeverRevived` | all | `TableMoves` of every step: a token is added to the table only when it is drawn, so none of those drawn before comes back |
| `OnlyOldestGoes` | `OnlyOldestLost` | all | `TableMoves` and `Bounded`: a call that takes an expired entry out of the table leaves it with room, so that it does not evict another one as well |
| `APIImplementsExchange` | `ExchangeSpec` for `EpollAPI` | any sizes and scripts | `APIInv`: the units that the thread has and those in the socket follow one another without a gap from the first request that is not answered on (`InLine`), so that what is framed is the next request; a response under way is that to the next request, and after a refusal nothing is framed |
| `RangesAreAsAsked` | `RangeAsAsked` | any sizes, `Width > MaxSize` | `FileInv`: the slice is what `ResolveByteRange` made of the size that `stat` gave, with its four kinds of range resolved by arithmetic on the numbers |
| `KeptConnectionsAreInStep` | `KeptInStep` | the same | `FileInv` with `Transferring`: what has gone out is the beginning of the slice, and what is left, an unsigned number that wraps at the end of a range longer than a block (`Leftover`), tells whether all of it has |
| `OneRingGoesOnAccepting` | `OneRingAccepts` | any rings, slots and reserve, one ring at least | `AcceptInv`, by counting what is on its way: a mark is worth one accept, which is submitted, armed, or in the completion that ended it (`Marked`); a slot that the kernel has given out belongs to a connection, to a completion that brings it or to a close (`GivenOut`); with one ring no cancel is ever submitted, and it is stalled when it is not armed, with no slot left that a close on its way does not give back (`OneRing`) |
| `RingNothingLeaks`, `RingQueuesIntact`, `RingForgetsNone` | `NothingLeaks`, `QueuesIntact`, `NoRequestForgotten` | any finite table, any pools, clients, kinds of answers and batches | `RingInv`: the thread's state is `Fine`, that is, the queues are whole, the requests are cared for and the buffers counted (`Tidy`), and every ticket that is taken is one that a send was submitted for or one of a completed send in the queue, no ticket in both (`Accounted`); and every completed send in the queue has a ticket of its own. See below |
| `RingAnswersInOrder` | `AnswersInOrder` | the same, and `ClientsFit`: what a client asks for on one connection is at most `API_MAX_REQUEST_SIZE` together | `RingInv` with `OrderInv` (`Ordered`): for every slot what is in hand, completed and still in the socket is one line of requests that starts with the one to be answered next (`InLine`, `Served`), at most one answer to it is being made, on a ticket, in a token or in the batch (`Owned`, `InBatch`), and whatever else bears the slot's number is of a generation before (`Past`). See below |
| `LocksAreHeld` | `LocksInv` | all | `LocksInv` of `SocialStores`: whoever a mutex names is at a place in the code where it has it (`Holds`), also after a restart |
| `NoDeadlock` | `SomebodyGoesOn` | all | the same: whoever has `notificationsLock` or `followsLock` awaits nothing, and whoever has `postsLock` awaits one of those at most, so that the locks are ordered |
| `UploadsStay` | `UploadsAreThere` | all, also after crashes | `UploadsInv`: no two posts have the same upload (`PostList`), a post on its way has its number to itself (`OwnNumber`), and an upload that is going to be removed has left the posts, and before it goes the file (`Doomed`) |
| `QueueIsAChain` | `\E q \in Seq(Jobs) : IsQueue(q)` of `AsvioJobs` | all | itself, with lemmas on following `next` through the records and on `removeFromQueue`: the queue is a chain of different jobs that are queued |
| `InputStays` | `InputOutlivesCopy` | all | `JobsInv`: a job is known to Python only when it has left the queue, to one part of Python at a time, and has its input while it is queued or taken (`HandedOver`). Cancelling one from the middle of the queue needs that the queue is a chain |
| `WaitersAreWoken` | `NobodyOversleeps` | all | `JobsInv`: whoever changes what a sleeper waits for signals it in the same critical section |
| `PhonesLoseNothing`, `PhonesShowTheList` | `NoChangeLost`, `ShownIsCurrent` | `"-" \notin Titles` | `CartInv`: the list is that of whoever holds `flock`, else the file (`CartLocked`); its revision and the changes that are still to be made add up to those that were asked for (`AllCounted`); a phone or a writer with the list's revision has the list (`ListKnown`) |
| `TypedStays` | `TypedIsKept` | any browsers, edits, texts and requests under way | `TexTypes` and `TypedInv` of `TexInv`: an edit is the last one of one browser, which has it in its textarea as long as it is dirty, and has sent it when it is not; a page that is being loaded belongs to a browser that shows no editor |
| `OverwritesAreTold` | `OverwriteIsTold` | the same | `TexInv` with `unsure \/ Known`: whoever has the file's version has had the text that the file has, in the page, in a save and in a poll that are under way (`Good`), unless a save has written the text and not yet counted; and one save is in its callback at most. The property itself ends where that does: when two saves meet, a version is taken without its text, or versions are set back |

A handler of the ring makes many calls before it is done, and between two of them
none of the properties holds: a ticket has been acquired and no send is
submitted yet, a completion has been taken off the queue and its ticket or its buffer
not given back, a request is in hand and nobody has it. `Fine(u, A, P, F, b)` therefore
says them of a state `u` up to these: the tickets `A` of responses that are being made,
those `P` of completed sends, the slots `F` whose request is being looked after, and `b`
buffers with the kernel. There is a lemma for each function of `uringAPIServer.c` that
says how it moves the four, and one for each kind of completion that starts and ends
with those of `RingInv`. `RearmOneWaiting`, `TakeNextWaitingForTicket` and `FlushBatch`
are loops; they are recursive functions on numbers, for which `Recursion` is proved from
the least number principle, with a set for each number that holds what the loop may
have reached by then. The queues are stated by a bijection from `1 .. n` to the slots
that are marked as waiting, which is what a slot keeps when it is closed and reused.

`AnswersInOrder` needs to know where every request is. What the ring thread cannot see
of a client is a record (`Worlds`): the number of the answer that comes next (`turn`),
whether the last one has gone out (`over`), whether the ring has heard of the client
(`live`), and what it has sent that no handler has read, in completions and in the
socket (`rest`). `Line(u, s, w, D)` relates slot `s` of a state `u` to its record `w`
while the sends of the tickets `D` are completed and not handled. A step of the thread
changes `u` and leaves the records of all slots alone, except that a receive moves bytes
from `rest` into the connection; a step of the kernel or of a client changes one record.
So there is one lemma for each function that keeps `Lined` through it, also in the
middle of a batch whose n-th entry is next, and one for each step of the kernel and of
the clients. Closing a slot starts a new generation, for which everything that is still
under way is `Past`. A generation of `TagWidth` or more is told apart from no other by
the tag of a receive; such a connection never gets any bytes, as `HandleRecvCompletion`
compares the whole generation with the 24 bits of the tag, so it owes nothing either and
the theorem needs no bound on the number of connections.

`ClientsFit` is the hypothesis that the counterexample below calls for: a connection
that holds a request which is too large, behind one whose answer is deferred or batched,
refuses the former before it has answered the latter. The clients of the model send all
that they ask for at once, so the hypothesis is about the whole of a client's requests;
it holds of those of `Uring.cfg`.

Assumptions are the `ASSUME`s of the modules: sizes are positive numbers, the
pool is smaller than the range of the counters, special values are not members of
the sets they are special to.

What the properties say of themselves. `ServedRightFile` and `RuleRespected` are about
every behaviour up to the moment when a load meets another call (`mixed`), whatever the
number of callers before, and `OverwriteIsTold` is about every behaviour up to the
moments named above (`unsure`). Behind those moments the code breaks them: that is
`ServedRightAlways`, `NoSilentOverwrite` and `LocalCopyIsKept`, below.

About two of the hypotheses. `ArrayHoldsAll` says that `MAX_CACHE_SIZE_IN_MB` is at
most `MAX_SEPERATE_CACHE_ITEMS + 2`: the code compares `loaded_cache_items` with the
former and never with the array's length, so that with other sizes an item past the
array's end would be taken; with the sizes the server comes with (128 and 1024) it
holds. `"-" \notin Titles` is there because `serializeCartStream` writes "-" for an
item without a title.

Only model-checked:

- liveness under fairness (`EveryClientIsClosed`, `HandedOverIsServed`,
  `StartComesBack`, `RequestEnds`, `AnsweredOrClosed`), which is beyond the prover;
- `AnsweredAsSent` and `NobodyWaits` of `RequestReceive`: the parser walks over the
  buffer by recursion, and that it means the same for a buffer that is cut at any
  place is an induction over the data;
- `ReceivedIsShown` and `RemovedStaysRemoved` of `BoardThreads` and `BallotsKept` of
  `AvailabilityPolls`: a restart loads what is on the disk by a fold over a directory,
  whose result for every directory is an induction as well;
- `MemoryWithinLimit` of `FileCache`, a sum over the items.

`RingInv` and `OrderInv` of `UringInvariant` hold of the 1.4 million states of `Uring.cfg`
as well; listing them there makes the run three times as long.

Type invariants are proved for the modules with a proof module that state one. No
run lists `TypeOK`, as TLC would meet a wrong type as an error of evaluation or as
a violation of the other properties; those of the modules that have one hold in
the runs of these modules. The same is true of `SessionsBounded`, `OnlyOldestLost`,
`NeverRevived` and `RuleRespected` (proved), and of `NeverUndercounts`, `MemoryWithinLimit`,
`OneReceive`, `NotModifiedIsSame`, `OneFinalAnswer` and `UnlockedIsSaved`, which
may be put into the configuration of their run.

## Findings, and known departures

Three runs end in a counterexample against what the repository says of itself
(`findings` in `PROJECT.json` quotes the lines):

- `prespawned_two_dispatchers`: `UsePreSpawnedThreadToServeNewClient` "must only get
  called from the main process/thread", and is called by the epoll layer's thread, and
  by the accept loop when a registration fails. One reads the turn between the other's
  store of `N` and its modulo, and locks `prespawned_pool[N]`;
- `lifecycle_stop_running`: `AmmServer_Stop` of a server that runs frees the instance
  under its threads;
- `tex_local_copy`: "client keeps its local copy" of a file that is too large to be sent
  back, and does not: its textarea is emptied, and its next save passes for one that knows
  the current text.

The other counterexamples are kept as configurations to run by hand (`tlc -config
X_y.cfg MC_X`, or `X` where there is no `MC_X`), or as properties of the modules with the change of a run's
configuration that shows them, so that the set of runs stays small. All have been
reproduced. Where the code has a comment that says otherwise, the comment of the
property quotes it (`NeverDeaf`, `TicketComesBack`, `BufferComesBack`,
`NumberedAfterDisk`, `ContextOutlivesReader`); the others are what the code does without any word on it.

| Configuration | Property | What the code does |
|---|---|---|
| `FreshThreads_two.cfg` | `SlotIsMine` | with a second dispatcher two workers share an entry |
| `FreshThreads_lost.cfg` | `RefusalMeansFull` | a lost `++CLIENT_THREADS_STOPPED` refuses clients for ever |
| `FreshThreads_tls.cfg` | `ReturnedThreadsFreeTheirSlot` | a failed TLS handshake keeps its entry |
| `Threads_signal.cfg` | `ContextOutlivesReader` | the server thread sets the flag that lets its parent return, and then reads it back from the parent's stack (`threadInitHelper.h:84-85`, `threadedServer.c:91-92`); nothing depends on what it reads |
| `DynamicContent_torn.cfg` | `NotReadWhileWritten` | a shared page is sent while the next one is written over it |
| `SessionList_freed.cfg` | `EntryOutlivesUse` | a session's entry is freed between look-up and use |
| `Cache_two.cfg` | `ServedRightAlways` | a cached file is found before it is complete |
| `Requests.cfg` with `RingCounts = {2}` | `NeverDeaf` | the accept moves to a ring and back while its cancel is under way: no ring accepts (`uringAPIServer.c:1256`) |
| `Requests_chunks.cfg` | `ChunksInAnyPieces` | when recv ends just before a chunk's size line, no digit is found and the request is refused (`chunked_transfer.c:55`) |

`Connection_any.cfg` with the property `DeferredWriteEnds` alone violates it, as a client that never
reads keeps its connection and the memory of the answer (`epollFastPathServer.c:432`).

`Connection_any.cfg` with `Kinds <- PlainKinds`, `SockoptFails = FALSE` and
`SPECIFICATION Spec`:

| Property | What the code does |
|---|---|
| `AnswersMatch` | a worker drops what it received behind a request |
| `FastPathServesPipelined` (`NReq = 2`) | a second `Host` in the peeked bytes declines the first request |
| `KeepAliveIsOptIn` (`NReq = 2`) | HTTP/1.1 connections are kept without being asked for |

`Threads.cfg` with `MCSpec`, `Views = {"life"}`, `Signals = FALSE` and `StopAnytime = FALSE`:

| Property | What the code does |
|---|---|
| `BoundBeforeRootDropped` (`PrivilegedPort = TRUE`) | root is dropped before the port is bound |
| `GaveUpUnbound` (`PrivilegedPort = FALSE`) | a bind that succeeds last is taken for a failure |

`DynamicContent_same.cfg` with two threads and `Spec`, or ("private") `Cache.cfg` with
`Views = {"dynamic"}`:

| Property and change | What the code does |
|---|---|
| `NotModifiedIsCurrent` (`MaxRequests = 3`, `Results = {"page"}`, `OutOfMemory = FALSE`) | a 304 for a page the client does not have |
| `RateLimit` (also `Width = 4`, `MaxClock = 7`) | past the range of `last_callback` there is no limit |
| `NoLeak` (private; `Every = 0`, `MaxClock = 1`, `MaxRequests = 2`, `Results = {"page", "nothing"}`, nothing reallocated or removed) | an empty private page is not freed |
| `LiveBuffer` (private, with `SamePage = TRUE`, two buffers, `Every = 0`, `MaxClock = 1`, `MaxRequests = 2`, `Results = {"page"}`, `Removes` and `OutOfMemory` FALSE) | a reallocated shared buffer is used at its old address; `BuffersAreLive` proves that it needs that, or a removal |
| `CannedIsAPage` (private, with `SamePage = TRUE`, one buffer, `Width = 8`, `MaxClock = 4`, `Results = {"path"}`) | a file's path is sent as the canned page |

`SessionList_table.cfg` with one token, `MAX_SESSIONS = 1`,
`SESSION_IDLE_TIMEOUT_SECONDS = 2`, `MaxTime = 1`, `MaxCalls = 2`:
`CsrfTokenStays` is violated, as two tabs get two CSRF tokens, one of them
invalid.

`Uring.cfg`:

| Property | What the code does |
|---|---|
| `TicketComesBack` | a ticket given back by a failed send wakes no connection that waits for one (`uringAPIServer.c:1377`) |
| `BufferComesBack` | a connection whose receive ended with `ENOBUFS` after the last buffer was recycled is not armed again (`uringAPIServer.c:1301`) |
| `AnswersInOrder` with `API_MAX_REQUEST_SIZE = 2`, one slot, two tickets, `Scripts <- OneClient`, no `SYMMETRY` | the refusal of a request that is too large is sent while an earlier answer is deferred or batched |

`Requests.cfg`:

| Property | What the code does |
|---|---|
| `NothingBeyond` | a range longer than a block is sent to the end of its last block (`file_server.c:125`) |
| `KeptInStepSlow` | a client too slow for `SO_SNDTIMEO` gets part of a body, and the connection is kept (`file_server.c:154`, `:775`) |

`Services.cfg`:

| Property and change | What the code does |
|---|---|
| `ShownIsCurrent` with `Titles = {"", "t", "-"}` | SuperMarket: a title that is written "-" reads as none |
| `ListSurvives` under `CrashSpec` | SuperMarket: a crash between `ftruncate` and the write loses the list |
| `PhotoHasItem` | SuperMarket: a photo that comes after its item was deleted stays |
| `ReceivedIsAlwaysShown` | HabChan: pages are cut at `MAXcontentSize`, 46095 bytes of it, and with them the later posts of a thread, the later threads of a list, and the links behind it (`thread.c:406`, `thread.c:323`) |
| the same with `PageFits = 9`, `Elsewhere = {1}` | HabChan: one table has the threads of all boards by their number, so a board's thread hides that of another (`thread.c:357`) |
| `RemovedIsErased` | HabChan: the text and the thumbnail of a deleted reply stay on the disk |
| `NumberedAfterDisk` | HabChan: a crash in `createThread` leaves a directory whose number is then never free, and no thread can be started |
| `EmailBelongs` | Availability: after a crash an e-mail address stands beside another row |
| `SavedIsKept` | Availability: a row one of whose files did not open is not loaded, the rows behind it move up, and the next new row is written to the files of the last (`state.c:283`, `state.c:295`) |
| `ThanksAreEarned` | Availability: a vote for a closed, missing or full poll, or one that was not saved, is thanked for (`poll.c:254`) |
| `OwnerKeepsPoll`, `RoomForAPoll` | Availability: a poll whose `poll.ini` was emptied by a crash has no owner and no options, and keeps its place |
| `SeenWasShown` | Social: a notification that arrives while the page is made is marked as seen (`notifications.c:260`) |
| `DeletedAsShown` with `Views = {"social"}`, `MaxDeeds = 5`, no crash, one member, `MAX_POSTS = 1` | Social: a comment is deleted by its place, which another deletion has moved |
| `NoOrphanUpload` | Social: an upload stays when its post is dropped from a full wall, or by a crash (`posts.c:199`) |
| `NoSilentOverwrite` | ShareTex: an overwritten text is not told when two saves meet in the callback, when the overwriter had the version without the text, or when the files were scanned and versions started anew |
| `EditorsAgree` | ShareTex: a poll and a save that cross, or a save that was not written, leave a browser with a text and another text's version |
| `JobAlwaysEnds` under `FairSpec`, `Views = {"asvio"}` | ASVIO: a function that calls `sys.exit` ends its thread and leaves its job taken |

Met while modelling and visible in the models, without a property of its own:

- `RequestReceive`, the exceptions of `AnsweredAsSent`: when recv ends between CR
  and LF of a header line the next line is not recognised
  (`generic_header_tools.c:472`); when the last header line's CR has been
  overwritten and recv ends before the empty line, the end of the header is never
  seen (`generic_header_tools.c:379`). A header without POST that fills the
  buffer makes recv ask for 0 bytes, and the request is refused;
- a worker that is stopped while it receives serves what it has of the request
  (`recvHTTPHeader.c:127`);
- a ring's slot that has had 2^24 clients receives nothing any more: the tag of a
  receive has 24 bits of the generation and is compared with all of it
  (`uringAPIServer.c:1281`), so the bytes are dropped and the receive is not armed again;
- an icon that is embedded in the server is sent with its body for `HEAD`, and a
  file's `ETag` is made of its name, not of what is in it (`file_server.c`);
- ShareTex: a save that was not written is answered with version 0, and the browser says
  "Saved" (`editor.c:260`, `editor.js:69`);
- SuperMarket: of two photos within a second a phone shows the one it has, as the URL
  has the time in whole seconds (`json.c:45`);
- HabChan: two replies at a time take the same index, and an empty `status.ini`
  after a crash brings a deleted thread back without its password.

## Not modelled

TLS and compression (off in the default build), the text of headers and pages,
the parsers of headers, forms, cookies and configuration files beyond what they
decide about framing, ranges and conditions; logs; growth, sorting and collisions
of the hashmap; directory lists; user accounts; Social's chat; the services that
keep no state between requests or drive hardware; several instances in one
process (so that what two of them do to the static scratch buffer of `epollAPIServer.c:76`
is not covered).

The share of the repository that the map covers stays small, and cannot honestly
become large. By far the most lines are not the server's: image codecs
(`BasicImaging/codecs`), libraries for micro-controllers in several copies
(`Services/AmmBus`, `DS3231.cpp`), `xwd`, camera and video examples, deprecated
versions of the services, generated string scanners and embedded pages. They are
sequential conversions of data or other people's programs, with nothing in them
that an interleaving, a crash or a limit could make wrong. Of the server library
what is left out is text processing, with the exceptions named above.

## Plan

1. Social's chat and the user accounts database, whose file is rewritten under a
   lock of its own.
2. The hashmap's growth and sorting under its add lock, composed with `FileCache`.
3. Two instances that share the API transport's scratch buffer.
