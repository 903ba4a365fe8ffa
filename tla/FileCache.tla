------------------------------- MODULE FileCache -------------------------------
(***************************************************************************)
(* The cache of static files (cache/file_caching.c) and the hashmap that   *)
(* indexes it (Hashmap/hashmap.c), as the serving threads and the          *)
(* application use them: requests for files, AmmServer_PreCacheFile and    *)
(* AmmServer_DoNOTCacheResource.                                           *)
(*                                                                         *)
(* Only hashMap_Add takes a lock; everything else is read and written by   *)
(* all threads at will, so each access to a shared field that another      *)
(* thread may see half done is a step of its own.  A file's bytes and its  *)
(* size are stood for by its name, and its size is counted in megabytes.   *)
(* Distinct names have distinct hashes, and the map, created with room for *)
(* MAX_SEPERATE_CACHE_ITEMS, does not grow.  Dynamic pages, which are      *)
(* cache items too, are in DynamicContent; compression is not compiled in. *)
(***************************************************************************)
EXTENDS Naturals, Sequences, FiniteSetsExt

CONSTANTS
  Threads,
  Files,
  SizeOf(_),                 \* of a file on disk, in MB
  NULL,
  Garbage,                   \* what malloc leaves in new memory
  MAX_CACHE_SIZE_IN_MB,
  MAX_CACHE_SIZE_FOR_EACH_FILE_IN_MB,
  MAX_SEPERATE_CACHE_ITEMS,
  MaxCalls                   \* bound: requests and calls of each thread

VARIABLES
  loaded_cache_items,
  loaded_cache_items_MB,   \* loaded_cache_items_Kbytes
  cache,                   \* the array of cache items
  entries,                 \* of cacheHashMap
  hm_addLock,              \* the thread that holds it
  pc,
  op,                      \* what each thread is doing
  file,                    \* for which file
  index,
  reg,                     \* a counter's value, read and not yet written back
  body, size,              \* what the thread is about to send
  calls,
  ruled,                   \* history: files whose rule was set before this call
  mixed                    \* history: a call was filling the cache beside another one

counters == << loaded_cache_items, loaded_cache_items_MB >>
map      == << entries, hm_addLock >>
request  == << op, file, calls, ruled >>
answer   == << body, size >>
vars     == << counters, cache, map, pc, request, index, reg, answer, mixed >>

Indices == 0 .. MAX_SEPERATE_CACHE_ITEMS
Item    == [ content : Files \cup {NULL},
             contentSize : Files \cup {NULL, Garbage},
             doNOTCacheRule : BOOLEAN ]

Labels == { "idle", "find", "read", "size", "room", "count", "counted", "key",
            "payload", "again", "clear", "open", "charge", "charged", "content",
            "alloc", "fill", "loaded", "send" }

TypeOK ==
  /\ loaded_cache_items \in 0 .. MAX_SEPERATE_CACHE_ITEMS + 1
  /\ loaded_cache_items_MB \in Nat
  /\ cache \in [Indices -> Item]
  /\ entries \in Seq([key : Files, payload : Indices])
  /\ hm_addLock \in Threads \cup {NULL}
  /\ pc \in [Threads -> Labels]
  /\ op \in [Threads -> {"get", "precache", "rule"}]
  /\ file \in [Threads -> Files \cup {NULL}]
  /\ index \in [Threads -> Indices]
  /\ reg \in [Threads -> Nat]
  /\ body \in [Threads -> Files \cup {NULL}]
  /\ size \in [Threads -> Files \cup {NULL, Garbage}]
  /\ calls \in [Threads -> 0 .. MaxCalls]
  /\ ruled \in [Threads -> SUBSET Files]
  /\ mixed \in BOOLEAN

Cleared == [content |-> NULL, contentSize |-> NULL, doNOTCacheRule |-> FALSE]

Init ==
  /\ loaded_cache_items = 0
  /\ loaded_cache_items_MB = 0
  /\ cache = [i \in Indices |-> Cleared]
  /\ entries = << >>
  /\ hm_addLock = NULL
  /\ pc = [t \in Threads |-> "idle"]
  /\ op = [t \in Threads |-> "get"]
  /\ file = [t \in Threads |-> NULL]
  /\ index = [t \in Threads |-> 0]
  /\ reg = [t \in Threads |-> 0]
  /\ body = [t \in Threads |-> NULL]
  /\ size = [t \in Threads |-> NULL]
  /\ calls = [t \in Threads |-> 0]
  /\ ruled = [t \in Threads |-> {}]
  /\ mixed = FALSE

Go(t, from, to) == pc[t] = from /\ pc' = [pc EXCEPT ![t] = to]

\* cache_GetResource returns 0 and SendFile streams the file from disk; the
\* application's calls just fail.
WithoutCache(t, from) ==
  /\ Go(t, from, IF op[t] = "get" THEN "send" ELSE "idle")
  /\ body' = [body EXCEPT ![t] = file[t]]
  /\ size' = [size EXCEPT ![t] = file[t]]

-----------------------------------------------------------------------------
(* Calls *)

\* The entry that a search for a name finds.
FirstEntry(i, f) ==
  /\ entries[i].key = f
  /\ \A j \in 1 .. i - 1 : entries[j].key # f

\* The files that a search would find a rule on now.
Ruled ==
  { f \in Files : \E i \in DOMAIN entries :
      FirstEntry(i, f) /\ cache[entries[i].payload].doNOTCacheRule }

\* SendFile, AmmServer_DoNOTCacheResource, and AmmServer_PreCacheFile, which
\* adds the file without looking for it.
Call(t, o, f) ==
  /\ Go(t, "idle", IF o = "precache" THEN "room" ELSE "find")
  /\ calls[t] < MaxCalls
  /\ calls' = [calls EXCEPT ![t] = @ + 1]
  /\ op' = [op EXCEPT ![t] = o]
  /\ file' = [file EXCEPT ![t] = f]
  /\ ruled' = [ruled EXCEPT ![t] = Ruled]
  /\ UNCHANGED << counters, cache, map, index, reg, answer >>

\* The answer is sent.
Send(t) ==
  /\ Go(t, "send", "idle")
  /\ UNCHANGED << counters, cache, map, request, index, reg, answer >>

-----------------------------------------------------------------------------
(* cache_GetResource; no lock is taken *)

FindHit(t) ==
  /\ Go(t, "find", "read")
  /\ \E i \in DOMAIN entries :
       /\ FirstEntry(i, file[t])
       /\ index' = [index EXCEPT ![t] = entries[i].payload]
  /\ UNCHANGED << counters, cache, map, request, reg, answer >>

\* SendFile has checked already that the path is inside the web root.
FindMiss(t) ==
  /\ Go(t, "find", "room")
  /\ \A i \in DOMAIN entries : entries[i].key # file[t]
  /\ UNCHANGED << counters, cache, map, request, index, reg, answer >>

\* cache_AddDoNOTCacheRuleForResource looks again for what it has created.
FindAgain(t) ==
  \/ /\ Go(t, "again", "read")
     /\ \E i \in DOMAIN entries :
          /\ FirstEntry(i, file[t])
          /\ index' = [index EXCEPT ![t] = entries[i].payload]
     /\ UNCHANGED << counters, cache, map, request, reg, answer >>
  \/ /\ Go(t, "again", "idle")
     /\ \A i \in DOMAIN entries : entries[i].key # file[t]
     /\ UNCHANGED << counters, cache, map, request, index, reg, answer >>

\* The application found the item and marks it.
SetRule(t) ==
  /\ op[t] = "rule"
  /\ Go(t, "read", "idle")
  /\ cache' = [cache EXCEPT ![index[t]].doNOTCacheRule = TRUE]
  /\ UNCHANGED << counters, map, request, index, reg, answer >>

\* cache_memory is the item's content; neither an item with a rule nor one
\* without content is served.
ReadItem(t) ==
  LET item == cache[index[t]] IN
  /\ op[t] = "get"
  /\ \/ /\ item.doNOTCacheRule \/ item.content = NULL
        /\ WithoutCache(t, "read")
     \/ /\ ~item.doNOTCacheRule
        /\ item.content # NULL
        /\ Go(t, "read", "size")
        /\ body' = [body EXCEPT ![t] = item.content]
        /\ UNCHANGED size
  /\ UNCHANGED << counters, cache, map, request, index, reg >>

\* *filesize = *contentSize
ReadSize(t) ==
  /\ Go(t, "size", "send")
  /\ size' = [size EXCEPT ![t] = cache[index[t]].contentSize]
  /\ UNCHANGED << counters, cache, map, request, index, reg, body >>

-----------------------------------------------------------------------------
(* cache_CreateResource *)

\* The number of items is compared with the limit in megabytes.
CheckRoom(t) ==
  /\ \/ /\ MAX_CACHE_SIZE_IN_MB <= loaded_cache_items + 1
        /\ WithoutCache(t, "room")
     \/ /\ MAX_CACHE_SIZE_IN_MB > loaded_cache_items + 1
        /\ Go(t, "room", "count")
        /\ UNCHANGED answer
  /\ UNCHANGED << counters, cache, map, request, index, reg >>

\* *index=loaded_cache_items++, the load ...
CountLoad(t) ==
  /\ Go(t, "count", "counted")
  /\ reg' = [reg EXCEPT ![t] = loaded_cache_items]
  /\ UNCHANGED << counters, cache, map, request, index, answer >>

\* Mutant: the next item gets the same index.
CountStoreForgets(t) ==
  /\ Go(t, "counted", "key")
  /\ index' = [index EXCEPT ![t] = reg[t]]
  /\ UNCHANGED << counters, cache, map, request, reg, answer >>

\* ... and the store.
CountStore(t) ==
  /\ Go(t, "counted", "key")
  /\ loaded_cache_items' = reg[t] + 1
  /\ index' = [index EXCEPT ![t] = reg[t]]
  /\ UNCHANGED << loaded_cache_items_MB, cache, map, request, reg, answer >>

AfterCreate(t) == IF op[t] = "rule" THEN "again" ELSE "clear"

\* hashMap_Add: the entry is counted and its key written; the payload is still
\* 0, and searches can see it ...
AddKey(t) ==
  /\ Go(t, "key", "payload")
  /\ hm_addLock = NULL
  /\ hm_addLock' = t
  /\ entries' = Append(entries, [key |-> file[t], payload |-> 0])
  /\ UNCHANGED << counters, cache, request, index, reg, answer >>

\* ... there is no memory for the key, which cache_CreateResource ignores ...
AddKeyFails(t) ==
  /\ Go(t, "key", AfterCreate(t))
  /\ hm_addLock = NULL
  /\ UNCHANGED << counters, cache, map, request, index, reg, answer >>

\* ... and the payload is written.
AddPayload(t) ==
  /\ Go(t, "payload", AfterCreate(t))
  /\ entries' = [entries EXCEPT ![Len(entries)].payload = index[t]]
  /\ hm_addLock' = NULL
  /\ UNCHANGED << counters, cache, request, index, reg, answer >>

-----------------------------------------------------------------------------
(* cache_AddFile and cache_LoadResourceFromDisk *)

\* memset
ClearItem(t) ==
  /\ Go(t, "clear", "open")
  /\ cache' = [cache EXCEPT ![index[t]] = Cleared]
  /\ UNCHANGED << counters, map, request, index, reg, answer >>

\* instance_WeCanCommitMoreMemory
MayCommit(f) ==
  /\ SizeOf(f) <= MAX_CACHE_SIZE_FOR_EACH_FILE_IN_MB
  /\ loaded_cache_items_MB + SizeOf(f) <= MAX_CACHE_SIZE_IN_MB

\* The file is opened and its size found to be acceptable.
OpenFile(t) ==
  /\ Go(t, "open", "charge")
  /\ MayCommit(file[t])
  /\ UNCHANGED << counters, cache, map, request, index, reg, answer >>

\* It cannot be opened, is too large, or there is no memory.  The index that
\* was created stays: cache_DestroyResource does nothing.
OpenFails(t) ==
  /\ WithoutCache(t, "open")
  /\ index' = [index EXCEPT ![t] = 0]
  /\ UNCHANGED << counters, cache, map, request, reg >>

\* instance_CountNewMallocOP, the load ...
ChargeLoad(t) ==
  /\ Go(t, "charge", "charged")
  /\ reg' = [reg EXCEPT ![t] = loaded_cache_items_MB]
  /\ UNCHANGED << counters, cache, map, request, index, answer >>

\* ... and the store; then the file is read ...
ChargeStore(t) ==
  /\ Go(t, "charged", "content")
  /\ loaded_cache_items_MB' = reg[t] + SizeOf(file[t])
  /\ UNCHANGED << loaded_cache_items, cache, map, request, index, reg, answer >>

\* ... and fread returns less: the memory is freed and remains counted.
ReadFails(t) ==
  /\ WithoutCache(t, "content")
  /\ index' = [index EXCEPT ![t] = 0]
  /\ UNCHANGED << counters, cache, map, request, reg >>

\* content = buffer
SetContent(t) ==
  /\ Go(t, "content", "alloc")
  /\ cache' = [cache EXCEPT ![index[t]].content = file[t]]
  /\ UNCHANGED << counters, map, request, index, reg, answer >>

\* contentSize = malloc(...)
AllocSize(t) ==
  /\ Go(t, "alloc", "fill")
  /\ cache' = [cache EXCEPT ![index[t]].contentSize = Garbage]
  /\ UNCHANGED << counters, map, request, index, reg, answer >>

\* *contentSize = lSize
FillSize(t) ==
  /\ Go(t, "fill", IF op[t] = "get" THEN "loaded" ELSE "idle")
  /\ cache' = [cache EXCEPT ![index[t]].contentSize = file[t]]
  /\ UNCHANGED << counters, map, request, index, reg, answer >>

\* cache_GetResource returns what it has just loaded.
ReturnLoaded(t) ==
  /\ Go(t, "loaded", "send")
  /\ body' = [body EXCEPT ![t] = cache[index[t]].content]
  /\ size' = [size EXCEPT ![t] = cache[index[t]].contentSize]
  /\ UNCHANGED << counters, cache, map, request, index, reg >>

-----------------------------------------------------------------------------
Step(t) ==
  \/ \E o \in {"get", "precache", "rule"}, f \in Files : Call(t, o, f)
  \/ Send(t)
  \/ FindHit(t) \/ FindMiss(t) \/ FindAgain(t)
  \/ SetRule(t) \/ ReadItem(t) \/ ReadSize(t)
  \/ CheckRoom(t) \/ CountLoad(t) \/ CountStore(t)
  \/ AddKey(t) \/ AddKeyFails(t) \/ AddPayload(t)
  \/ ClearItem(t) \/ OpenFile(t) \/ OpenFails(t)
  \/ ChargeLoad(t) \/ ChargeStore(t) \/ ReadFails(t)
  \/ SetContent(t) \/ AllocSize(t) \/ FillSize(t) \/ ReturnLoaded(t)

\* Between a miss and the end of the load: the cache is not as a look-up expects it.
Fills(t) == pc[t] \notin {"idle", "find", "read", "size", "send"}

\* Nobody looks anything up, nor fills, beside one who fills.
Apart == \A s, t \in Threads : Fills(s) /\ s # t => pc[t] \in {"idle", "send"}

Next == /\ \E t \in Threads : Step(t)
        /\ mixed' = (mixed \/ ~Apart')

Spec == Init /\ [][Next]_vars

-----------------------------------------------------------------------------
(* Properties *)

\* What is sent for a file is that file's bytes, as many as it has: whatever loads failed
\* before, no two names share an item, and however many threads look files up and set
\* rules at a time (cache_GetResource, cache_CreateResource).  Nothing guards a load from
\* a look-up or from another load, so it is said as long as none of them met.
ServedRightFile ==
  mixed \/ \A t \in Threads : pc[t] = "send" => body[t] = file[t] /\ size[t] = file[t]

\* The same, whatever met.
ServedRightAlways ==
  \A t \in Threads : pc[t] = "send" => body[t] = file[t] /\ size[t] = file[t]

\* The memory that the items hold was accounted for, and all that is accounted
\* for is within the limit of the cache.
Held == MapThenSumSet(LAMBDA i : SizeOf(cache[i].content),
                      { i \in Indices : cache[i].content # NULL })

MemoryWithinLimit ==
  Held <= loaded_cache_items_MB /\ loaded_cache_items_MB <= MAX_CACHE_SIZE_IN_MB

\* A file that had a rule when it was asked for is not sent from the cache, so
\* a later AmmServer_PreCacheFile does not undo the rule, as long as no load met another
\* call (cache_GetResource, cache_AddDoNOTCacheRuleForResource).
RuleRespected ==
  mixed \/ \A t \in Threads : pc[t] \in {"size", "loaded"} => file[t] \notin ruled[t]
=============================================================================
