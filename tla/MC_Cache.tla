------------------------------- MODULE MC_Cache -------------------------------
(***************************************************************************)
(* Small instances of the two kinds of resources that cache_GetResource    *)
(* gives to SendFile: a dynamic resource (DynamicContent) and the static   *)
(* files (FileCache).  They share no state, so a behaviour is one of those *)
(* named in Views.                                                         *)
(***************************************************************************)
EXTENDS DynamicContent, TLC

CONSTANTS
  Views,
  Callers,      \* threads that ask for static files, preload and bar them
  Files, SizeOf(_), Garbage,
  MAX_CACHE_SIZE_IN_MB, MAX_CACHE_SIZE_FOR_EACH_FILE_IN_MB, MAX_SEPERATE_CACHE_ITEMS,
  MaxCalls,
  PastMeetings, \* bound: behaviours are followed after a load has met another call
  Large         \* the file that is larger than the cache takes of one, or NULL

VARIABLES
  view,
  loaded_cache_items, loaded_cache_items_MB, cache, entries, hm_addLock, filePc, op, file,
  index, reg, body, size, calls, ruled, mixed

Static == INSTANCE FileCache WITH Threads <- Callers, pc <- filePc

staticVars == << loaded_cache_items, loaded_cache_items_MB, cache, entries, hm_addLock,
                 filePc, op, file, index, reg, body, size, calls, ruled, mixed >>

ASSUME FileCacheAssumption ==
  /\ NULL \notin Files
  /\ Garbage \notin Files \cup {NULL}
  /\ \A f \in Files : SizeOf(f) \in Nat
  /\ MAX_CACHE_SIZE_IN_MB \in Nat \ {0}
  /\ MAX_CACHE_SIZE_FOR_EACH_FILE_IN_MB \in Nat
  /\ MAX_SEPERATE_CACHE_ITEMS \in Nat
  /\ MaxCalls \in Nat

\* A file has 2 MB, and the large one more than the cache takes of a single file.
MCSizeOf(f) == IF f = Large THEN 4 ELSE 2

\* Buffers are told apart by their use only, threads by what they do.
Interchangeable ==
  Permutations(Threads) \cup Permutations(Buffers) \cup Permutations(Callers)
    \cup Permutations(Files \ {Large})

MCInit ==
  /\ view \in Views
  /\ Init
  /\ Static!Init

MCNext ==
  \/ view = "dynamic" /\ Next /\ UNCHANGED << view, staticVars >>
  \/ /\ view = "static" /\ (mixed => PastMeetings)
     /\ Static!Next /\ UNCHANGED << view, vars >>

MCSpec == MCInit /\ [][MCNext]_<< view, vars, staticVars >>

ServedRightFile   == Static!ServedRightFile
RuleRespected     == Static!RuleRespected

\* To look at by hand.
ServedRightAlways == Static!ServedRightAlways
MemoryWithinLimit == Static!MemoryWithinLimit
=============================================================================
