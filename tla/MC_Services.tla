----------------------------- MODULE MC_Services -----------------------------
(***************************************************************************)
(* The programs that are built on the server, each with threads of its     *)
(* own: the job bridge ASVIO (AsvioJobs), and the services SuperMarket     *)
(* (SharedCart), HabChan (BoardThreads), Availability (AvailabilityPolls), *)
(* Social (SocialStores) and ShareTex (TexEditor).  Each is a process by   *)
(* itself, so a behaviour is one of those named in Views.                  *)
(***************************************************************************)
EXTENDS SocialStores

CONSTANTS
  Views,
  Jobs, NoJob, ASVIO_MAX_JOBS, MaxSize, Limit, MaxYields,
  Phones, Nobody, Keys, Titles, MAX_ITEMS, MAX_QTY, MaxChanges,
  PhotosASecond, MaxPhotos,
  BoardWorkers, MAX_THREADS_PER_BOARD, MAX_POSTS_PER_THREAD, THREADS_PER_PAGE,
  PageFits, Elsewhere, MaxPosts, MaxCrashes,
  PollWorkers, Voters, NoVoter, Mailers, MAX_POLLS, MAX_RESPONSES, MaxBallots, MaxFailures,
  MaxManaged, MaxPollCrashes,
  Browsers, TooLarge, MaxEdits, MaxScans, MaxFetches

ASSUME NoJobAssumption == NoJob \notin Jobs
ASSUME NobodyAssumption == Nobody \notin Phones
ASSUME TexAssumption == MaxEdits \in Nat

VARIABLES
  view,
  rec, queueHead, queueTail, nextQueued, stopping, dispatcher, taken, pool, task, pending,
  client, seen,
  cartFile, photos, cartLock, phonePc, deed, work, shown, changed, photosTaken,
  dirs, threads, currentThreads, threadUID, threadHash, boardPc, rqst, posted,
  received, removed, crashes,
  pollDirs, polls, numberOfPolls, nextPollUID, pollHashMap, pollPc, form, ballots,
  managed, pollCrashes, failures, cast, spoilt, inVain,
  content, version, text, current, dirty, open, save, poll, edits, fetches, scans, last,
  had, written, failed, silent, unsure

Asvio  == INSTANCE AsvioJobs
Cart   == INSTANCE SharedCart WITH Seeds <- << "a" >>
Board  == INSTANCE BoardThreads
Polls  == INSTANCE AvailabilityPolls
Tex    == INSTANCE TexEditor

jobVars    == << rec, queueHead, queueTail, nextQueued, stopping, dispatcher, taken,
                 pool, task, pending, client, seen >>
cartVars   == << cartFile, photos, cartLock, phonePc, deed, work, shown, changed,
                 photosTaken >>
boardVars  == << dirs, threads, currentThreads, threadUID, threadHash, boardPc, rqst,
                 posted, received, removed, crashes >>
pollVars   == << pollDirs, polls, numberOfPolls, nextPollUID, pollHashMap, pollPc, form,
                 ballots, managed, pollCrashes, failures, cast, spoilt, inVain >>
texVars    == << content, version, text, current, dirty, open, save, poll, edits, fetches,
                 scans, last, had, written, failed, silent, unsure >>

MCInit ==
  /\ view \in Views
  /\ Asvio!Init /\ Cart!Init /\ Board!Init /\ Polls!Init /\ Init /\ Tex!Init

MCNext ==
  \/ /\ view = "asvio" /\ Asvio!Next
     /\ UNCHANGED << view, cartVars, boardVars, pollVars, socialVars, texVars >>
  \/ /\ view = "cart" /\ Cart!Next
     /\ UNCHANGED << view, jobVars, boardVars, pollVars, socialVars, texVars >>
  \/ /\ view = "board" /\ Board!Next
     /\ UNCHANGED << view, jobVars, cartVars, pollVars, socialVars, texVars >>
  \/ /\ view = "polls" /\ Polls!Next
     /\ UNCHANGED << view, jobVars, cartVars, boardVars, socialVars, texVars >>
  \/ /\ view = "social" /\ Next
     /\ UNCHANGED << view, jobVars, cartVars, boardVars, pollVars, texVars >>
  \/ /\ view = "tex" /\ Tex!Next
     /\ UNCHANGED << view, jobVars, cartVars, boardVars, pollVars, socialVars >>

MCVars == << view, jobVars, cartVars, boardVars, pollVars, socialVars, texVars >>

MCSpec == MCInit /\ [][MCNext]_MCVars

\* With jobs that are scheduled, for the liveness of the bridge.
FairSpec == MCSpec /\ Asvio!Fairness

\* With a SuperMarket that may die.
CartCrash ==
  /\ view = "cart" /\ Cart!Crash
  /\ UNCHANGED << view, jobVars, boardVars, pollVars, socialVars, texVars >>

CrashSpec == MCInit /\ [][MCNext \/ CartCrash]_MCVars

InputOutlivesCopy   == Asvio!InputOutlivesCopy
NobodyOversleeps    == Asvio!NobodyOversleeps
ShownIsCurrent      == Cart!ShownIsCurrent
NoChangeLost        == Cart!NoChangeLost
ReceivedIsShown     == Board!ReceivedIsShown
RemovedStaysRemoved == Board!RemovedStaysRemoved
BallotsKept         == Polls!BallotsKept
TypedIsKept         == Tex!TypedIsKept
OverwriteIsTold     == Tex!OverwriteIsTold
LocalCopyIsKept     == Tex!LocalCopyIsKept

\* To look at by hand, with UnlockedIsSaved, SeenWasShown, DeletedAsShown and
\* NoOrphanUpload of SocialStores.
JobComesToAnEnd     == Asvio!JobComesToAnEnd
JobAlwaysEnds       == Asvio!JobAlwaysEnds
PhotoHasItem        == Cart!PhotoHasItem
ListSurvives        == Cart!ListSurvives
NumberedAfterDisk   == Board!NumberedAfterDisk
ReceivedIsAlwaysShown == Board!ReceivedIsAlwaysShown
RemovedIsErased     == Board!RemovedIsErased
EmailBelongs        == Polls!EmailBelongs
SavedIsKept         == Polls!SavedIsKept
ThanksAreEarned     == Polls!ThanksAreEarned
OwnerKeepsPoll      == Polls!OwnerKeepsPoll
RoomForAPoll        == Polls!RoomForAPoll
NoSilentOverwrite   == Tex!NoSilentOverwrite
EditorsAgree        == Tex!EditorsAgree
=============================================================================
