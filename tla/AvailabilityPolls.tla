-------------------------- MODULE AvailabilityPolls --------------------------
(***************************************************************************)
(* Services/Availability: polls and the responses to them, in memory and   *)
(* in a directory for each poll, with the callbacks that create a poll,    *)
(* vote, close and finalize, and what a server that is started again makes *)
(* of the directories it finds.                                            *)
(*                                                                         *)
(* The callbacks take no lock.  A file that is written is first empty,     *)
(* then whole, and the server may die between any two steps; a file of a   *)
(* response may also fail to open.  The votes of                           *)
(* a response are known by the number of the request that sent them, and   *)
(* an e-mail address by the voter it belongs to.  Titles and the dates of  *)
(* the options are left out: a poll has options or, read from an empty     *)
(* poll.ini, has none.                                                     *)
(***************************************************************************)
EXTENDS Naturals, FiniteSets, FiniteSetsExt, SequencesExt

CONSTANTS
  PollWorkers,              \* worker threads that run callbacks
  Voters, NoVoter,
  Mailers,                  \* bound: the voters that leave an address
  MAX_POLLS, MAX_RESPONSES,
  MaxBallots,               \* bound: votes sent
  MaxFailures,              \* bound: files that fail to open
  MaxManaged,               \* bound: polls created, closed, reopened, finalized
  MaxPollCrashes            \* bound: times the server dies

PollIds   == 1 .. MaxManaged + 1
PollSlots == 0 .. MAX_POLLS          \* the last one lies behind polls[]
Rows      == 0 .. MAX_RESPONSES      \* the last one lies behind responses[]

VARIABLES
  pollDirs,        \* the directory of a poll
  polls, numberOfPolls, nextPollUID,
  pollHashMap,     \* a slot, or NoPoll
  pollPc, form,    \* of a worker: where it is, and its request
  ballots, managed, pollCrashes, failures,
  cast,            \* the votes of each voter that were last saved as a whole, 0 where
                   \* a later attempt was cut short
  spoilt,          \* the polls where a file did not open
  inVain           \* the requests that were thanked for and not saved

pollVars == << pollDirs, polls, numberOfPolls, nextPollUID, pollHashMap, pollPc, form,
               ballots, managed, pollCrashes, failures, cast, spoilt, inVain >>

pollMemory == << polls, numberOfPolls, nextPollUID, pollHashMap >>
pollTallies == << managed, pollCrashes, failures >>
outcome == << cast, spoilt, inVain >>
pollGhosts == << ballots, pollTallies, outcome >>

NoPoll  == MAX_POLLS + 1
Blank   == ""        \* what an empty file says
NoRow   == [name |-> NoVoter, email |-> NoVoter, votes |-> 0]
NoMeta  == [closed |-> FALSE, final |-> FALSE, owner |-> FALSE, options |-> FALSE]
EmptyPoll == [id |-> 0, meta |-> NoMeta, responses |-> [i \in Rows |-> NoRow],
              numberOfResponses |-> 0]
NoPollDir == [made |-> FALSE, ini |-> "none", meta |-> NoMeta,
              name  |-> [i \in Rows |-> NoVoter],
              email |-> [i \in Rows |-> NoVoter],
              ini_votes |-> [i \in Rows |-> "none"],
              votes |-> [i \in Rows |-> 0]]
NoForm == [voter |-> NoVoter, email |-> FALSE, slot |-> NoPoll, idx |-> 0, n |-> 0,
           saved |-> "no"]   \* or "part" or "whole", once there is a row

Init ==
  /\ pollDirs = [d \in PollIds |-> NoPollDir]
  /\ polls = [s \in PollSlots |-> EmptyPoll]
  /\ numberOfPolls = 0
  /\ nextPollUID = 1
  /\ pollHashMap = [d \in PollIds |-> NoPoll]
  /\ pollPc = [w \in PollWorkers |-> "idle"]
  /\ form = [w \in PollWorkers |-> NoForm]
  /\ ballots = 0 /\ managed = 0 /\ pollCrashes = 0 /\ failures = 0
  /\ cast = [d \in PollIds |-> [v \in Voters |-> 0]]
  /\ spoilt = {} /\ inVain = {}

To(w, pc)    == pollPc' = [pollPc EXCEPT ![w] = pc]
Answered(w)  == To(w, "idle") /\ form' = [form EXCEPT ![w] = NoForm]
PollOf(w)    == polls[form[w].slot]

\* findPoll: it must also be one of the polls that are counted.
FindPoll(d)  == pollHashMap[d] < numberOfPolls

-----------------------------------------------------------------------------
(* submitVote_callback *)

\* A vote: nothing comes of it if the poll is not there or is closed.
SubmitVote(w) ==
  /\ pollPc[w] = "idle" /\ ballots < MaxBallots
  /\ ballots' = ballots + 1
  /\ \E d \in PollIds, v \in Voters :
       IF FindPoll(d) /\ ~polls[pollHashMap[d]].meta.closed
       THEN /\ form' = [form EXCEPT ![w] = [NoForm EXCEPT !.voter = v, !.email = v \in Mailers,
                                             !.slot = pollHashMap[d], !.n = ballots + 1]]
            /\ To(w, "find")
       ELSE form' = [form EXCEPT ![w] = [NoForm EXCEPT !.n = ballots + 1]] /\ To(w, "thank")
  /\ UNCHANGED << pollDirs, pollMemory, pollTallies, outcome >>

\* findResponseByName
RowOf(p, v) ==
  {i \in Rows : i < p.numberOfResponses /\ p.responses[i].name = v}

\* Mutant: a voter who is there gets another row.
FindOrCreateResponseSlotAnew(w) ==
  LET p == PollOf(w)
  IN  /\ pollPc[w] = "find"
      /\ To(w, IF p.numberOfResponses >= MAX_RESPONSES THEN "thank" ELSE "create")
      /\ UNCHANGED form
      /\ UNCHANGED << pollDirs, pollMemory, pollGhosts >>

\* findOrCreateResponseSlot, up to the check that there is room.
FindOrCreateResponseSlot(w) ==
  LET p == PollOf(w)
      found == RowOf(p, form[w].voter)
  IN  /\ pollPc[w] = "find"
      /\ IF found # {}
         THEN form' = [form EXCEPT ![w].idx = Min(found)] /\ To(w, "fill")
         ELSE /\ To(w, IF p.numberOfResponses >= MAX_RESPONSES THEN "thank" ELSE "create")
              /\ UNCHANGED form
      /\ UNCHANGED << pollDirs, pollMemory, pollGhosts >>

\* findOrCreateResponseSlot: the new row.
CreateResponseSlot(w) ==
  LET i == PollOf(w).numberOfResponses
  IN  /\ pollPc[w] = "create"
      /\ polls' = [polls EXCEPT ![form[w].slot].responses[i] =
                                    [NoRow EXCEPT !.name = form[w].voter],
                                ![form[w].slot].numberOfResponses = i + 1]
      /\ form' = [form EXCEPT ![w].idx = i]
      /\ To(w, "fill")
      /\ UNCHANGED << pollDirs, numberOfPolls, nextPollUID, pollHashMap, pollGhosts >>

\* The address, if there is one, and a vote for each option.
FillResponse(w) ==
  LET f == form[w]
  IN  /\ pollPc[w] = "fill"
      /\ polls' = [polls EXCEPT
           ![f.slot].responses[f.idx].email = IF f.email THEN f.voter ELSE @,
           ![f.slot].responses[f.idx].votes = IF PollOf(w).meta.options THEN f.n ELSE @]
      /\ form' = [form EXCEPT ![w].saved = "whole"]
      /\ To(w, "name")
      /\ UNCHANGED << pollDirs, numberOfPolls, nextPollUID, pollHashMap, pollGhosts >>

AfterName(r) == IF r.email \in {NoVoter, Blank} THEN "votes" ELSE "email"

\* saveResponse: N_name.txt, N_email.txt if there is an address, N_votes.ini.
SaveResponse(w) ==
  LET i == form[w].idx
      d == PollOf(w).id
      r == PollOf(w).responses[i]
  IN  /\ \/ /\ pollPc[w] = "name"
            /\ pollDirs' = [pollDirs EXCEPT ![d].name[i] = Blank]
            /\ To(w, "name2")
         \/ /\ pollPc[w] = "name2"
            /\ pollDirs' = [pollDirs EXCEPT ![d].name[i] = r.name]
            /\ To(w, AfterName(r))
         \/ /\ pollPc[w] = "email"
            /\ pollDirs' = [pollDirs EXCEPT ![d].email[i] = Blank]
            /\ To(w, "email2")
         \/ /\ pollPc[w] = "email2"
            /\ pollDirs' = [pollDirs EXCEPT ![d].email[i] = r.email]
            /\ To(w, "votes")
         \/ /\ pollPc[w] = "votes"
            /\ pollDirs' = [pollDirs EXCEPT ![d].ini_votes[i] = "empty", ![d].votes[i] = 0]
            /\ To(w, "votes2")
         \/ /\ pollPc[w] = "votes2"
            /\ pollDirs' = [pollDirs EXCEPT ![d].ini_votes[i] = "whole",
                              ![d].votes[i] = IF PollOf(w).meta.options THEN r.votes ELSE 0]
            /\ To(w, "thank")
      /\ UNCHANGED << pollMemory, form, pollGhosts >>

\* One of the files does not open.
SaveResponseFails(w) ==
  /\ failures < MaxFailures
  /\ failures' = failures + 1
  /\ \/ /\ pollPc[w] = "name"
        /\ To(w, AfterName(PollOf(w).responses[form[w].idx]))
     \/ pollPc[w] = "email" /\ To(w, "votes")
     \/ pollPc[w] = "votes" /\ To(w, "thank")
  /\ form' = [form EXCEPT ![w].saved = "part"]
  /\ spoilt' = spoilt \cup {PollOf(w).id}
  /\ UNCHANGED << pollDirs, pollMemory, ballots, managed, pollCrashes, cast, inVain >>

\* "Thanks , redirecting..", whatever became of the vote.
Thank(w) ==
  LET f    == form[w]
      kept == f.saved = "whole" /\ PollOf(w).meta.options
  IN  /\ pollPc[w] = "thank"
      /\ cast' = IF f.saved = "no" THEN cast
                 ELSE [cast EXCEPT ![PollOf(w).id][f.voter] = IF kept THEN f.n ELSE 0]
      /\ inVain' = IF kept THEN inVain ELSE inVain \cup {f.n}
      /\ Answered(w)
      /\ UNCHANGED << pollDirs, pollMemory, ballots, pollTallies, spoilt >>

-----------------------------------------------------------------------------
(* createPoll_callback, closePoll_callback, finalizePoll_callback *)

\* createPoll: nothing is done when the site is full or the directory is there.
CreatePoll(w) ==
  /\ pollPc[w] = "idle" /\ managed < MaxManaged
  /\ managed' = managed + 1
  /\ numberOfPolls < MAX_POLLS
  /\ ~pollDirs[nextPollUID].made
  /\ pollDirs' = [pollDirs EXCEPT ![nextPollUID].made = TRUE]
  /\ polls' = [polls EXCEPT ![numberOfPolls] =
                 [EmptyPoll EXCEPT !.id = nextPollUID, !.meta.owner = TRUE, !.meta.options = TRUE]]
  /\ form' = [form EXCEPT ![w] = [NoForm EXCEPT !.slot = numberOfPolls]]
  /\ To(w, "meta")
  /\ UNCHANGED << numberOfPolls, nextPollUID, pollHashMap, ballots, pollCrashes, failures,
                  outcome >>

\* closePoll_callback opens a closed poll; finalizePoll_callback needs an option.
\* Both need the owner's token.
Manage(w) ==
  /\ pollPc[w] = "idle" /\ managed < MaxManaged
  /\ managed' = managed + 1
  /\ \E d \in PollIds :
       LET s == pollHashMap[d]
           m == polls[s].meta
       IN  /\ FindPoll(d)
           /\ m.owner
           /\ \/ polls' = [polls EXCEPT ![s].meta.closed = ~m.closed]
              \/ m.options /\ polls' = [polls EXCEPT ![s].meta.final = TRUE]
           /\ form' = [form EXCEPT ![w] = [NoForm EXCEPT !.slot = s]]
  /\ To(w, "meta")
  /\ UNCHANGED << pollDirs, numberOfPolls, nextPollUID, pollHashMap, ballots, pollCrashes,
                  failures, outcome >>

\* savePollMeta; a new poll is then published.
SavePollMeta(w) ==
  LET p == PollOf(w)
  IN  \/ /\ pollPc[w] = "meta"
         /\ pollDirs' = [pollDirs EXCEPT ![p.id].ini = "empty", ![p.id].meta = NoMeta]
         /\ To(w, "meta2")
         /\ UNCHANGED << pollMemory, form, pollGhosts >>
      \/ /\ pollPc[w] = "meta2"
         /\ pollDirs' = [pollDirs EXCEPT ![p.id].ini = "whole", ![p.id].meta = p.meta]
         /\ IF pollHashMap[p.id] = NoPoll THEN To(w, "publish") /\ UNCHANGED form
            ELSE Answered(w)
         /\ UNCHANGED << pollMemory, pollGhosts >>

PublishPoll(w) ==
  /\ pollPc[w] = "publish"
  /\ pollHashMap' = [pollHashMap EXCEPT ![PollOf(w).id] = form[w].slot]
  /\ numberOfPolls' = numberOfPolls + 1
  /\ nextPollUID' = nextPollUID + 1
  /\ Answered(w)
  /\ UNCHANGED << pollDirs, polls, pollGhosts >>

-----------------------------------------------------------------------------
(* The server dies and is started again *)

\* loadResponses: the rows that have both files.
SavedRows(d) ==
  LET dir == pollDirs[d]
  IN  {i \in Rows : dir.ini_votes[i] # "none" /\ dir.name[i] # NoVoter}

LoadResponses(d) ==
  LET rows == SetToSortSeq(SavedRows(d), <)
      count == Min({Cardinality(SavedRows(d)), MAX_RESPONSES})
  IN  [EmptyPoll EXCEPT
         !.numberOfResponses = count,
         !.responses = [i \in Rows |->
            IF i < count THEN [name  |-> pollDirs[d].name[rows[i + 1]],
                               email |-> pollDirs[d].email[rows[i + 1]],
                               votes |-> pollDirs[d].votes[rows[i + 1]]]
            ELSE NoRow]]

\* loadPoll needs poll.ini, and what it does not say is zero.
LoadPoll(d) == [LoadResponses(d) EXCEPT !.id = d, !.meta = pollDirs[d].meta]

LoadablePolls == {d \in PollIds : pollDirs[d].ini # "none"}

\* loadAllPolls, whatever the order of the directory.
LoadAllPolls ==
  LET found == SetToSeq(LoadablePolls)
      count == Min({Cardinality(LoadablePolls), MAX_POLLS})
      slotOf(d) == (CHOOSE j \in DOMAIN found : found[j] = d) - 1
      loaded == {d \in LoadablePolls : slotOf(d) < count}
  IN  /\ polls' = [s \in PollSlots |-> IF s < count THEN LoadPoll(found[s + 1]) ELSE EmptyPoll]
      /\ pollHashMap' = [d \in PollIds |-> IF d \in loaded THEN slotOf(d) ELSE NoPoll]
      /\ numberOfPolls' = count
      /\ nextPollUID' = Max(loaded \cup {0}) + 1

PollCrash ==
  LET voting == {w \in PollWorkers : form[w].voter # NoVoter}
  IN  /\ pollCrashes < MaxPollCrashes
      /\ pollCrashes' = pollCrashes + 1
      /\ pollPc' = [w \in PollWorkers |-> "idle"]
      /\ form' = [w \in PollWorkers |-> NoForm]
      /\ cast' = [d \in PollIds |-> [v \in Voters |->
                    IF \E w \in voting : PollOf(w).id = d /\ form[w].voter = v /\ form[w].saved # "no"
                    THEN 0 ELSE cast[d][v]]]
      /\ LoadAllPolls
      /\ UNCHANGED << pollDirs, ballots, managed, failures, spoilt, inVain >>

Next ==
  \/ \E w \in PollWorkers :
       \/ SubmitVote(w) \/ FindOrCreateResponseSlot(w) \/ CreateResponseSlot(w)
       \/ FillResponse(w) \/ SaveResponse(w) \/ SaveResponseFails(w) \/ Thank(w)
       \/ CreatePoll(w) \/ Manage(w) \/ SavePollMeta(w) \/ PublishPoll(w)
  \/ PollCrash

Spec == Init /\ [][Next]_pollVars
-----------------------------------------------------------------------------
(* Properties *)

AllAnswered == \A w \in PollWorkers : pollPc[w] = "idle"

\* The votes of d that were saved are what the results grid shows, in one row of each
\* voter.
GridShows(d) ==
  \A v \in Voters :
    cast[d][v] # 0 =>
      /\ FindPoll(d)
      /\ \E i \in Rows : /\ RowOf(polls[pollHashMap[d]], v) = {i}
                         /\ polls[pollHashMap[d]].responses[i].votes = cast[d][v]

\* A vote whose files were all written is what the results grid shows, in one row of
\* that voter, wherever the server died since and at whatever file: rows are saved by
\* their place in memory and loaded into the places that are left when some are skipped
\* (saveResponse, loadResponses, findOrCreateResponseSlot).  That is so until a file of
\* the poll does not open and the server is started again.
BallotsKept ==
  AllAnswered => \A d \in PollIds : (d \in spoilt /\ pollCrashes > 0) \/ GridShows(d)

\* The same, whatever failed.
SavedIsKept == AllAnswered => \A d \in PollIds : GridShows(d)

\* Whoever is thanked has voted.
ThanksAreEarned == inVain = {}

\* A row carries no other voter's address.
EmailBelongs ==
  AllAnswered =>
    \A s \in PollSlots : s < numberOfPolls =>
      \A i \in Rows : i < polls[s].numberOfResponses =>
        polls[s].responses[i].email \in {NoVoter, polls[s].responses[i].name}

\* The owner of a poll can manage it, whatever happened since it was made.
OwnerKeepsPoll == \A s \in PollSlots : s < numberOfPolls => polls[s].meta.owner

\* As long as the site is not full another poll can be made.
RoomForAPoll == AllAnswered /\ numberOfPolls < MAX_POLLS => ~pollDirs[nextPollUID].made

\* responses[] is not written past its end.
ResponsesBounded == \A s \in PollSlots : polls[s].numberOfResponses <= MAX_RESPONSES
=============================================================================
