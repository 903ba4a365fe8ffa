----------------------------- MODULE BoardThreads -----------------------------
(***************************************************************************)
(* One board of Services/HabChan: threads and their posts, in memory and   *)
(* in a directory for each thread, with the callbacks that start a thread, *)
(* reply and delete, and what a server that is started again makes of the  *)
(* directories it finds.                                                   *)
(*                                                                         *)
(* The callbacks take no lock.  A file that is written is first empty,     *)
(* then whole, and the server may die between any two steps.  A post is    *)
(* known by the number of the request that sent it, which also stands for  *)
(* its time; a request that has a wrong password, token or captcha changes *)
(* nothing and is left out.  A page is cut at MAXcontentSize: here the     *)
(* posts have one length, and PageFits of them fit.  threadHashMap is one  *)
(* for all boards of the site: what other boards have in it is Elsewhere.  *)
(***************************************************************************)
EXTENDS Naturals, Sequences, FiniteSets, FiniteSetsExt, SequencesExt

CONSTANTS
  BoardWorkers,             \* worker threads that run callbacks
  MAX_THREADS_PER_BOARD, MAX_POSTS_PER_THREAD, THREADS_PER_PAGE,
  PageFits,                 \* posts that MAXcontentSize has room for
  Elsewhere,                \* names that threads of other boards have
  MaxPosts,                 \* bound: requests
  MaxCrashes                \* bound: times the server dies

Slots == 0 .. MAX_THREADS_PER_BOARD - 1
Index == 0 .. MAX_POSTS_PER_THREAD - 1
Names == 1 .. MaxPosts + 1           \* a thread is named by its number

VARIABLES
  dirs,        \* the directories of the threads
  threads,     \* board.threads
  currentThreads, threadUID,
  threadHash,  \* threadHashMap: a slot, or NoSlot
  boardPc, rqst, \* of a worker: where it is, and its request
  posted,      \* requests sent
  received,    \* posts that were answered "Post received"
  removed,     \* deletions that were answered with success
  crashes

boardVars == << dirs, threads, currentThreads, threadUID, threadHash, boardPc, rqst,
                posted, received, removed, crashes >>

memory == << threads, currentThreads, threadUID, threadHash >>
ghosts == << posted, received, removed, crashes >>

NoSlot == MAX_THREADS_PER_BOARD

NoPost   == [n |-> 0, deleted |-> FALSE, message |-> 0]
NoHeader == [file |-> "none", n |-> 0, deleted |-> FALSE]
NoThread == [name |-> 0, deleted |-> FALSE, password |-> FALSE, lastReply |-> 0,
             numberOfReplies |-> 0, replies |-> [i \in Index |-> NoPost]]
NoDir    == [made |-> FALSE,
             status |-> [file |-> "none", deleted |-> FALSE, lastReply |-> 0],
             header |-> [i \in Index |-> NoHeader],
             post   |-> [i \in Index |-> 0],
             image  |-> [i \in Index |-> {}]]
NoRequest == [kind |-> "none", name |-> 0, slot |-> NoSlot, i |-> 0, n |-> 0]

Init ==
  /\ dirs = [d \in Names |-> NoDir]
  /\ threads = [s \in Slots |-> NoThread]
  /\ currentThreads = 0
  /\ threadUID = 1
  /\ threadHash = [d \in Names |-> NoSlot]
  /\ boardPc = [w \in BoardWorkers |-> "idle"]
  /\ rqst = [w \in BoardWorkers |-> NoRequest]
  /\ posted = 0
  /\ received = {}
  /\ removed = {}
  /\ crashes = 0

Goes(w, to) == boardPc' = [boardPc EXCEPT ![w] = to]
Done(w)     == Goes(w, "idle") /\ rqst' = [rqst EXCEPT ![w] = NoRequest]

\* hashMap_GetULongPayload, and the check that what is found is on this board.  Of
\* two equal keys one is found, here the one of the other board.
Found(d) == IF d \in Elsewhere THEN NoSlot ELSE threadHash[d]

-----------------------------------------------------------------------------
(* processPostReceiver *)

\* A new thread, if the board is not full.
PostNew(w) ==
  /\ boardPc[w] = "idle" /\ posted < MaxPosts
  /\ posted' = posted + 1
  /\ currentThreads < MAX_THREADS_PER_BOARD
  /\ rqst' = [rqst EXCEPT ![w] = [NoRequest EXCEPT !.kind = "new", !.n = posted + 1]]
  /\ Goes(w, "mkdir")
  /\ UNCHANGED << dirs, memory, received, removed, crashes >>

\* A reply to a thread that is there and neither deleted nor full.
PostReply(w) ==
  /\ boardPc[w] = "idle" /\ posted < MaxPosts
  /\ posted' = posted + 1
  /\ \E d \in Names :
       LET s == Found(d)
       IN  /\ s # NoSlot
           /\ ~threads[s].deleted
           /\ threads[s].numberOfReplies < MAX_POSTS_PER_THREAD
           /\ rqst' = [rqst EXCEPT ![w] = [kind |-> "reply", name |-> d, slot |-> s,
                                           i |-> 0, n |-> posted + 1]]
  /\ Goes(w, "image")
  /\ UNCHANGED << dirs, memory, received, removed, crashes >>

\* createThread, up to mkdir: it fails when there is a directory of that name, and
\* the visitor is asked to try again.
Mkdir(w) ==
  /\ boardPc[w] = "mkdir"
  /\ IF dirs[threadUID].made
     THEN Done(w) /\ UNCHANGED dirs
     ELSE /\ dirs' = [dirs EXCEPT ![threadUID].made = TRUE]
          /\ rqst' = [rqst EXCEPT ![w].name = threadUID, ![w].slot = currentThreads]
          /\ Goes(w, "thread")
  /\ UNCHANGED << memory, ghosts >>

\* createThread: the slot is filled in.
FillThread(w) ==
  /\ boardPc[w] = "thread"
  /\ threads' = [threads EXCEPT ![rqst[w].slot] =
                   [NoThread EXCEPT !.name = rqst[w].name, !.password = TRUE]]
  /\ Goes(w, "image")
  /\ UNCHANGED << dirs, currentThreads, threadUID, threadHash, rqst, ghosts >>

\* addPostToThread: the post's place, and its picture and thumbnail, if it has one.
StoreImage(w) ==
  LET r == rqst[w]
      i == threads[r.slot].numberOfReplies
  IN  /\ boardPc[w] = "image"
      /\ i < MAX_POSTS_PER_THREAD
      /\ rqst' = [rqst EXCEPT ![w].i = i]
      /\ threads' = [threads EXCEPT ![r.slot].replies[i] = [NoPost EXCEPT !.n = r.n]]
      /\ \E files \in {{}, {"image", "thumb"}} :
           dirs' = [dirs EXCEPT ![threads[r.slot].name].image[i] = files]
      /\ Goes(w, "header")
      /\ UNCHANGED << currentThreads, threadUID, threadHash, ghosts >>

\* savePostHeader, with the file empty in between.
SaveHeader(w) ==
  LET r == rqst[w]
      p == threads[r.slot].replies[r.i]
      d == threads[r.slot].name
  IN  /\ \/ /\ boardPc[w] = "header"
            /\ dirs' = [dirs EXCEPT ![d].header[r.i] = [NoHeader EXCEPT !.file = "empty"]]
            /\ Goes(w, "header2")
         \/ /\ boardPc[w] = "header2"
            /\ dirs' = [dirs EXCEPT ![d].header[r.i] =
                          [file |-> "whole", n |-> p.n, deleted |-> p.deleted]]
            /\ Goes(w, "message")
      /\ UNCHANGED << memory, rqst, ghosts >>

\* ++numberOfReplies and lastReply.
CountPost(r) ==
  threads' = [threads EXCEPT ![r.slot].replies[r.i].message = r.n,
                             ![r.slot].numberOfReplies = @ + 1,
                             ![r.slot].lastReply = r.n]

\* Mutant: the message is kept in memory only.
SaveMessageInMemory(w) ==
  LET r == rqst[w]
  IN  /\ \/ /\ boardPc[w] = "message"
            /\ Goes(w, IF r.kind = "delReply" THEN "status" ELSE "message2")
            /\ UNCHANGED threads
         \/ boardPc[w] = "message2" /\ CountPost(r) /\ Goes(w, "status")
      /\ UNCHANGED << dirs, currentThreads, threadUID, threadHash, rqst, ghosts >>

\* savePostContent, with the file empty in between; what is empty itself, as behind a
\* deletion, AmmServer_WriteFileFromMemory does not write.
SaveMessage(w) ==
  LET r == rqst[w]
      d == threads[r.slot].name
  IN  /\ \/ /\ boardPc[w] = "message" /\ r.kind = "delReply"
            /\ Goes(w, "status")
            /\ UNCHANGED << dirs, threads >>
         \/ /\ boardPc[w] = "message" /\ r.kind # "delReply"
            /\ dirs' = [dirs EXCEPT ![d].post[r.i] = 0]
            /\ Goes(w, "message2")
            /\ UNCHANGED threads
         \/ /\ boardPc[w] = "message2"
            /\ dirs' = [dirs EXCEPT ![d].post[r.i] = r.n]
            /\ CountPost(r)
            /\ Goes(w, "status")
      /\ UNCHANGED << currentThreads, threadUID, threadHash, rqst, ghosts >>

\* saveThreadStatus, with the file empty in between.
SaveThreadStatus(w) ==
  LET t == threads[rqst[w].slot]
  IN  /\ \/ /\ boardPc[w] = "status"
            /\ dirs' = [dirs EXCEPT ![t.name].status = [NoDir.status EXCEPT !.file = "empty"]]
            /\ Goes(w, "status2")
         \/ /\ boardPc[w] = "status2"
            /\ dirs' = [dirs EXCEPT ![t.name].status =
                          [file |-> "whole", deleted |-> t.deleted, lastReply |-> t.lastReply]]
            /\ Goes(w, IF rqst[w].kind = "new" THEN "publish" ELSE "answer")
      /\ UNCHANGED << memory, rqst, ghosts >>

\* createThread: the thread can be found, and the next one has its number and slot.
Publish(w) ==
  /\ \/ /\ boardPc[w] = "publish"
        /\ threadHash' = [threadHash EXCEPT ![rqst[w].name] = rqst[w].slot]
        /\ threadUID' = threadUID + 1
        /\ UNCHANGED currentThreads
        /\ Goes(w, "publish2")
     \/ /\ boardPc[w] = "publish2"
        /\ currentThreads' = currentThreads + 1
        /\ UNCHANGED << threadHash, threadUID >>
        /\ Goes(w, "answer")
  /\ UNCHANGED << dirs, threads, rqst, ghosts >>

\* The visitor is told that the post was received, or the deletion done.
AnswerVisitor(w) ==
  LET r    == rqst[w]
      post == [name |-> r.name, i |-> r.i, n |-> r.n]
  IN  /\ boardPc[w] = "answer"
      /\ received' = IF r.kind \in {"new", "reply"} THEN received \cup {post} ELSE received
      /\ removed' = IF r.kind \in {"delReply", "delThread"}
                    THEN removed \cup {[kind |-> r.kind, name |-> r.name, i |-> r.i]}
                    ELSE removed
      /\ Done(w)
      /\ UNCHANGED << dirs, memory, posted, crashes >>

-----------------------------------------------------------------------------
(* processDeletePost, with the right password: one that is empty never is *)

DeleteReply(w) ==
  /\ boardPc[w] = "idle"
  /\ \E d \in Names, i \in Index \ {0} :
       LET s == Found(d)
           p == threads[s].replies[i]
       IN  /\ s # NoSlot
           /\ ~threads[s].deleted
           /\ i < threads[s].numberOfReplies
           /\ ~p.deleted /\ p.n # 0
           /\ dirs' = [dirs EXCEPT ![d].image[i] = @ \ {"image"}]
           /\ threads' = [threads EXCEPT ![s].replies[i] =
                            [p EXCEPT !.deleted = TRUE, !.message = 0]]
           /\ rqst' = [rqst EXCEPT ![w] = [kind |-> "delReply", name |-> d, slot |-> s,
                                           i |-> i, n |-> p.n]]
  /\ Goes(w, "header")
  /\ UNCHANGED << currentThreads, threadUID, threadHash, ghosts >>

\* Mutant: the deletion is not saved.
DeleteThreadUnsaved(w) ==
  /\ boardPc[w] = "idle"
  /\ \E d \in Names :
       LET s == Found(d)
       IN  /\ s # NoSlot
           /\ ~threads[s].deleted /\ threads[s].password
           /\ dirs' = [dirs EXCEPT ![d].image[0] = @ \ {"image"}]
           /\ threads' = [threads EXCEPT ![s].deleted = TRUE]
           /\ rqst' = [rqst EXCEPT ![w] = [kind |-> "delThread", name |-> d, slot |-> s,
                                           i |-> 0, n |-> 0]]
  /\ Goes(w, "answer")
  /\ UNCHANGED << currentThreads, threadUID, threadHash, ghosts >>

DeleteThread(w) ==
  /\ boardPc[w] = "idle"
  /\ \E d \in Names :
       LET s == Found(d)
       IN  /\ s # NoSlot
           /\ ~threads[s].deleted /\ threads[s].password
           /\ dirs' = [dirs EXCEPT ![d].image[0] = @ \ {"image"}]
           /\ threads' = [threads EXCEPT ![s].deleted = TRUE]
           /\ rqst' = [rqst EXCEPT ![w] = [kind |-> "delThread", name |-> d, slot |-> s,
                                           i |-> 0, n |-> 0]]
  /\ Goes(w, "status")
  /\ UNCHANGED << currentThreads, threadUID, threadHash, ghosts >>

-----------------------------------------------------------------------------
(* The server dies and is started again *)

\* loadPosts: the posts up to the first that has no header.
LoadPosts(d) ==
  LET count == Min({i \in 0 .. MAX_POSTS_PER_THREAD :
                      i = MAX_POSTS_PER_THREAD \/ dirs[d].header[i].file = "none"})
  IN  [NoThread EXCEPT
         !.numberOfReplies = count,
         !.replies = [i \in Index |->
            IF i < count THEN [n |-> dirs[d].header[i].n, deleted |-> dirs[d].header[i].deleted,
                               message |-> dirs[d].post[i]]
            ELSE NoPost]]

\* loadThread: what is not in status.ini is zero.
LoadThread(d) ==
  [LoadPosts(d) EXCEPT !.name = d, !.deleted = dirs[d].status.deleted,
                       !.password = dirs[d].status.file = "whole",
                       !.lastReply = dirs[d].status.lastReply]

\* addThreadToBoard takes the directories that have a status.ini, in any order and
\* until the board is full.
Loadable == {d \in Names : dirs[d].made /\ dirs[d].status.file # "none"}

\* loadSite and addBoardToSite.
LoadSite ==
  LET found == SetToSeq(Loadable)
      count == Min({Len(found), MAX_THREADS_PER_BOARD})
  IN  /\ threads' = [s \in Slots |-> IF s < count THEN LoadThread(found[s + 1]) ELSE NoThread]
      /\ threadHash' = [d \in Names |->
           IF \E s \in Slots : s < count /\ found[s + 1] = d
           THEN CHOOSE s \in Slots : s < count /\ found[s + 1] = d ELSE NoSlot]
      /\ currentThreads' = count
      /\ threadUID' = count + 1

CrashAndRestart ==
  /\ crashes < MaxCrashes
  /\ crashes' = crashes + 1
  /\ boardPc' = [w \in BoardWorkers |-> "idle"]
  /\ rqst' = [w \in BoardWorkers |-> NoRequest]
  /\ LoadSite
  /\ UNCHANGED << dirs, posted, received, removed >>

Next ==
  \/ \E w \in BoardWorkers :
       \/ PostNew(w) \/ PostReply(w) \/ Mkdir(w) \/ FillThread(w) \/ StoreImage(w)
       \/ SaveHeader(w) \/ SaveMessage(w) \/ SaveThreadStatus(w) \/ Publish(w)
       \/ DeleteReply(w) \/ DeleteThread(w) \/ AnswerVisitor(w)
  \/ CrashAndRestart

Spec == Init /\ [][Next]_boardVars
-----------------------------------------------------------------------------
(* What visitors see *)

Live == {s \in Slots : s < currentThreads /\ ~threads[s].deleted}

\* mallocHTMLListOfThreadsOfBoard: the threads of a page, those last replied to first.
PageOfThreads(page) ==
  LET order == SetToSortSeq(Live, LAMBDA a, b : threads[a].lastReply > threads[b].lastReply)
      first == page * THREADS_PER_PAGE
  IN  SubSeq(order, first + 1, Min({first + THREADS_PER_PAGE, Len(order)}))

\* The posts on a page up to its n-th thread: of each the first post and up to three
\* replies.
PostsOnPage(page, n) ==
  MapThenSumSet(LAMBDA i : Min({4, threads[PageOfThreads(page)[i]].numberOfReplies}), 1 .. n)

\* prepareThreadIndexView: the page is cut, and the links to other pages come last.
CutPage(page) == PostsOnPage(page, Len(PageOfThreads(page))) > PageFits

\* appendPageNavHTML: the last page a link leads to.
LastPage ==
  LET pages == (Cardinality(Live) + THREADS_PER_PAGE - 1) \div THREADS_PER_PAGE
  IN  IF pages = 0 THEN 0 ELSE pages - 1

\* The threads that whoever follows the links comes to.
ListedThreads ==
  UNION {{PageOfThreads(page)[i] :
            i \in {j \in DOMAIN PageOfThreads(page) : PostsOnPage(page, j - 1) < PageFits}} :
         page \in {k \in 0 .. LastPage : \A j \in 0 .. LastPage : j < k => ~CutPage(j)}}

\* prepareThreadView: the posts of a thread, by place, up to where the page is cut.
ShownPosts(d) ==
  LET s == Found(d)
  IN  IF s = NoSlot THEN {}
      ELSE IF threads[s].deleted THEN {}
      ELSE {i \in Index : i < threads[s].numberOfReplies /\ i < PageFits
                          /\ ~threads[s].replies[i].deleted}

-----------------------------------------------------------------------------
(* Properties *)

Resting == \A w \in BoardWorkers : boardPc[w] = "idle"

Gone(p) ==
  \/ [kind |-> "delThread", name |-> p.name, i |-> 0] \in removed
  \/ [kind |-> "delReply", name |-> p.name, i |-> p.i] \in removed

\* A deletion of p that was begun before the server died may have been done or not.
HalfDeleted(p) ==
  /\ crashes > 0
  /\ \/ dirs[p.name].header[p.i].deleted
     \/ dirs[p.name].status.deleted
     \/ dirs[p.name].header[p.i].file = "empty"

IsShown(p)  == p.i \in ShownPosts(p.name)
IsListed(p) == threadHash[p.name] \in ListedThreads

\* A page was cut before one that has the thread of p, or that one.
IsCutOff(p) ==
  \E page \in 0 .. LastPage :
    /\ CutPage(page)
    /\ \A j \in 0 .. LastPage : j < page => threadHash[p.name] \notin Range(PageOfThreads(j))

\* What a visitor was told is received is shown with its message, at its place and in
\* a thread that a page of the board lists, until it is deleted and wherever the server
\* died since (addPostToThread, loadPosts, appendPageNavHTML): as far as the page of
\* its thread and the pages of the board have room, and no other board has a thread of
\* that number.
ReceivedIsShown ==
  Resting =>
    \A p \in received :
      \/ Gone(p) \/ HalfDeleted(p) \/ p.name \in Elsewhere
      \/ /\ IsShown(p) \/ p.i >= PageFits
         /\ IsListed(p) \/ IsCutOff(p)
         /\ threads[threadHash[p.name]].replies[p.i].message = p.n

\* The same, however long the pages are and whatever threads other boards have.
ReceivedIsAlwaysShown ==
  Resting => \A p \in received : Gone(p) \/ HalfDeleted(p) \/ (IsShown(p) /\ IsListed(p))

\* A post or thread that was deleted stays so when the server is started again:
\* nothing that follows a deletion rewrites what says so (deleteThread, deleteReply,
\* loadThread).
RemovedStaysRemoved ==
  \A r \in removed :
    \A i \in Index :
      r.kind = "delThread" \/ i = r.i => i \notin ShownPosts(r.name)

\* Of a reply that was deleted nothing is left on the disk.
RemovedIsErased ==
  \A r \in removed : r.kind = "delReply" =>
    dirs[r.name].image[r.i] = {} /\ dirs[r.name].post[r.i] = 0

\* As addBoardToSite says, "New threads created at runtime get numbered after
\* everything found on disk at load time".
NumberedAfterDisk == Resting => \A d \in Names : dirs[d].made => d < threadUID
=============================================================================
