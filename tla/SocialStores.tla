---------------------------- MODULE SocialStores ----------------------------
(***************************************************************************)
(* Services/Social: the posts, follows and notifications of its members,   *)
(* each a table in memory under a mutex of its own and a file that is      *)
(* written anew, empty first, whenever the table changes.                  *)
(*                                                                         *)
(* renderPosts takes followsLock, and the operations on posts take         *)
(* notificationsLock, while they hold postsLock.  What is posted or        *)
(* commented is known by the number of the request, which also names the   *)
(* upload that came with it; a request without a session or a valid CSRF   *)
(* token changes nothing and is left out.                                  *)
(***************************************************************************)
EXTENDS Naturals, Sequences, FiniteSets, FiniteSetsExt, SequencesExt

CONSTANTS
  Members,
  Tabs,                  \* requests under way at a time
  NoTab,                 \* nobody, as the holder of a lock
  MAX_POSTS, MAX_COMMENTS_PER_POST, MAX_NOTIFICATIONS, MAX_NOTIFICATIONS_RENDERED,
  MaxDeeds,              \* bound: requests
  MaxSocialCrashes       \* bound: times the server dies

ASSUME PostsAssumption == MAX_POSTS \in Nat \ {0}

Tables == {"posts", "follows", "notes"}

VARIABLES
  store,       \* the tables in memory
  disk,        \* their files
  mutex,       \* postsLock, followsLock, notificationsLock
  nextPostID,
  uploads,     \* files in the upload directory
  tabPc, act,  \* of a request: where it is, and what it asks
  deeds, socialCrashes,
  misread,     \* notifications that were marked as seen on a page without them
  mistaken     \* comments that were deleted for another one

socialVars == << store, disk, mutex, nextPostID, uploads, tabPc, act, deeds, socialCrashes,
                 misread, mistaken >>

NoAct == [kind |-> "none", who |-> NoTab, id |-> 0, other |-> NoTab, n |-> 0, i |-> 0,
          notify |-> {}, unlink |-> 0, shown |-> {}]

Init ==
  /\ store = [posts |-> << >>, follows |-> {}, notes |-> << >>]
  /\ disk = store
  /\ mutex = [t \in Tables |-> NoTab]
  /\ nextPostID = 1
  /\ uploads = {}
  /\ tabPc = [w \in Tabs |-> "idle"]
  /\ act = [w \in Tabs |-> NoAct]
  /\ deeds = 0 /\ socialCrashes = 0 /\ misread = {} /\ mistaken = {}

At(w, pc)   == tabPc' = [tabPc EXCEPT ![w] = pc]
Redirect(w) == At(w, "idle") /\ act' = [act EXCEPT ![w] = NoAct]
Take(w, t)  == mutex[t] = NoTab /\ mutex' = [mutex EXCEPT ![t] = w]
Pass(t)     == mutex[t] = NoTab /\ UNCHANGED mutex      \* taken and released
Release(t)  == mutex' = [mutex EXCEPT ![t] = NoTab]
counts      == << deeds, socialCrashes >>
ghostsS     == << misread, mistaken >>

-----------------------------------------------------------------------------
(* The callbacks, up to the first lock *)

Ask(w, what) ==
  /\ tabPc[w] = "idle" /\ deeds < MaxDeeds
  /\ deeds' = deeds + 1
  /\ act' = [act EXCEPT ![w] = [what EXCEPT !.n = deeds + 1]]
  /\ UNCHANGED << store, disk, mutex, nextPostID, uploads, socialCrashes, ghostsS >>

\* post_callback: on one's own wall or somebody else's, with or without an upload.
PostCallback(w) ==
  \E m \in Members, wall \in Members, media \in BOOLEAN :
    /\ Ask(w, [NoAct EXCEPT !.kind = "post", !.who = m, !.other = wall])
    /\ At(w, IF media THEN "media" ELSE "posts")

\* mediaStoreFromRequest
MediaStore(w) ==
  /\ tabPc[w] = "media"
  /\ uploads' = uploads \cup {act[w].n}
  /\ At(w, "posts")
  /\ UNCHANGED << store, disk, mutex, nextPostID, act, counts, ghostsS >>

\* comment_callback, like_callback, deletePost_callback and deleteComment_callback, for
\* a post, and the place of a comment of one's own, that a page showed.
OnPostCallback(w) ==
  \E m \in Members, p \in Range(store.posts) :
    /\ \/ \E kind \in {"comment", "like", "delete"} :
            Ask(w, [NoAct EXCEPT !.kind = kind, !.who = m, !.id = p.id])
       \/ \E i \in DOMAIN p.comments :
            /\ p.comments[i].by = m
            /\ Ask(w, [NoAct EXCEPT !.kind = "uncomment", !.who = m, !.id = p.id, !.i = i,
                                    !.shown = {p.comments[i].n}])
    /\ At(w, "posts")

\* follow_callback, home_callback and notifications_callback.
OtherCallback(w) ==
  \E m \in Members :
    \/ /\ \E other \in Members \ {m} :
            Ask(w, [NoAct EXCEPT !.kind = "follow", !.who = m, !.other = other])
       /\ At(w, "follows")
    \/ /\ Ask(w, [NoAct EXCEPT !.kind = "home", !.who = m])
       /\ At(w, "render")
    \/ /\ Ask(w, [NoAct EXCEPT !.kind = "notes", !.who = m])
       /\ At(w, "notes")

-----------------------------------------------------------------------------
(* posts.c *)

PostAt(id) == {k \in DOMAIN store.posts : store.posts[k].id = id}

\* The change is made under postsLock, and whoever it is news to is told before the
\* posts are saved.
ChangePosts(w, posts, recipient, unlink) ==
  /\ Take(w, "posts")
  /\ store' = [store EXCEPT !.posts = posts]
  /\ act' = [act EXCEPT ![w].notify = {recipient} \ {act[w].who, NoTab}, ![w].unlink = unlink]
  /\ At(w, IF recipient \in {act[w].who, NoTab} THEN "save" ELSE "notify")
  /\ UNCHANGED << disk, uploads, counts, misread >>

\* A full wall drops its oldest post.
AddPost(w) ==
  LET a == act[w]
      kept == IF Len(store.posts) >= MAX_POSTS THEN Tail(store.posts) ELSE store.posts
      post == [id |-> nextPostID, author |-> a.who, wall |-> a.other,
               media |-> IF a.n \in uploads THEN a.n ELSE 0, likes |-> {}, comments |-> << >>]
  IN  /\ tabPc[w] = "posts" /\ a.kind = "post"
      /\ ChangePosts(w, Append(kept, post), a.other, 0)
      /\ nextPostID' = nextPostID + 1
      /\ UNCHANGED mistaken

AddComment(w) ==
  /\ tabPc[w] = "posts" /\ act[w].kind = "comment"
  /\ \E k \in PostAt(act[w].id) :
       /\ Len(store.posts[k].comments) < MAX_COMMENTS_PER_POST
       /\ ChangePosts(w, [store.posts EXCEPT ![k].comments =
                            Append(@, [by |-> act[w].who, n |-> act[w].n])],
                      store.posts[k].author, 0)
  /\ UNCHANGED << nextPostID, mistaken >>

\* Only a new like is news.
ToggleLike(w) ==
  /\ tabPc[w] = "posts" /\ act[w].kind = "like"
  /\ \E k \in PostAt(act[w].id) :
       IF act[w].who \in store.posts[k].likes
       THEN ChangePosts(w, [store.posts EXCEPT ![k].likes = @ \ {act[w].who}], NoTab, 0)
       ELSE ChangePosts(w, [store.posts EXCEPT ![k].likes = @ \cup {act[w].who}],
                        store.posts[k].author, 0)
  /\ UNCHANGED << nextPostID, mistaken >>

\* One's own post, or one on one's wall; its upload goes once the lock is released.
DeletePost(w) ==
  /\ tabPc[w] = "posts" /\ act[w].kind = "delete"
  /\ \E k \in PostAt(act[w].id) :
       /\ act[w].who \in {store.posts[k].author, store.posts[k].wall}
       /\ ChangePosts(w, RemoveAt(store.posts, k), NoTab, store.posts[k].media)
  /\ UNCHANGED << nextPostID, mistaken >>

\* The comment is found by its place.
DeleteComment(w) ==
  LET i == act[w].i
  IN  /\ tabPc[w] = "posts" /\ act[w].kind = "uncomment"
      /\ \E k \in PostAt(act[w].id) :
           /\ i \in DOMAIN store.posts[k].comments
           /\ store.posts[k].comments[i].by = act[w].who
           /\ ChangePosts(w, [store.posts EXCEPT ![k].comments = RemoveAt(@, i)], NoTab, 0)
           /\ mistaken' = mistaken \cup ({store.posts[k].comments[i].n} \ act[w].shown)
      /\ UNCHANGED nextPostID

\* The post, or the comment, is not there, is not the requester's, or is full.
NothingToChange(w) ==
  LET a == act[w]
  IN  /\ tabPc[w] = "posts" /\ a.kind # "post"
      /\ \A k \in PostAt(a.id) :
           LET post == store.posts[k]
           IN  \/ a.kind = "comment" /\ Len(post.comments) >= MAX_COMMENTS_PER_POST
               \/ a.kind = "delete" /\ a.who \notin {post.author, post.wall}
               \/ /\ a.kind = "uncomment"
                  /\ ~\E i \in DOMAIN post.comments : i = a.i /\ post.comments[i].by = a.who
      /\ Pass("posts")
      /\ Redirect(w)
      /\ UNCHANGED << store, disk, nextPostID, uploads, counts, ghostsS >>

\* Mutant: the upload goes before the posts are saved.
SavePostsUnlinkFirst(w) ==
  \/ /\ tabPc[w] = "save"
     /\ uploads' = uploads \ {act[w].unlink}
     /\ At(w, "save1")
     /\ UNCHANGED << store, disk, mutex, nextPostID, act, counts, ghostsS >>
  \/ /\ tabPc[w] = "save1"
     /\ disk' = [disk EXCEPT !.posts = << >>]
     /\ At(w, "save2")
     /\ UNCHANGED << store, mutex, nextPostID, uploads, act, counts, ghostsS >>
  \/ /\ tabPc[w] = "save2"
     /\ disk' = [disk EXCEPT !.posts = store.posts]
     /\ Release("posts")
     /\ Redirect(w)
     /\ UNCHANGED << store, nextPostID, uploads, counts, ghostsS >>

\* savePostsUnlocked, and the lock is released.
SavePosts(w) ==
  \/ /\ tabPc[w] = "save"
     /\ disk' = [disk EXCEPT !.posts = << >>]
     /\ At(w, "save2")
     /\ UNCHANGED << store, mutex, nextPostID, uploads, act, counts, ghostsS >>
  \/ /\ tabPc[w] = "save2"
     /\ disk' = [disk EXCEPT !.posts = store.posts]
     /\ Release("posts")
     /\ IF act[w].unlink # 0 THEN At(w, "unlink") /\ UNCHANGED act ELSE Redirect(w)
     /\ UNCHANGED << store, nextPostID, uploads, counts, ghostsS >>

MediaDelete(w) ==
  /\ tabPc[w] = "unlink"
  /\ uploads' = uploads \ {act[w].unlink}
  /\ Redirect(w)
  /\ UNCHANGED << store, disk, mutex, nextPostID, counts, ghostsS >>

\* renderPosts: for each post followsIsFollowing takes and releases followsLock.
RenderPosts(w) ==
  /\ \/ /\ tabPc[w] = "render"
        /\ Take(w, "posts")
        /\ act' = [act EXCEPT ![w].i = Len(store.posts)]
        /\ At(w, "render2")
     \/ /\ tabPc[w] = "render2" /\ act[w].i > 0
        /\ Pass("follows")
        /\ act' = [act EXCEPT ![w].i = @ - 1]
        /\ UNCHANGED tabPc
     \/ /\ tabPc[w] = "render2" /\ act[w].i = 0
        /\ Release("posts")
        /\ Redirect(w)
  /\ UNCHANGED << store, disk, nextPostID, uploads, counts, ghostsS >>

-----------------------------------------------------------------------------
(* follows.c *)

\* followsToggle: the lock is released before the news goes out.
FollowsToggle(w) ==
  LET edge == << act[w].who, act[w].other >>
      new  == edge \notin store.follows
  IN  \/ /\ tabPc[w] = "follows"
         /\ Take(w, "follows")
         /\ store' = [store EXCEPT !.follows = IF new THEN @ \cup {edge} ELSE @ \ {edge}]
         /\ disk' = [disk EXCEPT !.follows = {}]
         /\ act' = [act EXCEPT ![w].notify = IF new THEN {act[w].other} ELSE {}]
         /\ At(w, "follows2")
         /\ UNCHANGED << nextPostID, uploads, counts, ghostsS >>
      \/ /\ tabPc[w] = "follows2"
         /\ disk' = [disk EXCEPT !.follows = store.follows]
         /\ Release("follows")
         /\ IF act[w].notify # {} THEN At(w, "notify") /\ UNCHANGED act ELSE Redirect(w)
         /\ UNCHANGED << store, nextPostID, uploads, counts, ghostsS >>

-----------------------------------------------------------------------------
(* notifications.c *)

\* A full list drops its oldest entry.
NotificationAdd(w) ==
  LET kept == IF Len(store.notes) >= MAX_NOTIFICATIONS THEN Tail(store.notes) ELSE store.notes
      note(to) == [to |-> to, n |-> act[w].n, seen |-> FALSE]
  IN  \/ /\ tabPc[w] = "notify"
         /\ Take(w, "notes")
         /\ \E to \in act[w].notify : store' = [store EXCEPT !.notes = Append(kept, note(to))]
         /\ disk' = [disk EXCEPT !.notes = << >>]
         /\ At(w, "notify2")
         /\ UNCHANGED << nextPostID, uploads, act, counts, ghostsS >>
      \/ /\ tabPc[w] = "notify2"
         /\ disk' = [disk EXCEPT !.notes = store.notes]
         /\ Release("notes")
         /\ IF act[w].kind = "follow" THEN Redirect(w) ELSE At(w, "save") /\ UNCHANGED act
         /\ UNCHANGED << store, nextPostID, uploads, counts, ghostsS >>

\* Mutant: the lock is not released before they are marked as seen.
RenderNotificationsKeepsLock(w) ==
  /\ tabPc[w] = "notes"
  /\ Take(w, "notes")
  /\ act' = [act EXCEPT ![w].shown = {n.n : n \in Range(store.notes)}]
  /\ At(w, "mark")
  /\ UNCHANGED << store, disk, nextPostID, uploads, counts, ghostsS >>

\* notifications_callback: the newest entries are put on the page.
RenderNotifications(w) ==
  LET mine == SelectSeq(store.notes, LAMBDA n : n.to = act[w].who)
      first == IF Len(mine) > MAX_NOTIFICATIONS_RENDERED
               THEN Len(mine) - MAX_NOTIFICATIONS_RENDERED + 1 ELSE 1
  IN  /\ tabPc[w] = "notes"
      /\ Pass("notes")
      /\ act' = [act EXCEPT ![w].shown = {mine[k].n : k \in first .. Len(mine)}]
      /\ At(w, "mark")
      /\ UNCHANGED << store, disk, nextPostID, uploads, counts, ghostsS >>

\* notificationMarkAllSeen
MarkAllSeen(w) ==
  LET unseen == {n \in Range(store.notes) : n.to = act[w].who /\ ~n.seen}
  IN  \/ /\ tabPc[w] = "mark"
         /\ IF unseen = {}
            THEN Pass("notes") /\ Redirect(w) /\ UNCHANGED << store, disk, misread >>
            ELSE /\ Take(w, "notes")
                 /\ store' = [store EXCEPT !.notes =
                      [k \in DOMAIN @ |-> IF @[k].to = act[w].who
                                          THEN [@[k] EXCEPT !.seen = TRUE] ELSE @[k]]]
                 /\ disk' = [disk EXCEPT !.notes = << >>]
                 /\ misread' = misread \cup ({n.n : n \in unseen} \ act[w].shown)
                 /\ At(w, "mark2")
                 /\ UNCHANGED act
         /\ UNCHANGED << nextPostID, uploads, counts, mistaken >>
      \/ /\ tabPc[w] = "mark2"
         /\ disk' = [disk EXCEPT !.notes = store.notes]
         /\ Release("notes")
         /\ Redirect(w)
         /\ UNCHANGED << store, nextPostID, uploads, counts, ghostsS >>

-----------------------------------------------------------------------------
(* The server dies and is started again: loadPosts, loadFollows, loadNotifications *)

SocialCrash ==
  /\ socialCrashes < MaxSocialCrashes
  /\ socialCrashes' = socialCrashes + 1
  /\ store' = disk
  /\ mutex' = [t \in Tables |-> NoTab]
  /\ nextPostID' = Max({p.id : p \in Range(disk.posts)} \cup {0}) + 1
  /\ tabPc' = [w \in Tabs |-> "idle"]
  /\ act' = [w \in Tabs |-> NoAct]
  /\ UNCHANGED << disk, uploads, deeds, ghostsS >>

Request(w) ==
  \/ MediaStore(w) \/ AddPost(w) \/ AddComment(w) \/ ToggleLike(w) \/ DeletePost(w)
  \/ DeleteComment(w) \/ NothingToChange(w) \/ SavePosts(w) \/ MediaDelete(w)
  \/ RenderPosts(w) \/ FollowsToggle(w) \/ NotificationAdd(w) \/ RenderNotifications(w)
  \/ MarkAllSeen(w)

Next ==
  \/ \E w \in Tabs : PostCallback(w) \/ OnPostCallback(w) \/ OtherCallback(w) \/ Request(w)
  \/ SocialCrash

Spec == Init /\ [][Next]_socialVars
-----------------------------------------------------------------------------
(* Properties *)

\* Some request that is under way can go on: the three locks, of which one is taken
\* inside another in two different ways, never have requests wait on one another in a
\* circle (renderPosts, addPost, followsToggle, notifications_callback).
SomebodyGoesOn ==
  LET busy == {w \in Tabs : tabPc[w] # "idle"}
      awaits(w) == IF tabPc[w] \in {"posts", "render"} THEN {"posts"}
                   ELSE IF tabPc[w] = "follows" \/ (tabPc[w] = "render2" /\ act[w].i > 0)
                   THEN {"follows"}
                   ELSE IF tabPc[w] \in {"notify", "notes", "mark"} THEN {"notes"} ELSE {}
  IN  busy # {} => \E w \in busy : \A t \in awaits(w) : mutex[t] = NoTab

\* Whoever dies, dies with everything saved that no request is changing: a table that
\* is not locked is what its file says (savePostsUnlocked and the like on every path).
UnlockedIsSaved == \A t \in Tables : mutex[t] = NoTab => disk[t] = store[t]

\* A post that is shown, or would be after a restart, has its upload: a deleted post's
\* upload goes after the post has gone from the file (deletePost, mediaStore).
UploadsAreThere ==
  \A p \in Range(store.posts) \cup Range(disk.posts) : p.media # 0 => p.media \in uploads

\* Opening the page is what reads them: what is marked as seen was on the page.
SeenWasShown == misread = {}

\* The comment that is deleted is the one whose button was pressed.
DeletedAsShown == mistaken = {}

\* Every upload belongs to a post or to a request that has not come to its end.
NoOrphanUpload ==
  (\A w \in Tabs : tabPc[w] = "idle") =>
    \A u \in uploads : \E p \in Range(store.posts) : p.media = u
=============================================================================
