------------------------------ MODULE SharedCart ------------------------------
(***************************************************************************)
(* The shared shopping list of Services/SuperMarket: phones that show one  *)
(* list, change it, put photos to its items and ask for its revision to    *)
(* see whether another phone has changed it.                               *)
(*                                                                         *)
(* The list is a file that withCart reads and rewrites under flock, while  *)
(* peekCartRev reads it without; photos are files of their own, outside    *)
(* the lock.  A name is known by its key, what normGreeklish makes of it,  *)
(* and an item by its key and the revision it was added at, which are as   *)
(* fresh as the random id.                                                 *)
(***************************************************************************)
EXTENDS Naturals, Sequences, SequencesExt

CONSTANTS
  Phones, Nobody,
  Keys,          \* keys of the names that are added
  Seeds,         \* SEED_STAPLES, as a sequence of keys
  Titles,        \* titles a phone may give
  MAX_ITEMS, MAX_QTY,
  MaxChanges,    \* bound: changes of the list
  PhotosASecond, \* photos that are taken within one second
  MaxPhotos      \* bound: photos taken

VARIABLES
  cartFile,    \* the file, or Empty: new, or truncated
  photos,      \* the photo files: records with an id and a number
  cartLock,    \* who holds flock
  phonePc,     \* of a phone's request
  deed,        \* what it asks for
  work,        \* its struct cart
  shown,       \* the list its page shows
  changed,     \* changes made
  photosTaken

cartVars == << cartFile, photos, cartLock, phonePc, deed, work, shown, changed, photosTaken >>

Empty == [rev |-> 0, title |-> "", items |-> << >>, header |-> FALSE]
Read  == [kind |-> "read"]
Cover == << "cover", 0 >>     \* the id of the photo of the list itself
NoPage == [loaded |-> FALSE, rev |-> 0, title |-> "", items |-> << >>, img |-> {}]

Init ==
  /\ cartFile = Empty
  /\ photos = {}
  /\ cartLock = Nobody
  /\ phonePc = [p \in Phones |-> "idle"]
  /\ deed = [p \in Phones |-> Read]
  /\ work = [p \in Phones |-> Empty]
  /\ shown = [p \in Phones |-> NoPage]
  /\ changed = 0
  /\ photosTaken = 0

-----------------------------------------------------------------------------
(* The list *)

NewItem(key, rev, checked) == [id |-> << key, rev >>, qty |-> 1, checked |-> checked]

\* seedCart
SeedCart == [rev |-> 0, title |-> "", header |-> TRUE,
             items |-> [i \in DOMAIN Seeds |-> NewItem(Seeds[i], 0, TRUE)]]

\* parseCartStream, and the seed of a list that has no header.  A title of "-" is
\* how serializeCartStream writes that there is none.
ParseCart(f) ==
  IF ~f.header THEN SeedCart ELSE [f EXCEPT !.title = IF @ = "-" THEN "" ELSE @]

Clamp(n) == IF n < 1 THEN 1 ELSE IF n > MAX_QTY THEN MAX_QTY ELSE n

\* findItemIndex, and the item that is found replaced.
Update(items, id, new) ==
  [i \in DOMAIN items |-> IF items[i].id = id THEN new[i] ELSE items[i]]

\* ACTION_ADD: a name that is there in any spelling is unchecked.
Add(items, key, rev) ==
  IF \E i \in DOMAIN items : items[i].id[1] = key
  THEN [i \in DOMAIN items |->
          IF items[i].id[1] = key THEN [items[i] EXCEPT !.checked = FALSE] ELSE items[i]]
  ELSE IF Len(items) >= MAX_ITEMS THEN items ELSE << NewItem(key, rev, FALSE) >> \o items

\* applyAction and ++rev; a delta is one less than it stands for.  An id nobody has
\* any more, and a photo, change only rev.
ApplyAction(c, d) ==
  LET items ==
        CASE d.kind = "add" -> Add(c.items, d.key, c.rev + 1)
          [] d.kind = "qty" ->
               Update(c.items, d.id, [i \in DOMAIN c.items |->
                        [c.items[i] EXCEPT !.qty = Clamp(@ + d.delta - 1)]])
          [] d.kind = "value" ->
               Update(c.items, d.id, [i \in DOMAIN c.items |->
                        [c.items[i] EXCEPT !.qty = Clamp(d.value)]])
          [] d.kind = "toggle" ->
               Update(c.items, d.id, [i \in DOMAIN c.items |->
                        [c.items[i] EXCEPT !.checked = ~@]])
          [] d.kind = "del" -> RemoveFirstMatch(c.items, LAMBDA i : i.id = d.id)
          [] OTHER -> c.items
  IN  [c EXCEPT !.items = items, !.rev = @ + 1,
                !.title = IF d.kind = "name" THEN d.title ELSE @]

\* applyAction's unlink: only of an item that is there, or of what imgdel names.
Unlinked(c, d) ==
  {f \in photos : \/ d.kind = "imgdel" /\ f.id = d.id
                  \/ d.kind = "del" /\ f.id = d.id /\ \E i \in DOMAIN c.items : c.items[i].id = d.id}

Ids(c) == {c.items[i].id : i \in DOMAIN c.items}

\* photoMTime counts whole seconds: a page tells photos of an item apart by no more.
Second(n) == n \div PhotosASecond

\* buildCartJSON: the list and the times of its photos and of its cover.
Json(c) == [loaded |-> TRUE, rev |-> c.rev, title |-> c.title, items |-> c.items,
            img |-> {[id |-> f.id, time |-> Second(f.n)] :
                       f \in {g \in photos : g.id \in Ids(c) \cup {Cover}}}]

-----------------------------------------------------------------------------
(* A request *)

Shows(p)    == shown[p].loaded
ShownIds(p) == Ids(shown[p])

Deeds(p) ==
  [kind : {"add"}, key : Keys]
  \cup [kind : {"qty"}, id : ShownIds(p), delta : {0, 2}]
  \cup [kind : {"value"}, id : ShownIds(p), value : {0, MAX_QTY + 1}]
  \cup [kind : {"toggle", "del", "imgdel"}, id : ShownIds(p)]
  \cup [kind : {"name"}, title : Titles]
  \cup [kind : {"noop"}]

\* go_callback with a=..., asked for from what the page shows.
Change(p) ==
  /\ phonePc[p] = "idle" /\ Shows(p)
  /\ changed < MaxChanges
  /\ \E d \in Deeds(p) : deed' = [deed EXCEPT ![p] = d]
  /\ changed' = changed + 1
  /\ phonePc' = [phonePc EXCEPT ![p] = "wanted"]
  /\ UNCHANGED << cartFile, photos, cartLock, work, shown, photosTaken >>

\* A page or its script asks for the list: go_callback without an action.
Load(p) ==
  /\ phonePc[p] = "idle" /\ ~Shows(p)
  /\ deed' = [deed EXCEPT ![p] = Read]
  /\ phonePc' = [phonePc EXCEPT ![p] = "wanted"]
  /\ UNCHANGED << cartFile, photos, cartLock, work, shown, changed, photosTaken >>

\* The page's script asks for rev, which peekCartRev reads without the lock, and
\* for the list when it is not the one the page shows.
Poll(p) ==
  /\ phonePc[p] = "idle" /\ Shows(p)
  /\ cartFile.rev # shown[p].rev
  /\ deed' = [deed EXCEPT ![p] = Read]
  /\ phonePc' = [phonePc EXCEPT ![p] = "wanted"]
  /\ UNCHANGED << cartFile, photos, cartLock, work, shown, changed, photosTaken >>

\* Mutant: the list is given no new revision when a photo has been stored.
PhotoUploadQuietly(p) ==
  /\ phonePc[p] = "idle" /\ Shows(p)
  /\ photosTaken < MaxPhotos
  /\ \E id \in ShownIds(p) \cup {Cover} :
       photos' = {f \in photos : f.id # id} \cup {[id |-> id, n |-> photosTaken]}
  /\ deed' = [deed EXCEPT ![p] = Read]
  /\ photosTaken' = photosTaken + 1
  /\ phonePc' = [phonePc EXCEPT ![p] = "wanted"]
  /\ UNCHANGED << cartFile, cartLock, work, shown, changed >>

\* photoUpload_callback up to withCart: the photo is renamed into place, and the
\* list gets a new revision; or it is no image, and the list is read again.
PhotoUpload(p) ==
  /\ phonePc[p] = "idle" /\ Shows(p)
  /\ photosTaken < MaxPhotos
  /\ \/ /\ \E id \in ShownIds(p) \cup {Cover} :
             photos' = {f \in photos : f.id # id} \cup {[id |-> id, n |-> photosTaken]}
        /\ deed' = [deed EXCEPT ![p] = [kind |-> "noop"]]
        /\ changed' = changed + 1
     \/ /\ deed' = [deed EXCEPT ![p] = Read]
        /\ UNCHANGED << photos, changed >>
  /\ photosTaken' = photosTaken + 1
  /\ phonePc' = [phonePc EXCEPT ![p] = "wanted"]
  /\ UNCHANGED << cartFile, cartLock, work, shown >>

\* Mutant: flock is taken only when the list is written back.
LockAndApplyUnlocked(p) ==
  LET c == ParseCart(cartFile)
  IN  /\ phonePc[p] = "wanted"
      /\ phonePc' = [phonePc EXCEPT ![p] = "locked"]
      /\ work' = [work EXCEPT ![p] = IF deed[p] = Read THEN c ELSE ApplyAction(c, deed[p])]
      /\ photos' = photos \ Unlinked(c, deed[p])
      /\ UNCHANGED << cartFile, cartLock, deed, shown, changed, photosTaken >>

\* withCart: open and flock, parse, and the action.
LockAndApply(p) ==
  LET c == ParseCart(cartFile)
  IN  /\ phonePc[p] = "wanted" /\ cartLock = Nobody
      /\ cartLock' = p
      /\ phonePc' = [phonePc EXCEPT ![p] = "locked"]
      /\ work' = [work EXCEPT ![p] = IF deed[p] = Read THEN c ELSE ApplyAction(c, deed[p])]
      /\ photos' = photos \ Unlinked(c, deed[p])
      /\ UNCHANGED << cartFile, deed, shown, changed, photosTaken >>

\* withCart: ftruncate.
Truncate(p) ==
  /\ phonePc[p] = "locked"
  /\ cartFile' = Empty
  /\ phonePc' = [phonePc EXCEPT ![p] = "truncated"]
  /\ UNCHANGED << photos, cartLock, deed, work, shown, changed, photosTaken >>

\* withCart: the list is written whole, flushed and unlocked.
WriteBack(p) ==
  /\ phonePc[p] = "truncated"
  /\ cartFile' = work[p]
  /\ cartLock' = Nobody
  /\ phonePc' = [phonePc EXCEPT ![p] = "written"]
  /\ UNCHANGED << photos, deed, work, shown, changed, photosTaken >>

\* buildCartJSON, or the page with the same object in it, and the page shows it.
AnswerPhone(p) ==
  /\ phonePc[p] = "written"
  /\ shown' = [shown EXCEPT ![p] = Json(work[p])]
  /\ work' = [work EXCEPT ![p] = Empty]
  /\ deed' = [deed EXCEPT ![p] = Read]
  /\ phonePc' = [phonePc EXCEPT ![p] = "idle"]
  /\ UNCHANGED << cartFile, photos, cartLock, changed, photosTaken >>

\* The server dies, and is started again.
Crash ==
  /\ phonePc' = [p \in Phones |-> "idle"]
  /\ cartLock' = Nobody
  /\ work' = [p \in Phones |-> Empty]
  /\ deed' = [p \in Phones |-> Read]
  /\ UNCHANGED << cartFile, photos, shown, changed, photosTaken >>

Next ==
  \E p \in Phones :
    \/ Change(p) \/ Load(p) \/ Poll(p) \/ PhotoUpload(p)
    \/ LockAndApply(p) \/ Truncate(p) \/ WriteBack(p) \/ AnswerPhone(p)

Spec      == Init /\ [][Next]_cartVars
CrashSpec == Init /\ [][Next \/ Crash]_cartVars
-----------------------------------------------------------------------------
(* Properties *)

AllAnswered == \A p \in Phones : phonePc[p] = "idle"

\* Once everybody has been answered, a phone that is told its own revision by
\* peekCartRev, and so does not ask again, shows the list as it is and its photos
\* by the times they have, although photos are stored and looked at outside the
\* lock (photoUpload_callback, buildCartJSON).
ShownIsCurrent ==
  AllAnswered =>
    \A p \in Phones : Shows(p) /\ shown[p].rev = cartFile.rev =>
      shown[p] = Json(ParseCart(cartFile))

\* No change is lost between phones that change the list at a time, and however
\* often a name is added, in however many spellings, it is in the list once
\* (withCart, applyAction).
NoChangeLost ==
  AllAnswered => /\ cartFile.rev = changed
                 /\ \A i, j \in DOMAIN cartFile.items :
                      cartFile.items[i].id[1] = cartFile.items[j].id[1] => i = j

\* A list that was shown once is still there, also under CrashSpec (withCart
\* truncates the file before it writes it).
ListSurvives == AllAnswered /\ (\E p \in Phones : Shows(p)) => cartFile.header

\* A photo belongs to an item or is the cover (photoUpload_callback stores one for
\* any id, and may do so after the item has been deleted).
PhotoHasItem ==
  AllAnswered => \A f \in photos : f.id \in Ids(ParseCart(cartFile)) \cup {Cover}
=============================================================================
