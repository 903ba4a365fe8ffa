------------------------------ MODULE TexEditor ------------------------------
(***************************************************************************)
(* Services/ShareTex: one file of a project, the browsers that have it     *)
(* open (data/editor.js) and the callbacks that serve them (editor.c).     *)
(*                                                                         *)
(* The file's text is known by the number of the edit that made it; an     *)
(* edit that makes it empty is one that is not written.  The version       *)
(* counts the saves and lives in memory only: scanProjectFiles sets it to  *)
(* 1 again.  The callbacks take no lock, a browser may have any number of  *)
(* requests under way.  An answer that is lost is one that is never taken. *)
(***************************************************************************)
EXTENDS Naturals

CONSTANTS
  Browsers,
  TooLarge,        \* the texts that do not fit into an answer
  MaxEdits,        \* bound: edits of all browsers
  MaxScans,        \* bound: times the files are scanned again
  MaxFetches       \* bound: polls and page loads

Edits   == 1 .. MaxEdits
Fetches == 1 .. MaxFetches

\* Of the texts that are empty: an answer without one, and a file that is being written.
NoText == MaxEdits + 1
Empty  == MaxEdits + 2

VARIABLES
  content,         \* the file
  version,         \* files[].version
  text, current, dirty,  \* of a browser: textarea, currentVersion, dirty
  open,            \* of a browser: it shows the editor
  save, poll,      \* the requests, by the edit that is saved and by number
  edits, fetches, scans,
  last,            \* of a browser: the last edit made there
  had,             \* of a browser: the texts its textarea has held
  written, failed, \* the edits whose saves were written, or came to nothing
  silent,          \* saves over a text nobody there had seen, answered without a conflict
  unsure           \* two saves met, a text was left out, or the versions were set back

texVars == << content, version, text, current, dirty, open, save, poll, edits, fetches,
              scans, last, had, written, failed, silent, unsure >>

file    == << content, version >>
page    == << text, current, dirty, open, had >>
tallies == << edits, fetches, scans, last >>
results == << written, failed, silent, unsure >>

NoSave  == [pc |-> "none", by |-> 0, base |-> 0, had |-> {}, version |-> 0,
            conflict |-> FALSE, left |-> FALSE]
NoFetch == [pc |-> "none", by |-> 0, kind |-> "poll", version |-> 0, text |-> 0,
            left |-> FALSE]

SaveDone  == [NoSave EXCEPT !.pc = "done"]
FetchDone == [NoFetch EXCEPT !.pc = "done"]

\* Every browser has loaded the page of the file as it was made.
Init ==
  /\ content = 0 /\ version = 1
  /\ text = [b \in Browsers |-> 0]
  /\ current = [b \in Browsers |-> 1]
  /\ dirty = [b \in Browsers |-> FALSE]
  /\ open = [b \in Browsers |-> TRUE]
  /\ save = [n \in Edits |-> NoSave]
  /\ poll = [f \in Fetches |-> NoFetch]
  /\ edits = 0 /\ fetches = 0 /\ scans = 0
  /\ last = [b \in Browsers |-> 0]
  /\ had = [b \in Browsers |-> {0}]
  /\ written = {} /\ failed = {} /\ silent = {} /\ unsure = FALSE

-----------------------------------------------------------------------------
(* editor.js *)

\* Typing: the save timer is set.
Edit(b) ==
  /\ edits < MaxEdits /\ open[b]
  /\ edits' = edits + 1
  /\ text' = [text EXCEPT ![b] = edits + 1]
  /\ last' = [last EXCEPT ![b] = edits + 1]
  /\ had' = [had EXCEPT ![b] = @ \cup {edits + 1}]
  /\ dirty' = [dirty EXCEPT ![b] = TRUE]
  /\ UNCHANGED << file, current, open, save, poll, fetches, scans, results >>

\* By the timer, or before the page is left; an earlier save need not be answered yet.
DoSave(b) ==
  /\ dirty[b]
  /\ dirty' = [dirty EXCEPT ![b] = FALSE]
  /\ save' = [save EXCEPT ![text[b]] = [NoSave EXCEPT !.pc = "sent", !.by = b,
                                            !.base = current[b], !.had = had[b]]]
  /\ UNCHANGED << file, text, current, open, had, poll, tallies, results >>

\* The answer to a page that was left is lost.  A save that was not written brings no
\* version, and the browser says "Saved" of it too.
SaveAnswered(n) ==
  /\ save[n].pc = "answered"
  /\ current' = IF save[n].left \/ save[n].version = 0 THEN current
                ELSE [current EXCEPT ![save[n].by] = save[n].version]
  /\ save' = [save EXCEPT ![n] = SaveDone]
  /\ UNCHANGED << file, text, dirty, open, had, poll, tallies, results >>

\* "Save failed", and dirty stays as it is.
SaveFails(n) ==
  /\ save[n].pc = "sent"
  /\ failed' = failed \cup {n}
  /\ save' = [save EXCEPT ![n] = SaveDone]
  /\ UNCHANGED << file, page, poll, tallies, written, silent, unsure >>

\* pollContent, while the textarea has not the focus.
PollContent(b) ==
  /\ open[b] /\ fetches < MaxFetches
  /\ fetches' = fetches + 1
  /\ poll' = [poll EXCEPT ![fetches + 1] = [NoFetch EXCEPT !.pc = "sent", !.by = b]]
  /\ UNCHANGED << file, page, save, edits, scans, last, results >>

\* The page once more, behind the save of beforeunload.
LoadPage(b) ==
  /\ ~dirty[b] /\ fetches < MaxFetches
  /\ fetches' = fetches + 1
  /\ open' = [open EXCEPT ![b] = FALSE]
  /\ save' = [n \in Edits |-> IF save[n].by = b THEN [save[n] EXCEPT !.left = TRUE]
                                                ELSE save[n]]
  /\ poll' = [f \in Fetches |->
                IF f = fetches + 1
                THEN [NoFetch EXCEPT !.pc = "sent", !.by = b, !.kind = "page"]
                ELSE IF poll[f].by = b THEN [poll[f] EXCEPT !.left = TRUE] ELSE poll[f]]
  /\ UNCHANGED << file, text, current, dirty, had, edits, scans, last, results >>

\* The textarea holds what an answer brought.
Take(b, p) ==
  /\ text' = [text EXCEPT ![b] = p.text]
  /\ current' = [current EXCEPT ![b] = p.version]
  /\ had' = [had EXCEPT ![b] = @ \cup {p.text}]

\* Mutant: a newer version is taken over what was typed since.
FetchAnsweredOverTyped(f) ==
  LET p == poll[f]
      b == p.by
  IN  /\ p.pc = "answered"
      /\ poll' = [poll EXCEPT ![f] = FetchDone]
      /\ \/ /\ ~p.left /\ p.kind = "page" /\ p.text # NoText
            /\ Take(b, p)
            /\ dirty' = [dirty EXCEPT ![b] = FALSE]
            /\ open' = [open EXCEPT ![b] = TRUE]
            /\ UNCHANGED unsure
         \/ /\ ~p.left /\ p.kind = "poll" /\ p.version > current[b]
            /\ Take(b, p)
            /\ unsure' = (unsure \/ p.text = NoText)
            /\ UNCHANGED << dirty, open >>
         \/ /\ \/ p.left
               \/ p.kind = "page" /\ p.text = NoText
               \/ p.kind = "poll" /\ ~(p.version > current[b])
            /\ UNCHANGED << page, unsure >>
      /\ UNCHANGED << file, save, tallies, written, failed, silent >>

\* Only a newer version is taken, and not over what was typed since; a page whose file
\* is too large has no editor.
FetchAnswered(f) ==
  LET p == poll[f]
      b == p.by
  IN  /\ p.pc = "answered"
      /\ poll' = [poll EXCEPT ![f] = FetchDone]
      /\ \/ /\ ~p.left /\ p.kind = "page" /\ p.text # NoText
            /\ Take(b, p)
            /\ dirty' = [dirty EXCEPT ![b] = FALSE]
            /\ open' = [open EXCEPT ![b] = TRUE]
            /\ UNCHANGED unsure
         \/ /\ ~p.left /\ p.kind = "poll" /\ p.version > current[b] /\ ~dirty[b]
            /\ Take(b, p)
            /\ unsure' = (unsure \/ p.text = NoText)
            /\ UNCHANGED << dirty, open >>
         \/ /\ \/ p.left
               \/ p.kind = "page" /\ p.text = NoText
               \/ p.kind = "poll" /\ ~(p.version > current[b] /\ ~dirty[b])
            /\ UNCHANGED << page, unsure >>
      /\ UNCHANGED << file, save, tallies, written, failed, silent >>

-----------------------------------------------------------------------------
(* The callbacks *)

Saving == {n \in Edits : save[n].pc \in {"open", "write", "count", "store", "read"}}

\* Mutant: a save from an older version only is a conflict.
SaveCheckOlder(n) ==
  /\ save[n].pc = "sent"
  /\ save' = [save EXCEPT ![n].pc = "open", ![n].conflict = save[n].base + 1 < version]
  /\ unsure' = (unsure \/ Saving # {})
  /\ UNCHANGED << file, page, poll, tallies, written, failed, silent >>

\* saveFileContent_callback: the conflict is found, and all the same the file ...
SaveCheck(n) ==
  /\ save[n].pc = "sent"
  /\ save' = [save EXCEPT ![n].pc = "open",
                          ![n].conflict = save[n].base # 0 /\ save[n].base # version]
  /\ unsure' = (unsure \/ Saving # {})
  /\ UNCHANGED << file, page, poll, tallies, written, failed, silent >>

\* ... opened, which empties it, and written ...
SaveWrite(n) ==
  /\ \/ /\ save[n].pc = "open"
        /\ content' = Empty
        /\ silent' = IF content \in save[n].had \/ save[n].conflict THEN silent
                     ELSE silent \cup {n}
        /\ save' = [save EXCEPT ![n].pc = "write"]
        /\ UNCHANGED written
     \/ /\ save[n].pc = "write"
        /\ content' = n
        /\ written' = written \cup {n}
        /\ save' = [save EXCEPT ![n].pc = "count"]
        /\ UNCHANGED silent
  /\ UNCHANGED << version, page, poll, tallies, failed, unsure >>

\* ... or not: it does not open, or there is no text to write, and all that follows is
\* the answer.
SaveUnwritten(n) ==
  /\ save[n].pc = "open"
  /\ failed' = failed \cup {n}
  /\ save' = [save EXCEPT ![n].pc = "answered", ![n].version = 0]
  /\ UNCHANGED << file, page, poll, tallies, written, silent, unsure >>

\* ... and the version counted, which is read, stored and read again for the answer.
SaveCount(n) ==
  /\ \/ /\ save[n].pc = "count"
        /\ save' = [save EXCEPT ![n].pc = "store", ![n].version = version + 1]
        /\ UNCHANGED version
     \/ /\ save[n].pc = "store"
        /\ version' = save[n].version
        /\ save' = [save EXCEPT ![n].pc = "read"]
     \/ /\ save[n].pc = "read"
        /\ save' = [save EXCEPT ![n].pc = "answered", ![n].version = version]
        /\ UNCHANGED version
  /\ UNCHANGED << content, page, poll, tallies, results >>

\* getFileContent_callback and editorPage_callback: the version, then the text.
FetchVersion(f) ==
  /\ poll[f].pc = "sent"
  /\ poll' = [poll EXCEPT ![f].pc = "read", ![f].version = version]
  /\ UNCHANGED << file, page, save, tallies, results >>

\* What is too large to echo back is left out.
FetchText(f) ==
  /\ poll[f].pc = "read"
  /\ poll' = [poll EXCEPT ![f].pc = "answered",
                          ![f].text = IF content \in TooLarge THEN NoText ELSE content]
  /\ UNCHANGED << file, page, save, tallies, results >>

\* newFile_callback, and saveFileContent_callback for a file that is not listed: the
\* files are scanned, and each has version 1.
NewFile ==
  /\ scans < MaxScans
  /\ scans' = scans + 1
  /\ version' = 1
  /\ unsure' = TRUE
  /\ UNCHANGED << content, page, save, poll, edits, fetches, last, written, failed, silent >>

Next ==
  \/ \E b \in Browsers : Edit(b) \/ DoSave(b) \/ PollContent(b) \/ LoadPage(b)
  \/ \E n \in Edits :
       \/ SaveAnswered(n) \/ SaveFails(n) \/ SaveCheck(n) \/ SaveWrite(n)
       \/ SaveUnwritten(n) \/ SaveCount(n)
  \/ \E f \in Fetches :
       \/ FetchAnswered(f) \/ FetchVersion(f) \/ FetchText(f)
  \/ NewFile

Spec == Init /\ [][Next]_texVars
-----------------------------------------------------------------------------
(* Properties *)

\* The save of edit n is under way, was written or has failed.
Sent(n) ==
  save[n].pc \in {"sent", "open", "write"} \/ n \in written \/ n \in failed

\* What was typed last stays in the textarea until a save carries it to the file or comes
\* to nothing: an answer that was under way while it was typed does not replace it, nor
\* does an older page (pollContent, doSave, scheduleSave).
TypedIsKept == \A b \in Browsers : last[b] # 0 => text[b] = last[b] \/ Sent(last[b])

\* A save over a text that the one who saves has never had in the textarea is answered
\* with a conflict, in whatever order requests and answers arrive: as long as no two
\* saves were handled at a time, no page took a version without its text, and the files
\* were not scanned again (saveFileContent_callback, getFileContent_callback,
\* pollContent).
OverwriteIsTold == unsure \/ silent = {}

\* The same, whatever happened.
NoSilentOverwrite == silent = {}

\* getFileContent_callback says of a file that is too large, "Too big to echo back whole ;
\* client keeps its local copy".
LocalCopyIsKept == \A b \in Browsers : text[b] # NoText

\* When nobody saves, a browser that is at the version of the file shows the file.
EditorsAgree ==
  (scans = 0 /\ \A n \in Edits : save[n].pc \in {"none", "done"}) =>
    \A b \in Browsers :
      open[b] /\ current[b] = version /\ ~dirty[b] => text[b] = content
=============================================================================
