------------------------------ MODULE FileServe ------------------------------
(***************************************************************************)
(* The answer to one request for a file: what the worker decides to serve  *)
(* (threads/clientServer.c), conditions, byte ranges and the transmission  *)
(* from memory or from the disk (network/file_server.c,                    *)
(* network/sendHTTPHeader.c), and whether the connection is kept.          *)
(*                                                                         *)
(* Bytes are numbered from 0 as in the code, and a body is the sequence of *)
(* the numbers sent.  The file may be rewritten, truncated or deleted at   *)
(* any time.  A send may take a part, or fail when the client is too slow  *)
(* for SO_SNDTIMEO.  What cache_GetResource does is in FileCache and       *)
(* DynamicContent: here a request names where its resource comes from.     *)
(***************************************************************************)
EXTENDS Integers, Sequences

CONSTANTS
  MAX_FILE_READ_BLOCK,   \* bytes read at a time, MAX_FILE_READ_BLOCK_KB * 1024
  MaxSize,               \* bound: bytes of a file
  MaxChanges,            \* bound: how often the file is changed
  Width,                 \* values of an unsigned long
  ENABLE_POST,           \* instance->settings.ENABLE_POST
  Asked                  \* the requests, a subset of RequestKinds

\* What a request may say.  A range is its kind and the numbers in it; "bad"
\* stands for all that ParseRangeHTTPLine refuses.
RequestKinds ==
  [ target     : {"cached", "disk", "dynamic", "template", "directory", "missing"},
    method     : {"GET", "HEAD", "POST"},
    range      : {"none", "bad", "suffix", "open", "closed"} \X Nat \X Nat,
    match      : {"none", "same", "other", "any"},     \* If-None-Match
    since      : {"none", "modified", "unmodified"},   \* the client's copy
    compressed : BOOLEAN,                              \* the client takes deflate
    name       : BOOLEAN,     \* FilenameStripperOk, and inside the web root
    authorized : BOOLEAN,
    keepalive  : BOOLEAN ]

VARIABLES
  r,         \* the request
  file,      \* size, version and st_mtime on disk; size -1: there is none
  cached,    \* what is in the cache, for a request that is served from there
  copy,      \* what the client has from an earlier answer
  changes,   \* changes of the file so far
  pc,        \* "decide", "open", "disk", "memory" or "done"
  rep,       \* the representation decided on
  slice,     \* rangeStart and rangeLength
  status,    \* of the answer; 0: none
  whole,     \* the header has been sent to its end
  at,        \* the read position in the file
  left,      \* bytesToSend
  chunk,     \* bytes of the block in hand that are not sent
  body,      \* the bytes sent
  kept,      \* ServeClientKeepAliveLoop goes on with the connection
  slow,      \* a send fell short or failed
  sameTime   \* the file was changed twice in a second

vars == << r, file, cached, copy, changes, pc, rep, slice, status, whole, at, left,
           chunk, body, kept, slow, sameTime >>

disk     == << file, changes, sameTime >>
transfer == << at, left, chunk, body >>
given    == << r, cached, copy >>

Files == [size : 0 .. MaxSize, version : {0}, time : {0}]

Init ==
  /\ r \in Asked
  /\ file \in Files
  /\ cached = file
  /\ copy \in {file} \cup IF r.since = "none" THEN {}
                         ELSE {[size |-> 0, version |-> -1, time |-> -1]}
  /\ changes = 0
  /\ pc = "decide"
  /\ rep = file
  /\ slice = [start |-> 0, length |-> 0]
  /\ status = 0
  /\ whole = FALSE
  /\ at = 0
  /\ left = 0
  /\ chunk = 0
  /\ body = << >>
  /\ kept = FALSE
  /\ slow = FALSE
  /\ sameTime = FALSE

\* Somebody else writes or deletes the file.
Change ==
  /\ changes < MaxChanges
  /\ pc # "done"
  /\ changes' = changes + 1
  /\ \E size \in -1 .. MaxSize, later \in 0 .. 1 :
       /\ file' = [size |-> size, version |-> changes + 1, time |-> file.time + later]
       /\ sameTime' = (sameTime \/ later = 0)
  /\ UNCHANGED << given, pc, rep, slice, status, whole, transfer, kept, slow >>

-----------------------------------------------------------------------------
(* Ends of an answer *)

Bytes(start, length) == [i \in 1 .. length |-> start + i - 1]

\* SendFile returns result with header.keepalive as given.
Return(result, keepalive) ==
  /\ kept' = (result /\ keepalive)
  /\ pc' = "done"

\* SendErrorResponse and SendErrorFile.  Once it is out the connection is not
\* kept; if that fails it is up to result.
SendError(code, result) ==
  /\ status' = code
  /\ \/ Return(FALSE, FALSE) /\ whole' = TRUE /\ UNCHANGED slow
     \/ Return(result, r.keepalive) /\ whole' = FALSE /\ slow' = TRUE
  /\ UNCHANGED << rep, slice, transfer >>

\* SendNotModifiedHeader and the lines after it; the last two are not checked.
SendNotModified(rep_) ==
  /\ status' = 304
  /\ rep' = rep_
  /\ \/ whole' = TRUE /\ Return(TRUE, r.keepalive) /\ UNCHANGED slow
     \/ whole' = FALSE /\ slow' = TRUE /\ \E result \in BOOLEAN : Return(result, r.keepalive)
  /\ UNCHANGED << slice, transfer >>

-----------------------------------------------------------------------------
(* SendFile up to the header *)

Closed(range) == range[1] = "closed" /\ range[2] <= range[3]

\* ParseRangeHTTPLine
RangeRequested(range) == range[1] \in {"suffix", "open"} \/ Closed(range)

\* Mutant: the last byte of a range is not clamped to the file.
ResolveByteRangeUnclamped(range, size) ==
  LET unsatisfiable == [start |-> -1, length |-> 0]
      slice_(a, b)  == [start |-> a, length |-> b - a + 1]
  IN  IF size = 0 THEN unsatisfiable
      ELSE CASE range[1] = "suffix" ->
                  IF range[2] = 0 THEN unsatisfiable
                  ELSE slice_(IF range[2] >= size THEN 0 ELSE size - range[2], size - 1)
             [] OTHER ->
                  IF range[2] >= size THEN unsatisfiable
                  ELSE slice_(range[2], IF range[1] = "open" THEN size - 1 ELSE range[3])

\* ResolveByteRange; a start of -1 says that there is no such part.
ResolveByteRange(range, size) ==
  LET unsatisfiable == [start |-> -1, length |-> 0]
      slice_(a, b)  == [start |-> a, length |-> b - a + 1]
  IN  IF size = 0 THEN unsatisfiable
      ELSE CASE range[1] = "suffix" ->
                  IF range[2] = 0 THEN unsatisfiable
                  ELSE slice_(IF range[2] >= size THEN 0 ELSE size - range[2], size - 1)
             [] OTHER ->
                  IF range[2] >= size THEN unsatisfiable
                  ELSE slice_(range[2], IF range[1] = "open" \/ range[3] >= size
                                          THEN size - 1 ELSE range[3])

\* ServeClientKeepAliveLoop makes a GET of a POST that the server takes.
Method(rq) == IF rq.method = "POST" /\ ENABLE_POST THEN "GET" ELSE rq.method

Static(rq) == rq.target \in {"cached", "disk"} /\ Method(rq) \in {"GET", "HEAD"}

\* Only a static resource that is sent as it is has ranges.
Ranged(rq) ==
  /\ Static(rq)
  /\ ~(rq.target = "cached" /\ rq.compressed)
  /\ RangeRequested(rq.range)

\* RequestETagMatches.  A file that is not cached has no tag.
TagMatches(rq) == rq.match = "any" \/ (rq.match = "same" /\ rq.target = "cached")

\* If-None-Match takes precedence over If-Modified-Since.
NotModified(rq, rep_) ==
  IF rq.match # "none" THEN TagMatches(rq)
  ELSE rq.since = "modified" /\ rep_.time <= copy.time

\* A page whose callback may not be called again yet has a tag too.
InCooldown(rq) == rq.target = "dynamic" /\ rq.match \in {"same", "any"}

\* The status line and the header lines up to Content-Length.
SendHeader(rep_, part, code, next) ==
  /\ rep' = rep_
  /\ slice' = part
  /\ status' = code
  /\ \/ /\ whole' = TRUE
        /\ IF r.method = "HEAD" THEN Return(TRUE, r.keepalive)
                                ELSE pc' = next /\ UNCHANGED kept
        /\ UNCHANGED slow
     \/ whole' = FALSE /\ slow' = TRUE /\ Return(FALSE, FALSE)
  /\ UNCHANGED transfer

\* Conditions and ranges of the representation rep_.
Respond(rep_, next) ==
  LET resolved == ResolveByteRange(r.range, rep_.size)
      all      == [start |-> 0, length |-> rep_.size]
  IN  IF Static(r) /\ r.since = "unmodified" /\ rep_.time > copy.time
      THEN SendError(412, FALSE)
      ELSE IF Static(r) /\ NotModified(r, rep_) THEN SendNotModified(rep_)
      ELSE IF ~Ranged(r)                        THEN SendHeader(rep_, all, 200, next)
      ELSE IF resolved.start = -1               THEN SendError(416, FALSE)
      ELSE SendHeader(rep_, resolved, 206, next)

\* SendMemoryBlockAsFile for the list of a directory, SendEmbeddedFile for an
\* icon of it: neither looks at the method, or at whether the header goes out.
SendGenerated ==
  /\ rep' = cached
  /\ slice' = [start |-> 0, length |-> cached.size]
  /\ status' = 200
  /\ whole' \in BOOLEAN
  /\ slow' = ~whole'
  /\ pc' = "memory"
  /\ UNCHANGED << transfer, kept >>

\* decideAboutHowToHandleRequestedResource and SendFile: a bad name is refused
\* first, then what is in memory is preferred to the disk.
ServeRequest ==
  /\ pc = "decide"
  /\ CASE ~r.authorized ->
            /\ status' = 401 /\ whole' = TRUE
            /\ Return(FALSE, FALSE)
            /\ UNCHANGED << rep, slice, transfer, slow >>
       [] r.authorized /\ r.target = "missing" -> SendError(404, FALSE)
       [] r.authorized /\ r.target \in {"directory", "template"} -> SendGenerated
       [] r.authorized /\ r.target \in {"cached", "dynamic", "disk"} /\ ~r.name ->
            SendError(400, TRUE)
       [] r.authorized /\ r.target = "cached" /\ r.name -> Respond(cached, "memory")
       [] r.authorized /\ r.target = "dynamic" /\ r.name ->
            \/ Respond(cached, "memory")
            \/ InCooldown(r) /\ SendNotModified(cached)
       [] r.authorized /\ r.target = "disk" /\ r.name ->
            IF file.size = -1 THEN SendError(404, FALSE) ELSE Respond(file, "open")
  /\ UNCHANGED << given, disk >>
-----------------------------------------------------------------------------
(* The body *)

\* From memory in one send, of which a part counts as success.  Behind the list of
\* a directory the connection is closed in any case.
SendMemory ==
  /\ pc = "memory"
  /\ \E n \in 0 .. slice.length :
       /\ body' = Bytes(slice.start, n)
       /\ slow' = (slow \/ n < slice.length)
       /\ Return(r.target # "directory" /\ (n > 0 \/ slice.length = 0), r.keepalive)
  /\ UNCHANGED << given, disk, rep, slice, status, whole, at, left, chunk >>

\* Mutant: the position in the file is not set.
OpenFileAtStart ==
  /\ pc = "open"
  /\ IF slice.length = 0
     THEN Return(TRUE, r.keepalive) /\ UNCHANGED << at, left >>
     ELSE IF file.size = -1
     THEN Return(FALSE, FALSE) /\ UNCHANGED << at, left >>
     ELSE at' = 0 /\ left' = slice.length /\ pc' = "disk" /\ UNCHANGED kept
  /\ UNCHANGED << given, disk, rep, slice, status, whole, chunk, body, slow >>

\* TransmitFileBodyToSocket
OpenFile ==
  /\ pc = "open"
  /\ IF slice.length = 0
     THEN Return(TRUE, r.keepalive) /\ UNCHANGED << at, left >>
     ELSE IF file.size = -1
     THEN Return(FALSE, FALSE) /\ UNCHANGED << at, left >>
     ELSE at' = slice.start /\ left' = slice.length /\ pc' = "disk" /\ UNCHANGED kept
  /\ UNCHANGED << given, disk, rep, slice, status, whole, chunk, body, slow >>

\* malloc_size is set once, from the length of the whole transfer.
ReadSize == IF slice.length < MAX_FILE_READ_BLOCK THEN slice.length ELSE MAX_FILE_READ_BLOCK

\* A full block is read whatever is left to send.  An open file that is deleted
\* can still be read.
ReadBlock ==
  /\ pc = "disk" /\ chunk = 0 /\ left # 0
  /\ \E size \in IF file.size = -1 THEN 0 .. MaxSize ELSE {file.size} :
       LET n == IF size - at < ReadSize THEN size - at ELSE ReadSize
       IN  IF n <= 0
           THEN Return(FALSE, FALSE) /\ UNCHANGED << at, chunk >>
           ELSE chunk' = n /\ at' = at + n /\ UNCHANGED << pc, kept >>
  /\ UNCHANGED << given, disk, rep, slice, status, whole, left, body, slow >>

\* The disk fails.
ReadFails ==
  /\ pc = "disk" /\ chunk = 0 /\ left # 0
  /\ Return(FALSE, FALSE)
  /\ UNCHANGED << given, disk, rep, slice, status, whole, transfer, slow >>

SendBlock ==
  /\ pc = "disk" /\ chunk > 0
  /\ \E n \in 1 .. chunk :
       /\ body' = body \o Bytes(at - chunk, n)
       /\ chunk' = chunk - n
       /\ left' = (left - n) % Width
  /\ UNCHANGED << given, disk, pc, rep, slice, status, whole, at, kept, slow >>

\* send returns an error, or 0 for MAX_TRANSMISSION_STALL times, which is once.
\* The transmission stops, and that is reported as a success.
SendFails ==
  /\ pc = "disk" /\ chunk > 0
  /\ slow' = TRUE
  /\ Return(TRUE, r.keepalive)
  /\ UNCHANGED << given, disk, rep, slice, status, whole, transfer >>

Transmitted ==
  /\ pc = "disk" /\ chunk = 0 /\ left = 0
  /\ Return(TRUE, r.keepalive)
  /\ UNCHANGED << given, disk, rep, slice, status, whole, transfer, slow >>
-----------------------------------------------------------------------------

Next ==
  \/ Change
  \/ ServeRequest
  \/ SendMemory
  \/ OpenFile \/ ReadBlock \/ ReadFails \/ SendBlock \/ SendFails \/ Transmitted

Spec == Init /\ [][Next]_vars
-----------------------------------------------------------------------------
(* Properties *)

\* The bytes a range asks for, of those there are.
Wanted(range, size) ==
  {b \in 0 .. size - 1 :
     CASE range[1] = "suffix" -> b >= size - range[2]
       [] range[1] = "open"   -> b >= range[2]
       [] OTHER               -> b \in range[2] .. range[3]}

\* A 206 promises just the bytes that were asked for and exist, and a 416 is
\* sent only if none do, however suffix, first and last byte lie to the end of
\* the file (ResolveByteRange).
RangeAsAsked ==
  /\ status = 206 =>
       /\ slice.length > 0
       /\ slice.start .. slice.start + slice.length - 1 = Wanted(r.range, rep.size)
  /\ status = 416 /\ changes = 0 =>
       \A size \in {file.size, cached.size} : Wanted(r.range, size) = {}

\* A connection is kept only behind an answer the client can see the end of: the
\* header is complete and just the promised bytes followed.  Excused are clients
\* too slow for a send, files that change under it, and HEAD for an icon, which
\* is answered with its body.
KeptInStep ==
  kept /\ ~slow /\ changes = 0 /\ ~(r.target = "template" /\ r.method = "HEAD") =>
    /\ whole
    /\ body = IF status \in {200, 206} /\ r.method # "HEAD"
              THEN Bytes(slice.start, slice.length) ELSE << >>

\* A client is told that its copy is still good only if it is, when it asks by
\* the time of its copy and no two versions have the same time.
NotModifiedIsSame ==
  status = 304 /\ r.match = "none" /\ ~sameTime =>
    copy.version = IF r.target = "disk" THEN rep.version ELSE cached.version

\* No byte is sent beyond the ones the header promised.
NothingBeyond == changes = 0 => Len(body) <= slice.length

\* KeptInStep for a client that is slow.
KeptInStepSlow == kept /\ changes = 0 /\ status = 200 /\ r.method = "GET" =>
                    Len(body) = slice.length
=============================================================================
