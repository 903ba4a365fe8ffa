----------------------------- MODULE MC_Requests -----------------------------
(***************************************************************************)
(* A request and its answer, seen from one of four places: the receive     *)
(* loop of a worker (RequestReceive), its answer with a file (FileServe),  *)
(* the API connections that never reach a worker (EpollAPI), and where     *)
(* io_uring accepts these (UringAccept).  They share no state, so a run    *)
(* looks at one of them.                                                   *)
(***************************************************************************)
EXTENDS RequestReceive

CONSTANTS
  API_MAX_REQUEST_SIZE, NReq, Kinds,
  MAX_FILE_READ_BLOCK, MaxSize, MaxChanges, Width, Asked,
  RingCounts, connectionSlots, URING_ACCEPT_RESERVE, MaxQueue

VARIABLES
  view,
  script, part, sock, clientOpen, apiPc, in, buf, again, out, closeWhenWritten, armed,
  apiAnswers,
  asked, file, cached, copy, changes, filePc, rep, slice, status, whole, at, left,
  chunk, body, kept, slow, sameTime,
  ringCount, th, sq, cq, ringArmed, used

API == INSTANCE EpollAPI WITH pc <- apiPc, answers <- apiAnswers
Files == INSTANCE FileServe WITH r <- asked, pc <- filePc
Accept == INSTANCE UringAccept WITH armed <- ringArmed

apiVars  == << script, part, sock, clientOpen, apiPc, in, buf, again, out,
               closeWhenWritten, armed, apiAnswers >>
fileVars == << asked, file, cached, copy, changes, filePc, rep, slice, status, whole,
               at, left, chunk, body, kept, slow, sameTime >>
acceptVars == << ringCount, th, sq, cq, ringArmed, used >>

\* A request is longer than nothing, a block of the file is not empty, an unsigned
\* long holds more than the length of any file, and one ring at least comes up.
ASSUME SizeAssumption     == API_MAX_REQUEST_SIZE \in Nat \ {0}
ASSUME RequestsAssumption == NReq \in Nat
ASSUME KindsAssumption    == Kinds \subseteq API!RequestKinds
ASSUME AskedAssumption    == \A q \in Asked : q \in Files!RequestKinds
ASSUME BlockAssumption    == MAX_FILE_READ_BLOCK \in Nat \ {0}
ASSUME WidthAssumption    == MaxSize \in Nat /\ Width \in Nat /\ MaxSize < Width
ASSUME RingsAssumption    ==
  RingCounts \subseteq Nat \ {0} /\ connectionSlots \in Nat /\ URING_ACCEPT_RESERVE \in Nat

-----------------------------------------------------------------------------
(* The requests received *)

Form      == << "d", "d", "d" >>
Multipart == Line("delim") \o Line("disp") \o EOL \o Line("d") \o Line("delim")
Long(n)   == [i \in 1 .. n |-> "d"]

Get     == Plain("GET", << >>)
Post    == Plain("POST", Form)
Chunked == [Post EXCEPT !.chunked = TRUE, !.length = NoLength]
Parted  == [Plain("POST", Multipart) EXCEPT !.last = "cut"]
Base    == {Get, Post, Chunked}

MCRequests ==
  Base
  \cup {Plain(t, << >>) : t \in {"BAD", "NONE", "PUT"}}
  \cup {[q EXCEPT !.hosts = n] : q \in Base, n \in {0, 2}}
  \cup {[q EXCEPT !.expect = e] : q \in Base, e \in {"continue", "other"}}
  \cup {[q EXCEPT !.filler = n] : q \in Base, n \in {1, 2, 3, 6}}
  \cup {[Post EXCEPT !.payload = Long(n), !.length = n] : n \in {0, 6, 9, 12, 21}}
  \cup {[Chunked EXCEPT !.payload = Long(n)] : n \in {0, 4, 21}}
  \cup {[Get EXCEPT !.hosts = 0, !.version = 10],
        [Chunked EXCEPT !.length = 3],
        [Chunked EXCEPT !.type = "GET"],
        [Post EXCEPT !.length = BadLength],
        [Post EXCEPT !.coding = FALSE],
        Parted,
        [Parted EXCEPT !.chunked = TRUE, !.length = NoLength]}

-----------------------------------------------------------------------------
(* The files asked for *)

NoRange == << "none", 0, 0 >>

Ask(target) ==
  [target |-> target, method |-> "GET", range |-> NoRange, match |-> "none",
   since |-> "none", compressed |-> FALSE, name |-> TRUE, authorized |-> TRUE,
   keepalive |-> TRUE]

Sources == {Ask("disk"), Ask("cached")}
From1   == << "open", 1, 0 >>

Ranges ==
  {<< kind, a, b >> : kind \in {"suffix", "open"}, a \in 0 .. 5, b \in {0}}
  \cup {<< "closed", a, b >> : a \in 0 .. 5, b \in {0, 1, 3, 5}}
  \cup {<< "bad", 0, 0 >>}

MCAsked ==
  {Ask(t) : t \in {"cached", "disk", "dynamic", "template", "directory", "missing"}}
  \cup {[q EXCEPT !.range = g] : q \in Sources, g \in Ranges}
  \cup {[q EXCEPT !.match = x] : q \in Sources \cup {Ask("dynamic")}, x \in {"same", "other", "any"}}
  \cup {[q EXCEPT !.since = x] : q \in Sources, x \in {"modified", "unmodified"}}
  \cup {[q EXCEPT !.match = "other", !.since = "modified"] : q \in Sources}
  \cup {[q EXCEPT !.method = "HEAD", !.range = g] : q \in Sources, g \in {NoRange, From1}}
  \cup {[q EXCEPT !.method = "POST", !.range = From1] : q \in Sources}
  \cup {[q EXCEPT !.name = FALSE] : q \in Sources}
  \cup {[q EXCEPT !.keepalive = FALSE] : q \in Sources}
  \cup {[q EXCEPT !.authorized = FALSE] : q \in Sources}
  \cup {[Ask("cached") EXCEPT !.compressed = TRUE, !.range = From1]}
-----------------------------------------------------------------------------

\* What a part that is not looked at stays at.
NoReceive ==
  /\ r = Get /\ got = 0 /\ torn = FALSE /\ hdr = [FreshHeader EXCEPT !.gone = TRUE]
  /\ running = FALSE /\ pc = "done" /\ ok = FALSE /\ answers = << >>
  /\ handed = NotHanded /\ quit = TRUE

NoAPI ==
  /\ script \in [1 .. NReq -> {"get"}] /\ part = 0 /\ sock = << >> /\ clientOpen = TRUE
  /\ apiPc = "wait"
  /\ in = << >> /\ buf = << >> /\ again = FALSE /\ out = API!NoReply
  /\ closeWhenWritten = FALSE /\ armed = "in" /\ apiAnswers = << >>

NoFile ==
  /\ asked = Ask("missing") /\ file \in Files!Files /\ file.size = 0
  /\ cached = file /\ copy = file /\ changes = 0 /\ filePc = "done" /\ rep = file
  /\ slice = [start |-> 0, length |-> 0] /\ status = 404 /\ whole = TRUE
  /\ at = 0 /\ left = 0 /\ chunk = 0 /\ body = << >> /\ kept = FALSE
  /\ slow = FALSE /\ sameTime = FALSE

\* Of the rings' initial states one is enough.
NoAccept == ringCount = (CHOOSE n \in RingCounts : TRUE) /\ Accept!Init

MCInit ==
  \/ view = "receive" /\ Init /\ NoAPI /\ NoFile /\ NoAccept
  \/ view = "api" /\ API!Init /\ NoReceive /\ NoFile /\ NoAccept
  \/ view = "file" /\ Files!Init /\ NoReceive /\ NoAPI /\ NoAccept
  \/ view = "accept" /\ Accept!Init /\ NoReceive /\ NoAPI /\ NoFile

MCNext ==
  \/ view = "receive" /\ Next /\ UNCHANGED << view, apiVars, fileVars, acceptVars >>
  \/ view = "api" /\ API!Next /\ UNCHANGED << view, vars, fileVars, acceptVars >>
  \/ view = "file" /\ Files!Next /\ UNCHANGED << view, vars, apiVars, acceptVars >>
  \/ view = "accept" /\ Accept!Next /\ UNCHANGED << view, vars, apiVars, fileVars >>

MCSpec ==
  /\ MCInit /\ [][MCNext]_<< view, vars, apiVars, fileVars, acceptVars >>
  /\ WF_apiVars(view = "api" /\ API!Thread)

ExchangeSpec      == API!ExchangeSpec
AnsweredOrClosed  == API!AnsweredOrClosed
RangeAsAsked      == Files!RangeAsAsked
KeptInStep        == Files!KeptInStep
NotModifiedIsSame == Files!NotModifiedIsSame
NothingBeyond     == Files!NothingBeyond
KeptInStepSlow    == Files!KeptInStepSlow
OneRingAccepts    == Accept!OneRingAccepts
NeverDeaf         == Accept!NeverDeaf
=============================================================================
