---------------------------- MODULE RequestReceive ----------------------------
(***************************************************************************)
(* How a worker receives one request (network/recvHTTPHeader.c): recv into *)
(* a buffer that grows for a POST, the walk over the lines that have come  *)
(* (header_analysis/generic_header_tools.c), the framing of the body by    *)
(* Content-Length or in chunks (header_analysis/chunked_transfer.c), the   *)
(* refusals, 100 Continue, and the one final answer of                     *)
(* ServeClientKeepAliveLoop.                                               *)
(*                                                                         *)
(* A line is one unit of text followed by CR and LF, and recv may end      *)
(* after any unit.  A client that expects 100 Continue holds its body back *)
(* until it gets that or an answer.                                        *)
(***************************************************************************)
EXTENDS Integers, Sequences, SequencesExt

CONSTANTS
  MAX_HTTP_REQUEST_HEADER,               \* in units, as are the next two
  MAX_POST_TRANSACTION_SIZE,
  HTTP_POST_GROWTH_STEP_REQUEST_HEADER,
  ENABLE_POST,
  Requests       \* what clients send, see Plain

NoLength == -1     \* no Content-Length
BadLength == -2    \* no number, or given twice

\* A request: what its lines say, and the payload.  last says whether analysing
\* its last header line writes a zero over the CR that ends it, as happens to a
\* Content-Type with a boundary and to Authorization.
Plain(type, payload) ==
  [ type     |-> type,          \* GET, POST, PUT, BAD, or NONE
    hosts    |-> 1,             \* Host headers
    version  |-> 11,            \* HTTP/1.1
    chunked  |-> FALSE,
    coding   |-> TRUE,          \* it is in a transfer coding that is supported
    length   |-> IF payload = << >> THEN NoLength ELSE Len(payload),
    expect   |-> "nothing",     \* or "continue", or "other"
    last     |-> "plain",       \* or "cut"
    filler   |-> 0,             \* further header lines
    payload  |-> payload ]

EOL == << "CR", "LF" >>
Line(text) == << text >> \o EOL

SizeOf == [size0 |-> 0, size1 |-> 1, size2 |-> 2]
SizeLine(n) == CHOOSE u \in DOMAIN SizeOf : SizeOf[u] = n

\* A payload in chunks of two.
Chunks(payload) ==
  LET from[n \in 1 .. Len(payload) + 1] ==
        LET size == IF n < Len(payload) THEN 2 ELSE 1
        IN  IF n > Len(payload)
            THEN Line("size0") \o EOL
            ELSE Line(SizeLine(size)) \o SubSeq(payload, n, n + size - 1) \o EOL
                 \o from[n + size]
  IN  from[1]

Head_(r) ==
  Line("first") \o Line("host") \o Line("fields")
  \o FlattenSeq([n \in 1 .. r.filler |-> Line("filler")])
  \o Line("last") \o EOL

Wire(r) == Head_(r) \o (IF r.chunked THEN Chunks(r.payload) ELSE r.payload)

VARIABLES
  r,         \* the request the client sends
  got,       \* units of it received
  torn,      \* recv ended where an analysis in pieces goes wrong, see Tears
  hdr,       \* incomingHeader, see FreshHeader
  running,   \* instance->server_running
  pc,        \* "loop", "recv", "finish" behind the receive loop, or "done"
  ok,        \* successulHTTPTransaction
  answers,   \* statuses sent; 200 stands for the answer to a request that is served
  handed,    \* what is served: the body, POSTrequestBodySize and the number of parts
  quit       \* the loop was left because the client or the server gave up

vars == << r, got, torn, hdr, running, pc, ok, answers, handed, quit >>

FreshHeader ==
  [ raw       |-> << >>,                     \* headerRAW up to headerRAWSize
    max       |-> MAX_HTTP_REQUEST_HEADER,   \* MAXheaderRAWSize
    requested |-> 0,                         \* headerRAWRequestedSize
    headEnd   |-> 0,                         \* headerRAWHeadSize + 1, once it is known
    offset    |-> 0,                         \* parsingStartOffset
    known     |-> {},                        \* the header lines understood so far
    items     |-> 0,                         \* POSTItemNumber
    validated |-> FALSE,
    continued |-> FALSE,                     \* expectContinueSent
    sent      |-> FALSE,                     \* responseAlreadySent
    gone      |-> FALSE ]                    \* clientDisconnected

NotHanded == [body |-> << >>, size |-> 0, items |-> 0]

Init ==
  /\ r \in Requests
  /\ got = 0
  /\ torn = FALSE
  /\ hdr = FreshHeader
  /\ running = TRUE
  /\ pc = "loop"
  /\ ok = TRUE
  /\ answers = << >>
  /\ handed = NotHanded
  /\ quit = FALSE

-----------------------------------------------------------------------------
(* What the lines received so far say *)

Type(h)       == IF "first" \in h.known THEN r.type ELSE "NONE"
Hosts(h)      == IF "host" \in h.known THEN r.hosts ELSE 0
Fields(h)     == "fields" \in h.known
IsChunked(h)  == Fields(h) /\ r.chunked
HasLength(h)  ==
  Fields(h) /\ Type(h) = "POST" /\ r.length \notin {NoLength, BadLength}
ContentLength(h) == IF HasLength(h) THEN r.length ELSE 0
BoundaryKnown(h) == Type(h) = "POST" /\ "last" \in h.known /\ r.last = "cut"

\* HTTPHeaderScanForHeaderEndFromStart: up to where the first blank line ends.
HeaderEnd(raw) ==
  LET ends == {n \in 4 .. Len(raw) : SubSeq(raw, n - 3, n) = EOL \o EOL}
  IN  IF ends = {} THEN 0 ELSE CHOOSE n \in ends : \A m \in ends : n <= m

\* AnalyzeHTTPLineRequest and AnalyzePOSTLineRequest for the line that starts at
\* start and whose terminator is at i.  Only the start of the line is looked at,
\* and only the first line can be the request line.
AnalyzeLine(h, start, i) ==
  LET text == h.raw[start]
  IN  CASE text \in {"first", "host", "fields"} ->
             [h EXCEPT !.known = @ \cup {text}]
        [] text = "last" ->
             [h EXCEPT !.known = @ \cup {text},
                       !.raw[i] = IF r.last = "cut" THEN "NUL" ELSE @]
        [] text = "delim" /\ BoundaryKnown(h) -> [h EXCEPT !.items = @ + 1]
        [] OTHER -> h

\* CapRequestLengthToHeaderEnd
Limit(h) == IF IsChunked(h) /\ h.headEnd # 0 THEN h.headEnd ELSE Len(h.raw)

\* Mutant: the offset is advanced by the length of the line, without its end.
WalkStepByLine(w, i) ==
  IF w.skip
  THEN [w EXCEPT !.skip = FALSE]
  ELSE IF i > Limit(w.h) \/ i = w.start \/ w.h.raw[i] \notin {"CR", "LF"}
  THEN w
  ELSE LET h    == AnalyzeLine(w.h, w.start, i)
           both == i < Len(h.raw) /\ h.raw[i + 1] \in {"CR", "LF"}
           next == IF both THEN i + 2 ELSE i + 1
       IN  [h     |-> [h EXCEPT !.offset = @ + (i - w.start)],
            start |-> next, skip |-> both]

\* A step of the walk of keepAnalyzingHTTPHeader, at i in the line that starts at
\* w.start.  A CR or LF ends a line that is not empty, and one more is skipped if
\* it has arrived; at the start of a line it counts as text.
WalkStep(w, i) ==
  IF w.skip
  THEN [w EXCEPT !.skip = FALSE]
  ELSE IF i > Limit(w.h) \/ i = w.start \/ w.h.raw[i] \notin {"CR", "LF"}
  THEN w
  ELSE LET h    == AnalyzeLine(w.h, w.start, i)
           both == i < Len(h.raw) /\ h.raw[i + 1] \in {"CR", "LF"}
           next == IF both THEN i + 2 ELSE i + 1
       IN  [h |-> [h EXCEPT !.offset = next - 1], start |-> next, skip |-> both]

\* keepAnalyzingHTTPHeader
Analyzed(h0) ==
  LET h == IF h0.headEnd = 0 THEN [h0 EXCEPT !.headEnd = HeaderEnd(h0.raw)] ELSE h0
      w == [h |-> h, start |-> h.offset + 1, skip |-> FALSE]
  IN  FoldLeft(WalkStep, w, [n \in 1 .. Len(h.raw) - h.offset |-> h.offset + n]).h

-----------------------------------------------------------------------------
(* Framing *)

\* ValidateParsedRequest: the status of the first objection, or 0.
Objections(h) ==
  << << Hosts(h) > 1, 400 >>,
     << r.version = 11 /\ Hosts(h) = 0, 400 >>,
     << IsChunked(h) /\ HasLength(h), 400 >>,
     << Fields(h) /\ Type(h) = "POST" /\ r.length = BadLength, 400 >>,
     << Fields(h) /\ ~r.coding, 501 >>,
     << IsChunked(h) /\ Type(h) # "POST", 400 >>,
     << ContentLength(h) > MAX_POST_TRANSACTION_SIZE, 413 >>,
     << Fields(h) /\ r.expect = "other", 417 >>,
     << Fields(h) /\ r.expect = "continue" /\ Type(h) = "POST" /\ ~ENABLE_POST, 417 >> >>

Refusal(h) ==
  LET raised == SelectSeq(Objections(h), LAMBDA o : o[1])
  IN  IF Type(h) \in {"BAD", "NONE"} \/ raised = << >> THEN 0 ELSE raised[1][2]

\* WalkChunkedBody: how far the chunks in body are complete, and their data.  A
\* size line needs at least one digit.
ScanChunks(body) ==
  LET at(n)       == IF n <= Len(body) THEN body[n] ELSE "nothing"
      result(x)   == [is |-> x, data |-> << >>]
      from[n \in 1 .. Len(body) + 4, decoded \in 0 .. Len(body)] ==
        IF at(n) \notin DOMAIN SizeOf THEN result("bad")
        ELSE IF n + 2 > Len(body)     THEN result("incomplete")
        ELSE LET size == SizeOf[body[n]]
                 next == n + 3 + size
             IN  CASE decoded + size > MAX_POST_TRANSACTION_SIZE -> result("big")
                   [] size = 0 ->
                        result(IF n + 4 > Len(body) THEN "incomplete" ELSE "complete")
                   [] size # 0 /\ next + 1 > Len(body) -> result("incomplete")
                   [] OTHER ->
                        LET rest == from[next + 2, decoded + size]
                        IN  [rest EXCEPT !.data = SubSeq(body, n + 3, next - 1) \o @]
  IN  from[1, 0]

Body(h) == SubSeq(h.raw, h.headEnd + 1, Len(h.raw))

\* HTTPRequestIsComplete: More, Done, or the status it fails with.
More == 0
Done == 1

Complete(h) ==
  IF Type(h) = "POST"
  THEN IF h.headEnd = 0 THEN More
       ELSE IF IsChunked(h)
       THEN IF Len(h.raw) = h.headEnd THEN More
            ELSE CASE ScanChunks(Body(h)).is = "complete" -> Done
                   [] ScanChunks(Body(h)).is = "bad"      -> 400
                   [] ScanChunks(Body(h)).is = "big"      -> 413
                   [] OTHER ->
                        IF /\ Len(h.raw) >= h.max
                           /\ ~ENABLE_POST \/ h.max >= MAX_POST_TRANSACTION_SIZE
                        THEN 413 ELSE More
       ELSE CASE h.headEnd + ContentLength(h) > Len(h.raw) -> More
              [] h.headEnd + ContentLength(h) = Len(h.raw) -> Done
              [] OTHER -> IF HeaderEnd(h.raw) # 0 THEN Done ELSE More
  ELSE IF HeaderEnd(h.raw) # 0 THEN Done ELSE More

\* The size it asks for while it waits for the rest of a Content-Length.
Requested(h) ==
  LET total == h.headEnd + ContentLength(h)
  IN  IF Type(h) = "POST" /\ ~IsChunked(h) /\ h.headEnd # 0 /\ total > Len(h.raw)
      THEN total ELSE h.requested

\* growHeader: the new size, or 0.
Grown(h) ==
  LET wanted == IF h.requested # 0 THEN h.requested
                ELSE h.max + HTTP_POST_GROWTH_STEP_REQUEST_HEADER
  IN  IF h.requested > MAX_POST_TRANSACTION_SIZE \/ h.max >= MAX_POST_TRANSACTION_SIZE
      THEN 0
      ELSE IF wanted > MAX_POST_TRANSACTION_SIZE THEN MAX_POST_TRANSACTION_SIZE ELSE wanted

-----------------------------------------------------------------------------
(* The client *)

\* Up to where the client sends before it hears from the server.
Offered ==
  IF r.expect = "continue" /\ answers = << >> THEN Len(Head_(r)) ELSE Len(Wire(r))

\* Where recv may not end: between the CR and the LF of a line before one that is
\* looked for, before the blank line when the CR before it has been overwritten,
\* and where a chunk's size line is about to start.
Tears(n) ==
  LET wire == Wire(r)
      head == Len(Head_(r))
      body == r.chunked /\ n > head
  IN  /\ n < Len(wire)
      /\ \/ /\ ~body
            /\ n + 2 <= Len(wire)
            /\ wire[n] = "CR" /\ wire[n - 1] # "LF"
            /\ wire[n + 2] \in {"host", "fields", "last", "delim"}
         \/ r.last = "cut" /\ n \in head - 3 .. head - 1
         \/ body /\ wire[n + 1] \in DOMAIN SizeOf

-----------------------------------------------------------------------------
(* The receive loop *)

Leave(success, early) ==
  /\ ok' = success
  /\ pc' = "finish"
  /\ quit' = early

\* AbortRequestWithError
Abort(h, status) ==
  /\ hdr' = [h EXCEPT !.sent = TRUE]
  /\ answers' = Append(answers, status)
  /\ Leave(FALSE, FALSE)

Stop ==
  /\ running
  /\ running' = FALSE
  /\ UNCHANGED << r, got, torn, hdr, pc, ok, answers, handed, quit >>

\* The condition of the loop.  What has been received so far is not dropped when
\* the server stops.
Loop ==
  /\ pc = "loop"
  /\ IF running THEN pc' = "recv" /\ UNCHANGED << ok, quit >> ELSE Leave(ok, TRUE)
  /\ UNCHANGED << r, got, torn, hdr, running, answers, handed >>

\* Mutant: only a body with a Content-Length is asked for.
WantsContinueForLength(h) ==
  /\ Fields(h) /\ r.expect = "continue"
  /\ ~h.continued
  /\ h.headEnd # 0
  /\ Type(h) = "POST"
  /\ ContentLength(h) > 0

WantsContinue(h) ==
  /\ Fields(h) /\ r.expect = "continue"
  /\ ~h.continued
  /\ h.headEnd # 0
  /\ Type(h) = "POST"
  /\ IsChunked(h) \/ ContentLength(h) > 0

\* The request is not complete: 100 Continue is sent once, and a full buffer
\* grows.
GoOn(h) ==
  LET full == Len(h.raw) >= h.max /\ Type(h) = "POST" /\ ENABLE_POST
      told == [h EXCEPT !.continued = @ \/ WantsContinue(h)]
  IN  /\ answers' = IF WantsContinue(h) THEN Append(answers, 100) ELSE answers
      /\ IF full /\ Grown(h) = 0
         THEN hdr' = told /\ Leave(FALSE, FALSE)
         ELSE /\ hdr' = IF full THEN [told EXCEPT !.max = Grown(h)] ELSE told
              /\ pc' = "loop"
              /\ UNCHANGED << ok, quit >>

\* 100 Continue cannot be sent.
ContinueFails(h) ==
  /\ WantsContinue(h)
  /\ hdr' = h
  /\ Leave(FALSE, TRUE)
  /\ UNCHANGED answers

Recv ==
  /\ pc = "recv"
  /\ \E n \in got + 1 .. Offered :
       /\ n - got <= hdr.max - Len(hdr.raw)
       /\ got' = n
       /\ torn' = (torn \/ Tears(n))
       /\ LET a == Analyzed([hdr EXCEPT !.raw = @ \o SubSeq(Wire(r), got + 1, n)])
              v == [a EXCEPT !.validated = a.headEnd # 0]
              h == [v EXCEPT !.requested = Requested(v)]
              refusal == IF a.validated \/ a.headEnd = 0 THEN 0 ELSE Refusal(a)
              is == IF refusal # 0 THEN refusal ELSE Complete(v)
          IN  CASE is = More -> GoOn(h) \/ ContinueFails(h)
                [] is = Done -> hdr' = v /\ Leave(TRUE, FALSE) /\ UNCHANGED answers
                [] OTHER     -> Abort(v, is)
  /\ UNCHANGED << r, running, handed >>

\* recv returns 0: the client has shut down, or a buffer that does not grow is
\* full and recv is called with no space.
RecvNothing ==
  /\ pc = "recv"
  /\ Leave(FALSE, Len(hdr.raw) < hdr.max)
  /\ UNCHANGED << r, got, torn, hdr, running, answers, handed >>

\* Nothing came for as long as SO_RCVTIMEO.  A client that has sent nothing of
\* the request is taken to be gone.
RecvTimeout ==
  /\ pc = "recv"
  /\ Len(hdr.raw) < hdr.max
  /\ hdr' = [hdr EXCEPT !.gone = (hdr.raw = << >>)]
  /\ Leave(FALSE, TRUE)
  /\ UNCHANGED << r, got, torn, running, answers, handed >>

\* Behind the loop: the chunks are joined, and the request is served or its
\* failure answered, unless that has been done.  POSTrequestBodySize of a body
\* with a Content-Length is counted from the last byte of the header.
Served(h, body, size, items) ==
  /\ answers' = Append(answers, CASE Type(h) \in {"BAD", "NONE"} -> 400
                                  [] Type(h) \in {"GET", "POST"} -> 200
                                  [] OTHER -> 501)
  /\ handed' = IF Type(h) = "POST" /\ ENABLE_POST
               THEN [body |-> body, size |-> size, items |-> items] ELSE NotHanded

Finish ==
  /\ pc = "finish"
  /\ LET chunks == ScanChunks(Body(hdr))
         parts  == Len(SelectSeq(chunks.data, LAMBDA u : u = "delim"))
     IN  CASE ok /\ ~IsChunked(hdr) -> Served(hdr, Body(hdr), Len(Body(hdr)) + 1, hdr.items)
           [] ok /\ IsChunked(hdr) /\ chunks.is = "complete" ->
                Served(hdr, chunks.data, Len(chunks.data),
                       IF BoundaryKnown(hdr) THEN parts ELSE 0)
           [] ok /\ IsChunked(hdr) /\ chunks.is # "complete" ->
                /\ answers' = Append(answers, IF chunks.is = "big" THEN 413 ELSE 400)
                /\ UNCHANGED handed
           [] OTHER ->
                /\ answers' = IF hdr.sent \/ hdr.gone THEN answers ELSE Append(answers, 400)
                /\ UNCHANGED handed
  /\ pc' = "done"
  /\ UNCHANGED << r, got, torn, hdr, running, ok, quit >>
-----------------------------------------------------------------------------

Worker == Loop \/ Recv \/ RecvNothing \/ RecvTimeout \/ Finish

Next == Worker \/ Stop

Spec == Init /\ [][Next]_vars
-----------------------------------------------------------------------------
(* Properties *)

\* The answer to the request if it is looked at as a whole.
Understood == [FreshHeader EXCEPT !.known = {"first", "host", "fields", "last"}]

Capacity ==
  IF /\ r.type = "POST" /\ ENABLE_POST
     /\ MAX_POST_TRANSACTION_SIZE > MAX_HTTP_REQUEST_HEADER
  THEN MAX_POST_TRANSACTION_SIZE ELSE MAX_HTTP_REQUEST_HEADER

Answer ==
  LET tooBig == \/ Len(Wire(r)) > Capacity
                \/ Len(r.payload) > MAX_POST_TRANSACTION_SIZE
  IN  IF Len(Head_(r)) > Capacity     THEN 400
      ELSE IF Refusal(Understood) # 0 THEN Refusal(Understood)
      ELSE CASE r.type \in {"BAD", "NONE"}  -> 400
             [] r.type = "PUT"              -> 501
             [] r.type = "POST" /\ tooBig   -> IF r.chunked THEN 413 ELSE 400
             [] OTHER                       -> 200

Parts == IF r.last = "cut" THEN Len(SelectSeq(r.payload, LAMBDA u : u = "delim")) ELSE 0

\* However recv cuts a request, the worker gives the answer it gives to the
\* request in one piece, and hands on the payload the client sent with all its
\* parts: unless recv ends at one of the places Tears names.
AnsweredAsSent ==
  pc = "done" /\ ~torn /\ ~quit =>
    /\ Last(answers) = Answer
    /\ Answer = 200 /\ r.type = "POST" /\ ENABLE_POST =>
         handed.body = r.payload /\ handed.items = Parts

\* recv is only called for bytes that are going to come: neither a client that
\* waits for 100 Continue nor one that has sent everything is waited for.
NobodyWaits ==
  pc = "recv" /\ ~torn => got < Offered \/ Len(hdr.raw) >= hdr.max

\* Every request gets one final answer and before it at most one 100 Continue,
\* whatever goes wrong between them.
OneFinalAnswer ==
  /\ \A i \in DOMAIN answers : answers[i] = 100 => i = 1
  /\ Len(answers) <= 2
  /\ Len(answers) = 2 => answers[1] = 100
  /\ pc = "done" /\ ~hdr.gone => answers # << >> /\ Last(answers) # 100

\* A request in chunks whose header came without a tear is answered in full, no
\* matter how the chunks arrive.
ChunksInAnyPieces ==
  /\ pc = "done" /\ ~quit
  /\ r.chunked /\ Understood.known \subseteq hdr.known /\ hdr.headEnd = Len(Head_(r))
  => Last(answers) = Answer

\* What is handed on is what the client sent, also when the server stops.
NothingPartial == handed # NotHanded => handed.body = r.payload

\* The size that goes with a body is its size.
BodySizeExact == handed.size = Len(handed.body)

\* AnsweredAsSent, wherever recv ends.
AnsweredAsSentAnyhow == torn /\ pc = "done" /\ ~quit => Last(answers) = Answer
=============================================================================
