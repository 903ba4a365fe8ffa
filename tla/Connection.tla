------------------------------ MODULE Connection ------------------------------
(***************************************************************************)
(* One client connection from accept to close: the epoll accept layer      *)
(* (threads/threadedServer.c), the epoll fast path for cached static files *)
(* (threads/epollFastPathServer.c), the hand-over to a worker thread and   *)
(* the worker's keep-alive loop (threads/clientServer.c,                   *)
(* network/recvHTTPHeader.c).                                              *)
(*                                                                         *)
(* The bytes on the socket are the requests 1..NReq in order; a request    *)
(* arrives in two parts so that a reader can find half of one.  What the   *)
(* properties tell apart in a request is its target, whether it carries a  *)
(* header the fast path leaves to the worker, its HTTP version and its     *)
(* Connection header.  The build is the default one: no TLS listener, no   *)
(* API handler, no password, KeepAlive on.  The server is not stopped (see *)
(* ServerLifecycle).                                                       *)
(***************************************************************************)
EXTENDS Naturals, Sequences, FiniteSets

CONSTANTS
  NReq,                              \* requests the client sends at most
  Kinds,                             \* the kinds of request it sends
  FASTPATH_MAX_PIPELINED_REQUESTS,   \* 64 in the code
  SockoptFails                       \* setSocketTimeouts may fail

RequestKinds ==
  [ target       : {"cached", "other", "missing"},
    disqualified : BOOLEAN,   \* Range, If-*, Accept-Encoding, ... present
    http11       : BOOLEAN,   \* HTTP/1.1 with its one Host, or HTTP/1.0
    conn         : {"none", "close", "keep-alive"} ]

ASSUME ConnectionAssumption ==
  /\ NReq \in Nat
  /\ Kinds \subseteq RequestKinds
  /\ FASTPATH_MAX_PIPELINED_REQUESTS \in Nat \ {0}
  /\ SockoptFails \in BOOLEAN

VARIABLES
  script,      \* the requests of this client
  pipelining,  \* it does not wait for answers
  sent,        \* complete requests in or past the socket buffer
  partial,     \* the first part of request sent+1 has arrived too
  clientOpen,  \* the client has not shut its end down
  read,        \* requests taken out of the socket buffer
  torn,        \* the first part of request read+1 was taken out and dropped
  headerRAW,   \* the worker's buffer: "empty", or the "part" of request read+1
  owner,       \* which code holds the descriptor
  epoll,       \* the descriptor's entry in the epoll set
  live,        \* the structure that entry points to is allocated
  iterations,  \* EpollFastPath_TryServe's counter
  current,     \* the request being answered
  pwKeepalive, \* FastPathPendingWrite.keepalive
  answers      \* the answers sent, as numbers of requests; 0: not a request

vars == << script, pipelining, sent, partial, clientOpen, read, torn, headerRAW,
           owner, epoll, live, iterations, current, pwKeepalive, answers >>

wire    == << script, pipelining, sent, partial, clientOpen >>
reading == << read, torn, headerRAW >>
event   == << epoll, live >>

Owners == {"backlog", "epoll", "fastpath", "write", "dispatch", "start", "recv",
           "serve", "closed", "leaked"}

TypeOK ==
  /\ script \in [1 .. NReq -> Kinds]
  /\ pipelining \in BOOLEAN
  /\ sent \in 0 .. NReq
  /\ partial \in BOOLEAN
  /\ partial => sent < NReq
  /\ clientOpen \in BOOLEAN
  /\ read \in 0 .. sent
  /\ torn \in BOOLEAN
  /\ headerRAW \in {"empty", "part"}
  /\ owner \in Owners
  /\ epoll \in {"none", "in", "out", "disarmed"}
  /\ live \in BOOLEAN
  /\ iterations \in 0 .. FASTPATH_MAX_PIPELINED_REQUESTS
  /\ current \in 0 .. NReq
  /\ pwKeepalive \in BOOLEAN
  /\ answers \in Seq(0 .. NReq)

Init ==
  /\ script \in [1 .. NReq -> Kinds]
  /\ pipelining \in BOOLEAN
  /\ sent = 0
  /\ partial = FALSE
  /\ clientOpen = TRUE
  /\ read = 0
  /\ torn = FALSE
  /\ headerRAW = "empty"
  /\ owner = "backlog"
  /\ epoll = "none"
  /\ live = FALSE
  /\ iterations = 0
  /\ current = 0
  /\ pwKeepalive = FALSE
  /\ answers = << >>

-----------------------------------------------------------------------------
(* The client *)

\* A part of the next request arrives; a client that does not pipeline waits
\* for the answer to the previous one.
ClientSendsPart ==
  /\ clientOpen
  /\ sent < NReq
  /\ ~partial
  /\ pipelining \/ Len(answers) = sent
  /\ partial' = TRUE
  /\ UNCHANGED << script, pipelining, sent, clientOpen, reading, owner, event,
                  iterations, current, pwKeepalive, answers >>

\* The rest of it arrives.
ClientSendsRest ==
  /\ clientOpen
  /\ partial
  /\ partial' = FALSE
  /\ sent' = sent + 1
  /\ UNCHANGED << script, pipelining, clientOpen, reading, owner, event,
                  iterations, current, pwKeepalive, answers >>

\* The client shuts its end down.
ClientCloses ==
  /\ clientOpen
  /\ clientOpen' = FALSE
  /\ UNCHANGED << script, pipelining, sent, partial, reading, owner, event,
                  iterations, current, pwKeepalive, answers >>

\* recv and epoll find something to report.
Readable == sent > read \/ (partial /\ ~torn /\ headerRAW = "empty") \/ ~clientOpen

-----------------------------------------------------------------------------
(* drain_and_dispatch and EpollAcceptLayerThread *)

\* close(clientsock), which also removes it from the epoll set.
Close ==
  /\ owner' = "closed"
  /\ epoll' = "none"

\* accept4, then PendingAccept is registered with EPOLLIN|EPOLLONESHOT; if that
\* fails the accept loop dispatches the connection itself.
Accept ==
  /\ owner = "backlog"
  /\ \/ /\ owner' = "epoll"
        /\ epoll' = "in"
        /\ live' = TRUE
     \/ /\ owner' = "dispatch"
        /\ UNCHANGED event
  /\ UNCHANGED << wire, reading, iterations, current, pwKeepalive, answers >>

\* The event: EPOLL_CTL_DEL, free(pending), and then the fast path.
FirstByte ==
  /\ epoll = "in"
  /\ Readable
  /\ epoll' = "none"
  /\ live' = FALSE
  /\ owner' = "fastpath"
  /\ iterations' = 0
  /\ UNCHANGED << wire, reading, current, pwKeepalive, answers >>

\* A prespawned or fresh thread takes the connection, or it is closed.
Dispatch ==
  /\ owner = "dispatch"
  /\ \/ owner' = "start" /\ UNCHANGED epoll
     \/ Close
  /\ UNCHANGED << wire, reading, live, iterations, current, pwKeepalive,
                  answers >>

-----------------------------------------------------------------------------
(* EpollFastPath_TryServe and TryServeOneRequest *)

\* MSG_PEEK shows the next request and whatever of the following ones fits in
\* FASTPATH_PEEK_CAP bytes; the header tests look at all of it.
Peeked == {(read + 1) .. v : v \in (read + 1) .. (sent + (IF partial THEN 1 ELSE 0))}

Eligible(p) ==
  LET r == read + 1 IN
  /\ sent > read
  /\ \A q \in p : ~script[q].disqualified
  /\ script[r].http11 => Cardinality({q \in p : script[q].http11}) = 1
  /\ script[r].target = "cached"

\* HTTP/1.1: unless a "Connection: close" is in sight; HTTP/1.0: opt in.
KeepaliveInSight(p) ==
  IF script[read + 1].http11
    THEN \A q \in p : script[q].conn # "close"
    ELSE \E q \in p : script[q].conn = "keep-alive"

\* Not eligible: nothing is consumed, and a worker gets the connection, from
\* EpollAcceptLayerThread or from DispatchContinuationToWorker.
FastPathIneligible ==
  /\ owner = "fastpath"
  /\ sent = read \/ \E p \in Peeked : ~Eligible(p)
  /\ owner' = "dispatch"
  /\ UNCHANGED << wire, reading, event, iterations, current, pwKeepalive,
                  answers >>

\* The header is consumed, and the whole response fits in one send.
FastPathServes ==
  /\ owner = "fastpath"
  /\ \E p \in Peeked :
       /\ Eligible(p)
       /\ read' = read + 1
       /\ answers' = Append(answers, read + 1)
       /\ iterations' = iterations + 1
       /\ IF ~KeepaliveInSight(p) THEN Close
          ELSE /\ owner' = IF iterations' = FASTPATH_MAX_PIPELINED_REQUESTS
                             THEN "dispatch" ELSE "fastpath"
               /\ UNCHANGED epoll
  /\ UNCHANGED << wire, torn, headerRAW, live, current, pwKeepalive >>

\* Mutant: what the first send took is sent again.
FastPathDefersTwice ==
  /\ owner = "fastpath"
  /\ \E p \in Peeked :
       /\ Eligible(p)
       /\ pwKeepalive' = KeepaliveInSight(p)
  /\ answers' = Append(answers, read + 1)
  /\ read' = read + 1
  /\ current' = read + 1
  /\ owner' = "write"
  /\ epoll' = "out"
  /\ live' = TRUE
  /\ UNCHANGED << wire, torn, headerRAW, iterations >>

\* The header is consumed, but the socket takes only a part of the response:
\* the rest waits for EPOLLOUT.
FastPathDefers ==
  /\ owner = "fastpath"
  /\ \E p \in Peeked :
       /\ Eligible(p)
       /\ pwKeepalive' = KeepaliveInSight(p)
  /\ read' = read + 1
  /\ current' = read + 1
  /\ owner' = "write"
  /\ epoll' = "out"
  /\ live' = TRUE
  /\ UNCHANGED << wire, torn, headerRAW, iterations, answers >>

\* The header is consumed, but memory, send or epoll_ctl fails.
FastPathFails ==
  /\ owner = "fastpath"
  /\ \E p \in Peeked : Eligible(p)
  /\ read' = read + 1
  /\ Close
  /\ UNCHANGED << wire, torn, headerRAW, live, iterations, current, pwKeepalive,
                  answers >>

\* Mutant: EPOLLONESHOT left out.
ResumeWriteStaysArmed ==
  /\ epoll = "out"
  /\ live' = FALSE
  /\ \/ /\ answers' = Append(answers, current)
        /\ IF pwKeepalive THEN owner' = "dispatch" /\ UNCHANGED epoll ELSE Close
     \/ /\ Close
        /\ UNCHANGED answers
  /\ UNCHANGED << wire, reading, iterations, current, pwKeepalive >>

\* Mutant: a kept connection is handed to nobody.
ResumeWriteKeeps ==
  /\ epoll = "out"
  /\ live' = FALSE
  /\ \/ /\ answers' = Append(answers, current)
        /\ IF pwKeepalive THEN epoll' = "disarmed" /\ UNCHANGED owner ELSE Close
     \/ /\ Close
        /\ UNCHANGED answers
  /\ UNCHANGED << wire, reading, iterations, current, pwKeepalive >>

\* EpollFastPath_ResumeWrite: the client has read so much that the oneshot event has
\* fired and the rest goes out (an EAGAIN only rearms it), or the peer is gone; pw is
\* freed either way.
ResumeWrite ==
  /\ epoll = "out"
  /\ live' = FALSE
  /\ \/ /\ answers' = Append(answers, current)
        /\ IF pwKeepalive THEN owner' = "dispatch" /\ epoll' = "disarmed" ELSE Close
     \/ /\ Close
        /\ UNCHANGED answers
  /\ UNCHANGED << wire, reading, iterations, current, pwKeepalive >>

-----------------------------------------------------------------------------
(* The worker: ServeClientInternal and receiveAndParseIncomingHTTPRequest *)

\* setSocketTimeouts fails: the thread gives up without closing.
WorkerSkips ==
  /\ owner = "start"
  /\ SockoptFails
  /\ owner' = "leaked"
  /\ UNCHANGED << wire, reading, event, iterations, current, pwKeepalive,
                  answers >>

\* Socket timeouts set, the client is not banned: into the keep-alive loop.
WorkerStarts ==
  /\ owner = "start"
  /\ owner' = "recv"
  /\ UNCHANGED << wire, reading, event, iterations, current, pwKeepalive,
                  answers >>

\* recv returns a part of a request; the loop asks for more.
RecvPart ==
  /\ owner = "recv"
  /\ sent = read
  /\ partial
  /\ ~torn
  /\ headerRAW = "empty"
  /\ headerRAW' = "part"
  /\ UNCHANGED << wire, read, torn, owner, event, iterations, current,
                  pwKeepalive, answers >>

\* recv returns the end of a request and as much of what is behind it as fits
\* in headerRAW.  The first request in the buffer is the one that is answered;
\* the rest of it is dropped when the next request is received into a new one.
RecvRequest ==
  /\ owner = "recv"
  /\ sent > read
  /\ current' = IF torn THEN 0 ELSE read + 1
  /\ read' \in (read + 1) .. sent
  /\ torn' \in {FALSE, read' < sent \/ partial}
  /\ headerRAW' = "empty"
  /\ owner' = "serve"
  /\ UNCHANGED << wire, event, iterations, pwKeepalive, answers >>

\* SO_RCVTIMEO expires: a kept connection is closed silently, half a request is
\* answered with a 400 first.
RecvTimesOut ==
  /\ owner = "recv"
  /\ sent = read
  /\ answers' = IF headerRAW = "empty" THEN answers ELSE Append(answers, 0)
  /\ Close
  /\ UNCHANGED << wire, reading, live, iterations, current, pwKeepalive >>

\* The client has shut its end down and there is nothing left to read: recv
\* returns 0, clientDisconnected stays 0 and so a 400 is sent.
RecvShutDown ==
  /\ owner = "recv"
  /\ ~clientOpen
  /\ sent = read
  /\ partial => torn \/ headerRAW = "part"
  /\ answers' = Append(answers, 0)
  /\ Close
  /\ UNCHANGED << wire, reading, live, iterations, current, pwKeepalive >>

\* What an answered request leaves the connection in: only a served file or
\* page keeps it, and only if the request wants it kept.
KeptByWorker(r) ==
  /\ r # 0
  /\ script[r].target # "missing"
  /\ \/ script[r].conn = "keep-alive"
     \/ script[r].conn = "none" /\ script[r].http11

\* ServeClientKeepAliveLoop sends the file, the page or the error.
WorkerAnswers ==
  /\ owner = "serve"
  /\ answers' = Append(answers, current)
  /\ IF KeptByWorker(current) THEN owner' = "recv" /\ UNCHANGED epoll ELSE Close
  /\ UNCHANGED << wire, reading, live, iterations, current, pwKeepalive >>

\* Sending fails: the connection is closed.
WorkerFails ==
  /\ owner = "serve"
  /\ Close
  /\ UNCHANGED << wire, reading, live, iterations, current, pwKeepalive,
                  answers >>

-----------------------------------------------------------------------------
\* What the server does without the client: the socket timeouts of a worker end its
\* waiting for one.
ServerAlone ==
  \/ Accept \/ FirstByte \/ Dispatch
  \/ FastPathIneligible \/ FastPathServes \/ FastPathDefers \/ FastPathFails
  \/ WorkerSkips \/ WorkerStarts \/ RecvPart \/ RecvRequest \/ RecvTimesOut
  \/ RecvShutDown
  \/ WorkerAnswers \/ WorkerFails

\* A deferred write has no timeout: it goes on when the client reads.
Server == ServerAlone \/ ResumeWrite

Next == ClientSendsPart \/ ClientSendsRest \/ ClientCloses \/ Server

Spec == Init /\ [][Next]_vars

\* The server's threads run and its socket timeouts expire; the client owes
\* nothing, not even to read what it has been sent.
FairSpec == Spec /\ WF_vars(ServerAlone)

-----------------------------------------------------------------------------
(* Properties *)

\* The hand-overs between the accept layer, the fast path, a deferred write and
\* a worker are invisible to the client: however its requests are split and
\* batched, no request is answered twice or after a later one, and for a client
\* that waits request n gets answer n.
Exchange == INSTANCE HTTPExchange WITH
              requested <- sent,
              answered <- answers,
              open <- owner \notin {"closed", "leaked"}

ExchangeSpec == Exchange!Spec

\* An entry of the epoll set that can still fire points to memory that has not
\* been freed: the oneshot registrations are used up or deleted before the
\* PendingAccept or FastPathPendingWrite behind them goes.
NoEventOnFreedMemory == epoll \in {"in", "out"} => live

\* A complete request is answered, or the server ends the connection ("leaked"
\* is the worker that could not set its socket timeouts), or the client leaves a
\* deferred answer of the fast path unread, for which the server waits without end.
AnsweredOrClosed ==
  [](owner # "backlog" /\ sent > Len(answers)
       => <>(sent <= Len(answers) \/ owner \in {"closed", "leaked"} \/ [](epoll = "out")))

\* The client that does not read is given up after some time.
DeferredWriteEnds == epoll = "out" ~> epoll # "out"

\* Whoever ends up serving what comes next, every answer is for the request the
\* client takes it for (0 is the error before a close).
AnswersMatch == \A i \in 1 .. Len(answers) : answers[i] \in {i, 0}

\* The fast path serves a cached file whenever the next request on the socket
\* asks for one plainly, unless it has reached its limit of pipelined requests.
FastPathServesPipelined ==
  [][ owner = "fastpath" /\ owner' = "dispatch" =>
        \/ iterations' = FASTPATH_MAX_PIPELINED_REQUESTS
        \/ sent = read
        \/ script[read + 1].disqualified
        \/ script[read + 1].target # "cached" ]_vars

\* A connection is kept only for a client that asked for it.
KeepAliveIsOptIn ==
  [][ owner = "serve" /\ owner' = "recv" =>
        script[current].conn = "keep-alive" ]_vars
=============================================================================
