------------------------------- MODULE EpollAPI -------------------------------
(***************************************************************************)
(* One API connection on the accept layer's epoll thread                   *)
(* (threads/epollAPIServer.c): reading into the shared scratch buffer or   *)
(* on top of a partial request, answering every complete request in hand,  *)
(* and deferring to EPOLLOUT what the socket would not take.               *)
(*                                                                         *)
(* One thread serves all connections and each borrows the scratch buffer   *)
(* for one pass only, so one connection shows what happens to each.  A     *)
(* step ends where the thread calls recv or send, between which the client *)
(* goes on.  Allocations succeed; the cap on the partial buffer is kept.   *)
(***************************************************************************)
EXTENDS APIProtocol

CONSTANTS
  NReq,      \* requests the client sends at most
  Kinds      \* their kinds

VARIABLES
  script,           \* the kinds of the requests the client has not sent to their end
  part,             \* the units it has sent of the first of these
  sock,             \* the units in the socket's receive buffer
  clientOpen,       \* the client has not shut its end down
  pc,               \* "wait" in epoll_wait, or "read", "serve", "write", "closed"
  in,               \* conn->in
  buf,              \* what ServeBufferedApiRequests has not consumed
  again,            \* the last read filled the space it was offered
  out,              \* conn->out: the request its response answers, or NoReply
  closeWhenWritten,
  armed,            \* the events the connection is registered for
  answers           \* the responses sent, as numbers of requests; 0: status only

vars == << script, part, sock, clientOpen, pc, in, buf, again, out, closeWhenWritten,
           armed, answers >>

client == << script, part, clientOpen >>
reply  == << out, closeWhenWritten, armed, answers >>

NoReply == NReq + 1

Init ==
  /\ script \in [1 .. NReq -> Kinds]
  /\ part = 0
  /\ sock = << >>
  /\ clientOpen = TRUE
  /\ pc = "wait"
  /\ in = << >>
  /\ buf = << >>
  /\ again = FALSE
  /\ out = NoReply
  /\ closeWhenWritten = FALSE
  /\ armed = "in"
  /\ answers = << >>

-----------------------------------------------------------------------------
(* The client *)

\* The requests the client has sent to their end, and its next unit.
Requested == NReq - Len(script)
NextUnit  == [req |-> Requested + 1, kind |-> Head(script), at |-> part + 1]

ClientSends ==
  /\ clientOpen
  /\ script # << >>
  /\ sock' = Append(sock, NextUnit)
  /\ IF part + 1 = Size(Head(script))
     THEN script' = Tail(script) /\ part' = 0
     ELSE part' = part + 1 /\ UNCHANGED script
  /\ UNCHANGED << clientOpen, pc, in, buf, again, reply >>

ClientCloses ==
  /\ clientOpen
  /\ clientOpen' = FALSE
  /\ UNCHANGED << script, part, sock, pc, in, buf, again, reply >>

-----------------------------------------------------------------------------
(* The thread *)

\* CloseApiConnection, whatever has been sent before it.
Close ==
  /\ pc' = "closed"
  /\ in' = << >>
  /\ buf' = << >>
  /\ out' = NoReply
  /\ UNCHANGED << again, closeWhenWritten, armed >>

\* EpollAPI_HandleEvent: a response that is left over decides what is done, not
\* the event.  EPOLLRDHUP is reported with either registration.
Event ==
  /\ pc = "wait"
  /\ \/ armed = "in" /\ sock # << >>
     \/ armed = "out"
     \/ ~clientOpen
  /\ pc' = IF out # NoReply THEN "write" ELSE "read"
  /\ UNCHANGED << client, sock, in, buf, again, reply >>

\* EPOLLERR or EPOLLHUP: the client has reset the connection.
EventError ==
  /\ pc = "wait"
  /\ ~clientOpen
  /\ Close
  /\ UNCHANGED << client, sock, answers >>

\* Mutant: what was received behind the request is dropped with the scratch buffer.
SendDropsRest(request, rest, last, goOn) ==
  \/ /\ ~last
     /\ answers' = Append(answers, request)
     /\ goOn
     /\ UNCHANGED << out, closeWhenWritten, armed >>
  \/ /\ last
     /\ answers' = Append(answers, request)
     /\ Close
  \/ /\ out' = request
     /\ closeWhenWritten' = last
     /\ armed' = "out"
     /\ pc' = "wait"
     /\ in' = << >>
     /\ buf' = << >>
     /\ UNCHANGED << again, answers >>

\* SendApiResponse: all of it goes out, the socket takes a part of it and the
\* rest waits for EPOLLOUT, or the client is gone.  rest is what the thread has
\* in hand behind the request, and goOn what it does next if nothing is left
\* over.
Send(request, rest, last, goOn) ==
  \/ /\ ~last
     /\ answers' = Append(answers, request)
     /\ goOn
     /\ UNCHANGED << out, closeWhenWritten, armed >>
  \/ /\ last
     /\ answers' = Append(answers, request)
     /\ Close
  \/ /\ out' = request
     /\ closeWhenWritten' = last
     /\ armed' = "out"
     /\ pc' = "wait"
     /\ in' = rest
     /\ buf' = << >>
     /\ UNCHANGED << again, answers >>
  \/ /\ Close
     /\ UNCHANGED answers

\* HandleApiReadable up to recv.  A capped buffer with no complete request in it
\* is answered with a 413.
ReadTooLarge ==
  /\ pc = "read"
  /\ Len(in) >= API_MAX_REQUEST_SIZE
  /\ Send(0, in, TRUE, FALSE)
  /\ UNCHANGED << client, sock >>

\* A partial request is read on top of, into as much of its buffer as is
\* allocated; else the scratch buffer is offered.
Space == IF in = << >> THEN {API_MAX_REQUEST_SIZE}
                       ELSE 1 .. API_MAX_REQUEST_SIZE - Len(in)

Read ==
  /\ pc = "read"
  /\ Len(in) < API_MAX_REQUEST_SIZE
  /\ sock # << >>
  /\ \E space \in Space :
       LET taken == IF Len(sock) < space THEN Len(sock) ELSE space
       IN  /\ buf' = in \o SubSeq(sock, 1, taken)
           /\ sock' = SubSeq(sock, taken + 1, Len(sock))
           /\ again' = (taken = space)
  /\ pc' = "serve"
  /\ UNCHANGED << client, in, reply >>

ReadNothing ==
  /\ pc = "read"
  /\ Len(in) < API_MAX_REQUEST_SIZE
  /\ sock = << >>
  /\ clientOpen
  /\ pc' = "wait"
  /\ UNCHANGED << client, sock, in, buf, again, reply >>

\* recv returns 0, or an error.
ReadEnd ==
  /\ pc = "read"
  /\ Len(in) < API_MAX_REQUEST_SIZE
  /\ ~clientOpen
  /\ Close
  /\ UNCHANGED << client, sock, answers >>

\* ServeBufferedApiRequests has nothing left that is complete: the rest is kept
\* and, if the read filled its space, the socket is read again.
ServeRest ==
  /\ pc = "serve"
  /\ NextFrame(buf) = "incomplete"
  /\ in' = KeepTail(buf, 0)
  /\ buf' = << >>
  /\ again' = FALSE
  /\ pc' = IF again THEN "read" ELSE "wait"
  /\ UNCHANGED << client, sock, reply >>

ServeRefused ==
  /\ pc = "serve"
  /\ NextFrame(buf) = "refused"
  /\ Send(0, buf, TRUE, FALSE)
  /\ UNCHANGED << client, sock >>

\* The next request is consumed, its handler called and the response sent; a
\* request line that cannot be split, or a response whose header does not fit,
\* is answered with a status.
Serve ==
  /\ pc = "serve"
  /\ NextFrame(buf) = "ready"
  /\ LET rest == KeepTail(buf, TotalLength(buf))
         goOn == buf' = rest /\ UNCHANGED << pc, in, again >>
     IN  \/ /\ Prepared(buf)
            /\ Send(Head(buf).req, rest, ~KeepAlive(buf), goOn)
         \/ Send(0, rest, TRUE, FALSE)
  /\ UNCHANGED << client, sock >>

\* Mutant: what is in hand waits for the next event.
WrittenWaits ==
  /\ pc = "write"
  /\ answers' = Append(answers, out)
  /\ IF closeWhenWritten
     THEN Close
     ELSE /\ out' = NoReply
          /\ armed' = "in"
          /\ pc' = "wait"
          /\ UNCHANGED << in, buf, again, closeWhenWritten >>
  /\ UNCHANGED << client, sock >>

\* HandleApiWritable: the socket takes the rest.  What was received behind the
\* request is in hand already and is served at once.
Written ==
  /\ pc = "write"
  /\ answers' = Append(answers, out)
  /\ IF closeWhenWritten
     THEN Close
     ELSE /\ out' = NoReply
          /\ armed' = "in"
          /\ again' = FALSE
          /\ buf' = in
          /\ pc' = IF in # << >> THEN "serve" ELSE "wait"
          /\ UNCHANGED << in, closeWhenWritten >>
  /\ UNCHANGED << client, sock >>

\* It takes none of it.
StillFull ==
  /\ pc = "write"
  /\ pc' = "wait"
  /\ UNCHANGED << client, sock, in, buf, again, reply >>

WriteFails ==
  /\ pc = "write"
  /\ Close
  /\ UNCHANGED << client, sock, answers >>
-----------------------------------------------------------------------------

Thread ==
  \/ Event \/ EventError
  \/ ReadTooLarge \/ Read \/ ReadNothing \/ ReadEnd
  \/ ServeRest \/ ServeRefused \/ Serve
  \/ Written \/ StillFull \/ WriteFails

Next == ClientSends \/ ClientCloses \/ Thread

\* The thread goes on; a client need not read its responses.
Spec == Init /\ [][Next]_vars /\ WF_vars(Thread)
-----------------------------------------------------------------------------
(* Properties *)

\* The connection implements the exchange its client relies on, and skips no
\* request even if the client pipelines: pipelined requests wait behind a
\* response that is left over, in order, and none of them is lost.
Exchange ==
  INSTANCE HTTPExchange WITH pipelining <- FALSE, requested <- Requested,
                             answered <- answers, open <- pc # "closed"
ExchangeSpec == Exchange!Spec

\* A request that has been received completely is answered, or the connection
\* ends: none stays in the partial buffer behind a response that has gone out.  Behind
\* one that the client leaves unread it does, as there is no timeout.
Answered(n) == \E i \in DOMAIN answers : answers[i] = n
AnsweredOrClosed ==
  \A n \in 1 .. NReq :
    Requested >= n ~> (Answered(n) \/ pc = "closed" \/ [](out # NoReply))
=============================================================================
