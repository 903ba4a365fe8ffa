------------------------------ MODULE APIProtocol ------------------------------
(***************************************************************************)
(* How the API transports cut a stream of bytes into requests              *)
(* (threads/apiProtocol.c), and the buffer in which a connection keeps     *)
(* bytes that are not a complete request yet.                              *)
(*                                                                         *)
(* A request is a sequence of units: its header block, then its body.  A   *)
(* unit knows its request, the request's kind and its place in it, which   *)
(* stands for what parsing the bytes would find.                           *)
(***************************************************************************)
EXTENDS Naturals, Sequences

CONSTANT API_MAX_REQUEST_SIZE   \* in units

\* get     a request without a body, after which the connection goes on
\* keep    a request with a body, after which the connection goes on
\* close   HTTP/1.0, or Connection: close
\* refused chunked, or a Content-Length that is no number
\* unsplit its request line cannot be split
\* huge    header and body together are past API_MAX_REQUEST_SIZE
RequestKinds == {"get", "keep", "close", "refused", "unsplit", "huge"}

Size(kind) == CASE kind = "keep" -> 2
                [] kind = "huge" -> API_MAX_REQUEST_SIZE + 1
                [] OTHER         -> 1

Request(n, kind) ==
  [at \in 1 .. Size(kind) |-> [req |-> n, kind |-> kind, at |-> at]]

\* ApiProtocol_NextFrame at the start of buf.
NextFrame(buf) ==
  IF buf = << >> \/ Head(buf).at # 1
  THEN "incomplete"
  ELSE CASE Head(buf).kind = "refused"          -> "refused"
         [] Len(buf) < Size(Head(buf).kind)     -> "incomplete"
         [] OTHER                               -> "ready"

TotalLength(buf) == Size(Head(buf).kind)
KeepAlive(buf)   == Head(buf).kind # "close"

\* ApiProtocol_Prepare: can the request line be split?
Prepared(buf) == Head(buf).kind # "unsplit"

\* ApiProtocol_PartialReserve and ApiProtocol_PartialAppend.
PartialFits(units) == units <= API_MAX_REQUEST_SIZE

\* ApiProtocol_PartialKeepTail: what stays of buf.
KeepTail(buf, consumed) == SubSeq(buf, consumed + 1, Len(buf))
=============================================================================
