----------------------------- MODULE HTTPExchange -----------------------------
(***************************************************************************)
(* What a client may rely on when it talks to the server over one          *)
(* connection: requests are answered in order, each at most once, until    *)
(* the server ends the connection, and none is skipped if the client waits *)
(* for its answers.  Which thread does it, and how often the connection    *)
(* changes hands, is not visible.                                          *)
(***************************************************************************)
EXTENDS Naturals, Sequences

CONSTANT NReq  \* requests the client may send

VARIABLES
  pipelining,  \* the client does not wait for answers
  requested,   \* complete requests the client has sent
  answered,    \* the answers, each the number of the request it is for
  open         \* the server still holds the connection

vars == << pipelining, requested, answered, open >>

Init ==
  /\ pipelining \in BOOLEAN
  /\ requested = 0
  /\ answered = << >>
  /\ open = TRUE

\* The client completes its next request.
Ask ==
  /\ requested < NReq
  /\ requested' = requested + 1
  /\ UNCHANGED << pipelining, answered, open >>

LastAnswered == IF answered = << >> THEN 0 ELSE answered[Len(answered)]

\* The server answers a request later than all it has answered, the next one
\* if the client waits; it may end the connection with it.
Answer ==
  /\ open
  /\ \E r \in (LastAnswered + 1) .. requested :
       /\ pipelining \/ r = LastAnswered + 1
       /\ answered' = Append(answered, r)
  /\ open' \in BOOLEAN
  /\ UNCHANGED << pipelining, requested >>

\* The server ends the connection, perhaps with an error (0) that answers no
\* request: the client left one unfinished, or left.
End ==
  /\ open
  /\ open' = FALSE
  /\ answered' \in {answered, Append(answered, 0)}
  /\ UNCHANGED << pipelining, requested >>

Next == Ask \/ Answer \/ End

Spec == Init /\ [][Next]_vars
=============================================================================
