---------------------------- MODULE MC_Connection ----------------------------
(* Small instances of Connection for TLC. *)
EXTENDS Connection

Req(target, disqualified, http11, conn) ==
  [target |-> target, disqualified |-> disqualified, http11 |-> http11,
   conn |-> conn]

\* One request of each kind the code treats differently.
MixedKinds ==
  { Req("cached", FALSE, TRUE, "none"), Req("cached", FALSE, FALSE, "keep-alive"),
    Req("cached", TRUE, TRUE, "none"), Req("other", FALSE, TRUE, "close"),
    Req("missing", FALSE, TRUE, "keep-alive") }

\* Plain requests for a cached file over HTTP/1.1.
PlainKinds == { Req("cached", FALSE, TRUE, "none") }
=============================================================================
