---------------------------- MODULE MC_SessionList ----------------------------
(* Small instances of SessionList for TLC. *)
EXTENDS SessionList, TLC

\* Neither threads nor tokens are compared or ordered.
ThreadsAndTokens == Permutations(Threads) \cup Permutations(Tokens)
=============================================================================
