--------------------------- MODULE MC_FreshThreads ---------------------------
(* Small instances of FreshThreads for TLC. *)
EXTENDS FreshThreads, TLC

ClientSymmetry == Permutations(Clients)
=============================================================================
