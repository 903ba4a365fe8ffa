------------------------------- MODULE MC_Uring -------------------------------
(***************************************************************************)
(* The connections of one ring (UringAPI), with the clients that come.     *)
(***************************************************************************)
EXTENDS UringInvariant

Clients == << {<< "get", "get" >>}, {<< "unsplit" >>}, {<< "get" >>} >>

\* One client that asks for more than its connection may hold.
OneClient == << {<< "get", "keep", "get" >>} >>

Symmetry == Permutations(Slots)
=============================================================================
