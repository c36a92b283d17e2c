---------------------------- MODULE MCRequester ----------------------------
(* Small instances of the requester for model checking. *)
EXTENDS Requester, TLC

Symmetry == Permutations(Peer) \cup Permutations(Fetcher)
=============================================================================
