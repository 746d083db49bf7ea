---------------------------- MODULE MCHeadPolicy ----------------------------
(* TLC instance of HeadPolicy: requests, sources and hashes are interchangeable. *)
EXTENDS HeadPolicy, TLC

Symmetry ==
  Permutations(Requests) \cup Permutations(Sources) \cup Permutations(Hashes)

=============================================================================
