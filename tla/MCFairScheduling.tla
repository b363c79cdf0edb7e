-------------------------- MODULE MCFairScheduling --------------------------
(* FairScheduling for TLC: clients and workers are interchangeable.        *)
EXTENDS FairScheduling, TLC

Symmetry == Permutations(Clients) \cup Permutations(Workers)
=============================================================================
