---------------------------- MODULE MCThreadPool ----------------------------
(* ThreadPool for TLC: clients and workers are interchangeable.            *)
EXTENDS ThreadPool, TLC

ClientSymmetry == Permutations(Clients)
Symmetry == Permutations(Clients) \cup Permutations(Workers)
=============================================================================
