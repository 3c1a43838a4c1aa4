-------------------------- MODULE ContinuityChainMC --------------------------
(* Instances of ContinuityChain for TLC. *)
EXTENDS ContinuityChain, TLC

CONSTANTS a, b, c1, c2, v1, v2

\* Facts, versions and threads are interchangeable.
ChainSymmetry == Permutations(Facts) \cup Permutations(Versions) \cup Permutations(Clients)
=============================================================================
