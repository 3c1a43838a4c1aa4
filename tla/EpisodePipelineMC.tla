-------------------------- MODULE EpisodePipelineMC --------------------------
(* Instances of EpisodePipeline for TLC. *)
EXTENDS EpisodePipeline, TLC

CONSTANTS o1, o2

\* Operations are interchangeable.
OpSymmetry == Permutations(Ops)
=============================================================================
