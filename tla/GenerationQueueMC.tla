------------------------- MODULE GenerationQueueMC -------------------------
(* Instances of GenerationQueue for TLC. *)
EXTENDS GenerationQueue

\* Slots and request threads.
CONSTANTS image, render, c1, c2
=============================================================================
