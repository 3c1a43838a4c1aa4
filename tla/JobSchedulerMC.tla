--------------------------- MODULE JobSchedulerMC ---------------------------
(* Instances of JobScheduler for TLC. *)
EXTENDS JobScheduler

CONSTANTS h1

\* Tasks are processed in the order of their numbers; 1 depends on 2, so that a
\* task is also met before its dependency has been looked at.
LateDependency == [t \in Tasks |-> IF t = 1 THEN {2} ELSE {}]
=============================================================================
