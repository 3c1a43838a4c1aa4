------------------------- MODULE GenerationLifecycle -------------------------
(***************************************************************************)
(* What the generation queue promises for each row, without queue, worker, *)
(* provider, lease or crash: a submitted row stays open until it delivers  *)
(* its output, once, or is closed without one; a cancel request on a row   *)
(* in progress can only end in "cancelled".                                *)
(***************************************************************************)
CONSTANT Gen

VARIABLES
  stage,      \* what a user can rely on about each row
  delivered   \* the rows whose output stands in a version group

Stages == {"none", "open", "stopping", "done", "failed", "cancelled"}

Init ==
  /\ stage = [g \in Gen |-> "none"]
  /\ delivered = {}

Submit(g) ==
  /\ stage[g] = "none"
  /\ stage' = [stage EXCEPT ![g] = "open"]
  /\ UNCHANGED delivered

\* The output and the end of the row become visible together.
Deliver(g) ==
  /\ stage[g] = "open"
  /\ stage' = [stage EXCEPT ![g] = "done"]
  /\ delivered' = delivered \cup {g}

RequestStop(g) ==
  /\ stage[g] = "open"
  /\ stage' = [stage EXCEPT ![g] = "stopping"]
  /\ UNCHANGED delivered

\* How a row may end without output.
ClosedFrom(st) ==
  CASE st = "open"     -> {"failed", "cancelled"}
    [] st = "stopping" -> {"cancelled"}
    [] OTHER           -> {}

\* Some rows close: one after its run, or several in one recovery sweep.
Close(S) ==
  /\ stage' \in [Gen -> Stages]
  /\ \A g \in Gen : stage'[g] \in IF g \in S THEN ClosedFrom(stage[g]) ELSE {stage[g]}
  /\ UNCHANGED delivered

Next ==
  \/ \E g \in Gen : Submit(g) \/ Deliver(g) \/ RequestStop(g)
  \/ \E S \in SUBSET Gen : Close(S)

vars == <<stage, delivered>>

Spec == Init /\ [][Next]_vars
=============================================================================
