----------------------------- MODULE DirectorRun -----------------------------
(***************************************************************************)
(* One run of the director agent: a graph of nodes that a task of the      *)
(* event loop drives, a plan whose steps edit at once or wait at a gate    *)
(* for a human decision, the checkpoint a resumed task starts from, the    *)
(* cancel token, and the row that tells the user how the run stands.       *)
(* LangGraph repeats the whole execute node when a run is resumed, so the  *)
(* tools must recognise what they have done before: by the change sets     *)
(* they record, which also let the user undo the run.                      *)
(***************************************************************************)
EXTENDS Integers, FiniteSets, SequencesExt

CONSTANTS Plans,      \* plans the planner may return
          FirstShots, \* the shots of the scene, in order
          Tasks,      \* identities of loop tasks that drive the run
          Touched,    \* bound: the shots the user edits or deletes meanwhile
          MaxResumes, \* bound
          MaxEvents   \* bound: crashes, cancels, undos and touches of the user together

Scene == "scene"

(* A new shot gets its id when it is created: no other step can name it.   *)
ASSUME PlanAssumption ==
  \A p \in Plans :
    /\ Len(p) \in Nat /\ DOMAIN p = 1..Len(p)
    /\ \A i \in DOMAIN p : p[i].tool = "create_shot" =>
         p[i].on \notin Range(FirstShots) /\ \A j \in DOMAIN p \ {i} : p[j].on # p[i].on

(* The scene is one row, its shots are others; an order is a list.         *)
ASSUME ShotsAssumption ==
  /\ Len(FirstShots) \in Nat /\ DOMAIN FirstShots = 1..Len(FirstShots)
  /\ IsInjective(FirstShots) /\ Scene \notin Range(FirstShots)
  /\ \A p \in Plans : \A i \in DOMAIN p :
       /\ p[i].tool = "update_scene" => p[i].on = Scene
       /\ p[i].tool = "create_shot" => p[i].on # Scene /\ \A j \in DOMAIN p : p[i].on \notin Range(p[j].order)
       /\ Len(p[i].order) \in Nat /\ DOMAIN p[i].order = 1..Len(p[i].order)

VARIABLES plan,       \* the plan of this run: a sequence of steps
          run,        \* agent_runs.status
          proposals,  \* per step: the status of the proposal it made
          applied,    \* per step: how often its change was made
          changes,    \* the run's change sets: the step, what was there before
          undone,     \* the change sets that are undone
          content,    \* of the shots and the scene: the field that plans edit
          num,        \* shot_number and shot_order; 0: not created
          live,       \* shots that are not deleted
          warnings,   \* shots with an open continuity warning
          checkpoint, \* durable: the next node, its input, the answers so far
          task,       \* what each loop task is doing
          token,      \* the run is in _cancel_requested (memory)
          cancel,     \* a cancel request that has read the row
          undo,       \* the request that undoes the run, and the change sets it has left
          resumes, crashes, touches, events, \* counters of bounded events
          met         \* history: two tasks have driven the run at once

story == <<content, num, live>>
world == <<proposals, applied, changes, undone, story, warnings>>
user  == <<undo, touches, events>>
directorVars == <<plan, run, world, checkpoint, task, token, cancel, user, resumes, crashes, met>>

Place(seq, x) == CHOOSE i \in DOMAIN seq : seq[i] = x

Nodes == <<"understand", "load_context", "plan", "execute", "review", "end">>
After(node) == Nodes[Place(Nodes, node) + 1]
Ended == {"completed", "failed", "cancelled"}
NoTask == [at |-> "none"]
Gates == {"generate_image", "delete_shot", "continuity_fix"}
Steps == DOMAIN plan
IsGate(i) == plan[i].tool \in Gates
Fixed == "fixed"  \* what the patch of a fix writes
Shots == Range(FirstShots) \cup {plan[i].on : i \in {j \in Steps : plan[j].tool = "create_shot"}}
PendingSteps == {i \in Steps : proposals[i] = "pending"}
Driving == {t \in Tasks : task[t] # NoTask}

(* The execute node has no await: other loop tasks and requests that run   *)
(* on the loop wait until it ends; only threads get in between.            *)
LoopIsFree == \A t \in Tasks : task[t].at # "execute"

(* The live shots, ORDER BY shot_order, and the numbers of a new order.    *)
Increasing(shots) == \A i, j \in DOMAIN shots : i < j => num[shots[i]] < num[shots[j]]
IsOrder(shots) == Range(shots) = live /\ Increasing(shots)
Order == CHOOSE shots \in [1 .. Cardinality(live) -> live] : IsOrder(shots)
Ordered(shots) == [s \in Shots |-> IF s \in Range(shots) THEN Place(shots, s) ELSE num[s]]

NoUndo == [left |-> {}, of |-> 0]

DirectorInit ==
  /\ plan \in Plans
  /\ run = "created"
  /\ proposals = [i \in Steps |-> "none"]
  /\ applied = [i \in Steps |-> 0]
  /\ changes = <<>> /\ undone = {}
  /\ content = [x \in Shots \cup {Scene} |-> "old"]
  /\ num = [s \in Shots |-> IF s \in Range(FirstShots) THEN Place(FirstShots, s) ELSE 0]
  /\ live = Range(FirstShots)
  /\ warnings = live
  /\ checkpoint = [next |-> "understand", answers |-> <<>>, status |-> "running", failed |-> FALSE]
  /\ task = [t \in Tasks |-> NoTask]
  /\ token = FALSE /\ cancel = "none"
  /\ undo = NoUndo
  /\ resumes = 0 /\ crashes = 0 /\ touches = 0 /\ events = 0
  /\ met = FALSE

NewTask(kind, answer) ==
  [at |-> "node", kind |-> kind, node |-> checkpoint.next, answers |-> checkpoint.answers,
   answer |-> answer, status |-> checkpoint.status, failed |-> checkpoint.failed,
   loaded |-> "none", step |-> 1, asked |-> 0]

Saved(k, answers) ==
  [next |-> k.node, answers |-> answers, status |-> k.status, failed |-> k.failed]

(* A suspended node adds what it has been answered to the checkpoint.      *)
Suspended(k) == [checkpoint EXCEPT !.next = "execute", !.answers = k.answers]

Moves(t, k) == task' = [task EXCEPT ![t] = k]

----------------------------------------------------------------------------
(* Bound.                                                                  *)
Happens == events < MaxEvents /\ events' = events + 1

StartRun(t) ==
  /\ run = "created" /\ Driving = {}
  /\ run' = "running"
  /\ Moves(t, NewTask("start", "none"))
  /\ UNCHANGED <<world, checkpoint, token, cancel, user, resumes, crashes, met>>

(* understand, load_context and plan.  Checkpoints are written in the      *)
(* background: the durable one may lag behind.                             *)
RunsNode(t) ==
  LET k == [task[t] EXCEPT !.node = After(@), !.status = IF token THEN "cancelled" ELSE @] IN
  /\ task[t].at = "node" /\ LoopIsFree
  /\ task[t].node \in {"understand", "load_context", "plan"}
  /\ Moves(t, k)
  /\ checkpoint' \in {checkpoint, Saved(k, k.answers)}
  /\ UNCHANGED <<run, world, token, cancel, user, resumes, crashes, met>>

(* A call of the planner raises: the run is failed at once.                *)
NodeRaises(t) ==
  /\ task[t].at = "node" /\ task[t].node \in {"understand", "plan"} /\ LoopIsFree
  /\ Moves(t, NoTask)
  /\ run' = "failed"
  /\ UNCHANGED <<world, checkpoint, token, cancel, user, resumes, crashes, met>>

EntersExecute(t) ==
  LET k == task[t] IN
  /\ k.at = "node" /\ k.node = "execute" /\ LoopIsFree
  /\ Moves(t, IF token THEN [k EXCEPT !.status = "cancelled", !.node = "review"]
                       ELSE [k EXCEPT !.at = "execute"])
  /\ UNCHANGED <<run, world, checkpoint, token, cancel, user, resumes, crashes, met>>

----------------------------------------------------------------------------
(* The tools.  Each begins with what it finds in the database; the session *)
(* of the node keeps the run's row as it was at the first step.            *)
AtStepMutant(t) == task[t].at = "execute" /\ task[t].step \in Steps  \* mutant: token unread
AtStep(t) == task[t].at = "execute" /\ task[t].step \in Steps /\ ~token
Loaded(k) == [k EXCEPT !.loaded = IF @ = "none" THEN run ELSE @]
NextStep(k) == [k EXCEPT !.step = @ + 1]
Failing(k) == [NextStep(k) EXCEPT !.failed = TRUE]

(* A change set: the step, and what its target was before.                 *)
Of(c) == plan[changes[c].step]
Recorded(i) == [step |-> i, content |-> IF plan[i].on = Scene \/ num[plan[i].on] > 0
                                        THEN content[plan[i].on] ELSE "none", order |-> Order]

(* A new shot is recognised by its values, whatever its scene.             *)
AlreadyCreated(i) ==
  \E c \in DOMAIN changes : Of(c).tool = "create_shot" /\ Of(c).patch = plan[i].patch

(* Else the latest change set of the tool and the target has the same      *)
(* values.                                                                 *)
AlreadyAppliedMutant(i) == FALSE  \* mutant: no look at the change sets
AlreadyApplied(i) ==
  LET same == {c \in DOMAIN changes : Of(c).tool = plan[i].tool /\ Of(c).on = plan[i].on} IN
  /\ same # {}
  /\ Of(Max(same)).patch = plan[i].patch /\ Of(Max(same)).order = plan[i].order

(* A tool that edits at once: it does so and records it, it recognises     *)
(* what it has done before, or it refuses.                                 *)
Runs(t, tool) ==
  /\ AtStep(t) /\ plan[task[t].step].tool = tool
  /\ UNCHANGED <<run, proposals, undone, warnings, checkpoint, token, cancel, user, resumes,
                 crashes, met>>

Applies(t) ==
  LET i == task[t].step IN
  /\ applied' = [applied EXCEPT ![i] = @ + 1]
  /\ changes' = Append(changes, Recorded(i))
  /\ Moves(t, NextStep(Loaded(task[t])))

Leaves(t, k) == Moves(t, k) /\ UNCHANGED <<story, applied, changes>>
Skips(t)     == Leaves(t, NextStep(Loaded(task[t])))
Refuses(t)   == Leaves(t, Failing(Loaded(task[t])))

Patches(i) == content' = [content EXCEPT ![plan[i].on] = plan[i].patch] /\ UNCHANGED <<num, live>>

(* A deleted shot is refused, and an edit that overtakes another one.      *)
UpdatesShot(t) ==
  LET i == task[t].step IN
  /\ Runs(t, "update_shot")
  /\ \/ plan[i].on \in live /\ AlreadyApplied(i) /\ Skips(t)
     \/ plan[i].on \in live /\ ~AlreadyApplied(i) /\ Applies(t) /\ Patches(i)
     \/ plan[i].on \notin live /\ Refuses(t)
     \/ ~AlreadyApplied(i) /\ Refuses(t)

UpdatesScene(t) ==
  LET i == task[t].step IN
  /\ Runs(t, "update_scene")
  /\ \/ AlreadyApplied(i) /\ Skips(t)
     \/ ~AlreadyApplied(i) /\ Applies(t) /\ Patches(i)
     \/ ~AlreadyApplied(i) /\ Refuses(t)

(* The new shot comes last.                                                *)
CreatesShot(t) ==
  LET i == task[t].step IN
  /\ Runs(t, "create_shot")
  /\ \/ AlreadyCreated(i) /\ Skips(t)
     \/ /\ ~AlreadyCreated(i) /\ Applies(t)
        /\ live' = live \cup {plan[i].on}
        /\ num' = [num EXCEPT ![plan[i].on] = 1 + Max({0} \cup {num[s] : s \in live})]
        /\ UNCHANGED content

(* An order must name just the live shots, once; it numbers them from 1.   *)
ReordersShots(t) ==
  LET i == task[t].step
      known == IsOrder(plan[i].order) \/ AlreadyApplied(i)
      valid == Range(plan[i].order) = live /\ IsInjective(plan[i].order)
  IN
  /\ Runs(t, "reorder_shots")
  /\ \/ known /\ Skips(t)
     \/ /\ ~known /\ valid /\ Applies(t)
        /\ num' = Ordered(plan[i].order) /\ UNCHANGED <<content, live>>
     \/ ~known /\ ~valid /\ Refuses(t)

Existing(i) == \E j \in Steps : /\ plan[j].tool = plan[i].tool /\ plan[j].on = plan[i].on
                                /\ proposals[j] # "none"

(* generate_image requires the shot and a fix its open warning before they *)
(* look for their proposal; delete_shot looks for the proposal first.      *)
TargetFound(i) ==
  /\ plan[i].on \in live
  /\ plan[i].tool = "continuity_fix" => plan[i].on \in warnings

GateIsDecided(i) == Existing(i) /\ (plan[i].tool = "delete_shot" \/ TargetFound(i))

PassesGate(t) ==
  LET k == Loaded(task[t]) IN
  /\ AtStep(t) /\ IsGate(k.step) /\ GateIsDecided(k.step)
  /\ Moves(t, NextStep(k))
  /\ UNCHANGED <<run, world, checkpoint, token, cancel, user, resumes, crashes, met>>

FailsAtGate(t) ==
  LET k == Loaded(task[t]) IN
  /\ AtStep(t) /\ IsGate(k.step) /\ ~GateIsDecided(k.step) /\ ~TargetFound(k.step)
  /\ Moves(t, Failing(k))
  /\ UNCHANGED <<run, world, checkpoint, token, cancel, user, resumes, crashes, met>>

(* interrupt(): the n-th call of the node returns the n-th answer it has   *)
(* been given before, else the answer this task was resumed with, once;    *)
(* else the node is suspended.                                             *)
Interrupts(k) ==
  IF k.asked < Len(k.answers) THEN [NextStep(k) EXCEPT !.asked = @ + 1]
  ELSE IF k.answer # "none"
  THEN [NextStep(k) EXCEPT !.asked = @ + 1, !.answers = Append(@, k.answer), !.answer = "none"]
  ELSE [k EXCEPT !.at = "suspended"]

ProposesMutant(t) ==  \* mutant: goes on without interrupt()
  LET k == [Loaded(task[t]) EXCEPT !.status = "waiting_human"] IN
  /\ AtStep(t) /\ IsGate(k.step) /\ ~Existing(k.step) /\ TargetFound(k.step)
  /\ proposals' = [proposals EXCEPT ![k.step] = "pending"]
  /\ run' = "waiting_human"
  /\ Moves(t, NextStep(k))
  /\ UNCHANGED <<applied, changes, undone, story, warnings, checkpoint, token, cancel, user,
                 resumes, crashes, met>>

(* create_*_proposal: the row of the run is written only where it differs  *)
(* from what the session has loaded.                                       *)
Proposes(t) ==
  LET k == Loaded(task[t]) IN
  /\ AtStep(t) /\ IsGate(k.step) /\ ~Existing(k.step) /\ TargetFound(k.step)
  /\ proposals' = [proposals EXCEPT ![k.step] = "pending"]
  /\ run' = IF k.loaded = "waiting_human" THEN run ELSE "waiting_human"
  /\ Moves(t, Interrupts([k EXCEPT !.status = "waiting_human", !.loaded = "waiting_human"]))
  /\ UNCHANGED <<applied, changes, undone, story, warnings, checkpoint, token, cancel, user,
                 resumes, crashes, met>>

LeavesExecute(t) ==
  LET k == [task[t] EXCEPT !.at = "node", !.node = "review",
                           !.status = IF task[t].step \in Steps THEN "cancelled" ELSE @] IN
  /\ task[t].at = "execute" /\ (task[t].step \notin Steps \/ token)
  /\ Moves(t, k)
  /\ checkpoint' \in {checkpoint, Saved(k, k.answers)}
  /\ UNCHANGED <<run, world, token, cancel, user, resumes, crashes, met>>

(* review_node: a run that waits or is cancelled stays so.                 *)
Reviews(t) ==
  LET k == [task[t] EXCEPT !.node = "end",
              !.status = IF @ \in {"waiting_human", "cancelled"} THEN @
                         ELSE IF task[t].failed THEN "failed" ELSE "completed"] IN
  /\ task[t].at = "node" /\ task[t].node = "review" /\ LoopIsFree
  /\ Moves(t, k)
  /\ UNCHANGED <<run, world, checkpoint, token, cancel, user, resumes, crashes, met>>

(* ainvoke returns when the last checkpoint is written.  The result of a   *)
(* suspended graph has no status: it reads as completed.                   *)
Returns(t) ==
  LET k == task[t] IN
  /\ LoopIsFree
  /\ k.at = "suspended" \/ (k.at = "node" /\ k.node = "end")
  /\ Moves(t, [k EXCEPT !.at = "returned",
                        !.status = IF k.at = "suspended" THEN "completed" ELSE @])
  /\ checkpoint' = IF k.at = "suspended" THEN Suspended(k) ELSE Saved(k, k.answers)
  /\ UNCHANGED <<run, world, token, cancel, user, resumes, crashes, met>>

ParksMutantCancelling(t) ==  \* mutant: what is being cancelled is taken as parked
  task[t].kind = "start" /\ run \in {"waiting_human", "cancelling"}

(* _run_graph leaves a run that waits as it is; _continue_graph finalizes  *)
(* whatever it finds.  The row and the token are read before the commit.   *)
Parks(t) == task[t].kind = "start" /\ run = "waiting_human"

ReadsRow(t) ==
  LET k == task[t] IN
  /\ k.at = "returned" /\ LoopIsFree
  /\ Moves(t, IF Parks(t) THEN NoTask
              ELSE [k EXCEPT !.at = "finalizing", !.loaded = run,
                             !.status = IF token THEN "cancelled" ELSE @])
  /\ UNCHANGED <<run, world, checkpoint, token, cancel, user, resumes, crashes, met>>

Finalizes(t) ==
  LET k == task[t] IN
  /\ k.at = "finalizing" /\ LoopIsFree
  /\ run' = IF k.status = k.loaded THEN run ELSE k.status
  /\ Moves(t, NoTask)
  /\ UNCHANGED <<world, checkpoint, token, cancel, user, resumes, crashes, met>>

----------------------------------------------------------------------------
(* What a decision does: proposals turn to a status, the changes of those  *)
(* that are applied are made and recorded, in the order of the plan.       *)
InOrder(S) ==
  {f \in [1 .. Cardinality(S) -> S] : \A m, n \in DOMAIN f : m < n => f[m] < f[n]}

Decide(S, status) ==
  LET made(tool) == {i \in S : status[i] = "applied" /\ plan[i].tool = tool}
      fixed == {plan[i].on : i \in made("continuity_fix")}
  IN
  /\ proposals' = [i \in Steps |-> IF i \in S THEN status[i] ELSE proposals[i]]
  /\ applied' = [i \in Steps |-> IF i \in S /\ status[i] = "applied" THEN applied[i] + 1 ELSE applied[i]]
  /\ \E f \in InOrder(made("delete_shot") \cup made("continuity_fix")) :
       changes' = changes \o [n \in DOMAIN f |-> Recorded(f[n])]
  /\ content' = [x \in DOMAIN content |-> IF x \in fixed THEN Fixed ELSE content[x]]
  /\ live' = live \ {plan[i].on : i \in made("delete_shot")}
  /\ warnings' = warnings \ fixed
  /\ UNCHANGED <<num, undone>>

Verdicts(i) == IF plan[i].on \in live THEN {"applied", "conflict"} ELSE {"conflict"}

(* POST /proposals/{id}/approve and /reject: the decision and nothing else.*)
DecideProposal(i) ==
  /\ proposals[i] = "pending"
  /\ \E v \in Verdicts(i) \cup {"rejected"} : Decide({i}, [j \in {i} |-> v])
  /\ UNCHANGED <<run, checkpoint, task, token, cancel, user, resumes, crashes, met>>

ProposalExpires(i) ==
  /\ proposals[i] = "pending"
  /\ Decide({i}, [j \in {i} |-> "expired"])
  /\ run' = IF run = "waiting_human" /\ PendingSteps = {i} THEN "failed" ELSE run
  /\ UNCHANGED <<checkpoint, task, token, cancel, user, resumes, crashes, met>>

(* resume_run: all that is pending or some of it is decided, then a task   *)
(* goes on with the graph.  The status of the run stays as it is.          *)
ResumeRun(t, S) ==
  /\ run = "waiting_human" /\ LoopIsFree /\ resumes < MaxResumes
  /\ S # {} /\ S \subseteq PendingSteps /\ task[t] = NoTask
  /\ \/ /\ \E status \in [S -> {"applied", "conflict"}] :
             (\A i \in S : status[i] \in Verdicts(i)) /\ Decide(S, status)
        /\ Moves(t, NewTask("resume", "approve"))
     \/ /\ Decide(S, [i \in S |-> "rejected"])
        /\ Moves(t, NewTask("resume", "reject"))
  /\ resumes' = resumes + 1
  /\ met' = (met \/ Driving # {})
  /\ UNCHANGED <<run, checkpoint, token, cancel, user, crashes>>

(* cancel_run, in a thread: the row is read, then token and row are set.   *)
CancelReads ==
  /\ Happens
  /\ run \in {"running", "waiting_human"} /\ cancel = "none"
  /\ cancel' = run
  /\ UNCHANGED <<run, world, checkpoint, task, token, undo, touches, resumes, crashes, met>>

CancelCommits ==
  /\ cancel # "none"
  /\ token' = TRUE
  /\ run' = "cancelling"
  /\ cancel' = "none"
  /\ UNCHANGED <<world, checkpoint, task, user, resumes, crashes, met>>

(* The process dies and starts again: tasks and token are gone, no start-  *)
(* up step looks at the runs.                                              *)
Crash ==
  /\ Happens
  /\ crashes' = crashes + 1
  /\ task' = [t \in Tasks |-> NoTask]
  /\ token' = FALSE /\ cancel' = "none" /\ undo' = NoUndo
  /\ UNCHANGED <<run, world, checkpoint, touches, resumes, met>>

----------------------------------------------------------------------------
(* The user, in threads: another edit of the story, and the undo of the    *)
(* run.                                                                    *)
Elsewhere == <<run, proposals, applied, warnings, checkpoint, task, token, cancel, resumes, crashes, met>>

UserTouches(x) ==
  /\ Happens
  /\ touches' = touches + 1
  /\ x \in live
  /\ \/ content' = [content EXCEPT ![x] = "user"] /\ UNCHANGED live
     \/ live' = live \ {x} /\ UNCHANGED content
  /\ UNCHANGED <<Elsewhere, num, changes, undone, undo>>

NewestMutant(S) == Min(S)  \* mutant: in the order in which they were made
Newest(S) == Max(S)

(* undo_run lists the change sets of the run, and undoes the newest first; *)
(* those undone are skipped.                                               *)
UndoStarts ==
  /\ Happens /\ undo = NoUndo /\ DOMAIN changes \ undone # {}
  /\ undo' = [left |-> DOMAIN changes \ undone, of |-> Len(changes)]
  /\ UNCHANGED <<Elsewhere, story, changes, undone, touches>>

(* Undoing one change set writes what was there before, unless something   *)
(* else was written since: then it is reported as a conflict.              *)
UndoesPatch(c) ==
  LET x == Of(c).on
      patch == IF Of(c).tool = "continuity_fix" THEN Fixed ELSE Of(c).patch
  IN
  /\ x \in live \cup {Scene} /\ content[x] = patch
  /\ content' = [content EXCEPT ![x] = changes[c].content]
  /\ UNCHANGED <<num, live>>

(* A shot that was created is deleted; one that was deleted needs its      *)
(* number.                                                                 *)
UndoesLifecycle(c) ==
  LET s == Of(c).on IN
  /\ \/ Of(c).tool = "create_shot" /\ s \in live /\ live' = live \ {s}
     \/ /\ Of(c).tool = "delete_shot" /\ s \notin live
        /\ \A t \in live : num[t] # num[s]
        /\ live' = live \cup {s}
  /\ UNCHANGED <<content, num>>

UndoesOrder(c) ==
  /\ Range(changes[c].order) = live /\ IsOrder(Of(c).order)
  /\ num' = Ordered(changes[c].order)
  /\ UNCHANGED <<content, live>>

Undoes(c) ==
  /\ undone' = undone \cup {c}
  /\ \/ Of(c).tool \in {"update_shot", "update_scene", "continuity_fix"} /\ UndoesPatch(c)
     \/ Of(c).tool \in {"create_shot", "delete_shot"} /\ UndoesLifecycle(c)
     \/ Of(c).tool = "reorder_shots" /\ UndoesOrder(c)

(* What stands in the way of an undo.                                      *)
Conflicts(c) ==
  LET x == Of(c).on IN
  CASE Of(c).tool = "create_shot"    -> x \notin live
    [] Of(c).tool = "delete_shot"    -> x \in live \/ \E s \in live : num[s] = num[x]
    [] Of(c).tool = "reorder_shots"  -> Range(changes[c].order) # live \/ ~IsOrder(Of(c).order)
    [] Of(c).tool = "continuity_fix" -> x \notin live \/ content[x] # Fixed
    [] OTHER                         -> x \notin live \cup {Scene} \/ content[x] # Of(c).patch

UndoesOne ==
  LET c == Newest(undo.left) IN
  /\ undo.left # {}
  /\ undo' = IF undo.left = {c} THEN NoUndo ELSE [undo EXCEPT !.left = @ \ {c}]
  /\ Undoes(c) \/ (Conflicts(c) /\ UNCHANGED <<story, undone>>)
  /\ UNCHANGED <<Elsewhere, changes, touches, events>>

Drives(t) ==
  \/ RunsNode(t) \/ EntersExecute(t)
  \/ UpdatesShot(t) \/ UpdatesScene(t) \/ CreatesShot(t) \/ ReordersShots(t)
  \/ PassesGate(t) \/ FailsAtGate(t) \/ Proposes(t)
  \/ LeavesExecute(t) \/ Reviews(t) \/ Returns(t) \/ ReadsRow(t) \/ Finalizes(t)

DirectorStep ==
  \/ \E t \in Tasks : StartRun(t) \/ Drives(t) \/ NodeRaises(t)
  \/ \E t \in Tasks, S \in SUBSET PendingSteps : ResumeRun(t, S)
  \/ \E i \in Steps : DecideProposal(i) \/ ProposalExpires(i)
  \/ \E x \in Touched : UserTouches(x)
  \/ CancelReads \/ CancelCommits \/ UndoStarts \/ UndoesOne \/ Crash

DirectorNext == DirectorStep /\ UNCHANGED plan

(* The loop runs the tasks that are ready, a request thread ends.          *)
DirectorSpec ==
  /\ DirectorInit /\ [][DirectorNext]_directorVars
  /\ \A t \in Tasks : WF_directorVars(Drives(t) /\ UNCHANGED plan)
  /\ WF_directorVars(CancelCommits /\ UNCHANGED plan)

----------------------------------------------------------------------------
(* Types of the variables.                                                 *)
DirectorTypeOK ==
  /\ run \in {"created", "running", "waiting_human", "cancelling"} \cup Ended
  /\ proposals \in [Steps -> {"none", "pending", "applied", "rejected", "conflict", "expired"}]
  /\ applied \in [Steps -> Nat]
  /\ live \subseteq Shots /\ warnings \subseteq Shots /\ undone \subseteq DOMAIN changes
  /\ checkpoint.next \in Range(Nodes)
  /\ \A t \in Driving : task[t].step \in 1 .. Len(plan) + 1

(* No step behind a gate takes effect before a human has decided on the    *)
(* gate, though a resume repeats the node from its first step, a crash     *)
(* loses the task, and two tasks may drive the run at once; only a gate    *)
(* that nothing is left to decide at lets the plan go on.                  *)
GateHolds ==
  \A i, j \in Steps : i < j /\ IsGate(i) /\ applied[j] > 0 =>
    /\ proposals[i] # "pending"
    /\ proposals[i] = "none" => ~TargetFound(i)

(* The node is repeated after every interrupt, and still no step of the    *)
(* plan takes effect twice.                                                *)
StepAppliedOnce == \A i \in Steps : applied[i] <= 1

(* Undoing the run takes back all of it, whichever tools it used and       *)
(* however often it was resumed, once nobody else has touched the story    *)
(* and no step has been applied since; a shot that was deleted before the  *)
(* others were renumbered cannot come back.                                *)
UndoRestoresAll ==
  [][/\ UndoesOne /\ undo' = NoUndo
     /\ undo.of = Len(changes) /\ touches = 0
     /\ ~({"delete_shot", "reorder_shots"} \subseteq {Of(c).tool : c \in DOMAIN changes})
     => /\ \A x \in live' \cup {Scene} : content'[x] = "old"
        /\ IsOrder(FirstShots)']_directorVars

(* Once the row says cancelling, no step of the plan edits anything.       *)
CancelStopsEffects ==
  [][run = "cancelling" => \A i \in Steps : ~IsGate(i) => applied'[i] = applied[i]]_directorVars

(* A cancel that finds the run driven by a task comes to its end, unless   *)
(* the process dies or two tasks drive it.                                 *)
CancellingEnds ==
  (run = "cancelling" /\ Driving # {}) ~> (run # "cancelling" \/ crashes > 0 \/ met)

=============================================================================
