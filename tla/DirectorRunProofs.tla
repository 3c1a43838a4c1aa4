-------------------------- MODULE DirectorRunProofs --------------------------
(***************************************************************************)
(* Proofs about DirectorRun, for any plans with one gate, any tasks and    *)
(* bounds.  A resume repeats the execute node: what the proofs follow is   *)
(* which passes of the node there can be, and what each leaves behind.     *)
(***************************************************************************)
EXTENDS DirectorRun, SequenceTheorems, FiniteSetTheorems, WellFoundedInduction, TLAPS

USE PlanAssumption

Early    == {"understand", "load_context", "plan", "execute"}
Statuses == {"created", "running", "waiting_human", "cancelling"} \cup Ended
Decided  == {"applied", "rejected", "conflict", "expired"}

Results  == {"running", "waiting_human"} \cup Ended
Answers  == {"approve", "reject"}

Checkpoints == [next : Range(Nodes), answers : Seq(Answers), status : Results, failed : BOOLEAN]
TaskRecords ==
  [at : {"node", "execute", "suspended", "returned", "finalizing"}, kind : {"start", "resume"},
   node : Range(Nodes), answers : Seq(Answers), answer : {"none"} \cup Answers,
   status : Results, failed : BOOLEAN, loaded : {"none"} \cup Statuses,
   step : 1 .. Len(plan) + 1, asked : Nat]

\* A sequence, whatever its elements.
IsSeq(s) == Len(s) \in Nat /\ s = [n \in 1 .. Len(s) |-> s[n]]

TypeOK ==
  /\ plan \in Plans
  /\ run \in Statuses
  /\ proposals \in [Steps -> {"none", "pending"} \cup Decided]
  /\ applied \in [Steps -> Nat]
  /\ IsSeq(changes) /\ \A c \in DOMAIN changes : changes[c].step \in Steps
  /\ undone \subseteq DOMAIN changes
  /\ live \subseteq Shots /\ warnings \subseteq Shots
  /\ checkpoint \in Checkpoints
  /\ task \in [Tasks -> {NoTask} \cup TaskRecords]
  /\ token \in BOOLEAN /\ cancel \in {"none", "running", "waiting_human"}
  /\ undo \in [left : SUBSET DOMAIN changes, of : Nat]

(* A task that has the execute node before it or is in it, and one that    *)
(* has step j before it.                                                   *)
Running(k) == k.at = "execute" \/ (k.at = "node" /\ k.node \in Early)
Active(t) == Running(task[t])
Behind(t, j) == Active(t) /\ task[t].step <= j

\* Nothing is left to decide at gate i.
Open(i) == proposals[i] # "pending" /\ (proposals[i] = "none" => ~TargetFound(i))

\* No gate comes after step j.
IsLast(j) == \A i \in Steps : IsGate(i) => i <= j

\* A cancelling run is driven by no task that does not see the token.
CancelIsSeen == run = "cancelling" => token \/ Driving = {}

\* A change set belongs to a step that was applied, a deletion to a shot;
\* an edit that was applied has a change set.
Recording ==
  /\ \A c \in DOMAIN changes : /\ applied[changes[c].step] > 0
                               /\ Of(c).tool = "delete_shot" => Of(c).on \in Shots
  /\ \A i \in Steps : ~IsGate(i) /\ applied[i] > 0 => \E c \in DOMAIN changes : changes[c].step = i

\* Only gates ask, and what was applied at a gate was approved, once.
GatesOK ==
  \A i \in Steps : /\ ~IsGate(i) => proposals[i] = "none"
                   /\ IsGate(i) => applied[i] <= 1
                   /\ IsGate(i) /\ applied[i] > 0 => proposals[i] = "applied"

\* Before the start nothing has happened.
NotBegun ==
  run = "created" =>
    Driving = {} /\ cancel = "none" /\ \A i \in Steps : proposals[i] = "none" /\ applied[i] = 0

OneGate == \A i, j \in Steps : IsGate(i) /\ IsGate(j) => i = j

(* With one gate there is one pass of the node before the question and one *)
(* after the answer; while the question is open there is none.             *)
PassesOK ==
  /\ \A t, u \in Tasks : Active(t) /\ Active(u) => t = u
  /\ PendingSteps # {} => \A t \in Tasks : ~Active(t)

\* An answer is on the way only when the question was asked; none is kept.
AnswersOK ==
  /\ checkpoint.answers = <<>>
  /\ \A t \in Driving : /\ task[t].answers = <<>>
                        /\ task[t].answer # "none" => \E i \in Steps : proposals[i] # "none"

\* A task is beyond a gate only if it is open, and so is what was applied;
\* and a step that no gate follows has no task behind it once it is applied.
StepsOK ==
  /\ \A t \in Tasks, i \in Steps :
       Active(t) /\ IsGate(i) /\ i < task[t].step => Open(i)
  /\ \A i, j \in Steps : IsGate(i) /\ i < j /\ applied[j] > 0 => Open(i)
  /\ \A j \in Steps : ~IsGate(j) /\ applied[j] > 0 /\ IsLast(j) => \A t \in Tasks : ~Behind(t, j)

(* No two edits of one target, by one tool and before a gate, differ: the  *)
(* repeated node would take the earlier one for new.                       *)
NoRework ==
  \A i, j, k \in Steps :
    /\ IsGate(k) /\ i < k /\ j < k
    /\ plan[i].tool = plan[j].tool /\ plan[i].on = plan[j].on /\ plan[i].tool # "create_shot"
    => plan[i].patch = plan[j].patch /\ plan[i].order = plan[j].order

EditsOnce == \A i \in Steps : ~IsGate(i) => applied[i] <= 1

BaseInv == TypeOK /\ CancelIsSeen /\ Recording /\ GatesOK /\ NotBegun
GateInv == PassesOK /\ AnswersOK /\ StepsOK

DirectorInv == BaseInv /\ (OneGate => GateInv /\ (NoRework => EditsOnce))

----------------------------------------------------------------------------
(* Sequences, the greatest of a set, the records of tasks.                 *)

LEMMA SeqOfItsElements ==
  ASSUME NEW s, IsSeq(s)
  PROVE  /\ DOMAIN s = 1 .. Len(s)
         /\ s \in Seq({s[n] : n \in 1 .. Len(s)})
  <1> DEFINE T == {s[n] : n \in 1 .. Len(s)}
  <1>1. s \in [1 .. Len(s) -> T]
    BY DEF IsSeq
  <1>2. Len(s) \in Nat
    BY DEF IsSeq
  <1>3. s \in Seq(T)
    BY <1>1, <1>2
  <1> QED  BY <1>1, <1>3

LEMMA ConcatIsSeq ==
  ASSUME NEW s, NEW u, IsSeq(s), IsSeq(u)
  PROVE  /\ IsSeq(s \o u) /\ Len(s \o u) = Len(s) + Len(u)
         /\ \A n \in 1 .. Len(s) : (s \o u)[n] = s[n]
         /\ \A n \in 1 .. Len(u) : (s \o u)[Len(s) + n] = u[n]
  <1> DEFINE T == {s[n] : n \in 1 .. Len(s)} \cup {u[n] : n \in 1 .. Len(u)}
  <1>1. s \in Seq(T) /\ u \in Seq(T)
    <2>1. s \in Seq({s[n] : n \in 1 .. Len(s)}) /\ u \in Seq({u[n] : n \in 1 .. Len(u)})
      BY SeqOfItsElements
    <2>2. {s[n] : n \in 1 .. Len(s)} \subseteq T /\ {u[n] : n \in 1 .. Len(u)} \subseteq T
      OBVIOUS
    <2> HIDE DEF T
    <2> QED  BY <2>1, <2>2, SeqMonotonic
  <1>2. Len(s) \in Nat /\ Len(u) \in Nat
    BY DEF IsSeq
  <1> HIDE DEF T
  <1>3. /\ s \o u \in Seq(T) /\ Len(s \o u) = Len(s) + Len(u)
        /\ \A n \in 1 .. Len(s) + Len(u) : (s \o u)[n] = IF n <= Len(s) THEN s[n] ELSE u[n - Len(s)]
    BY <1>1, ConcatProperties
  <1>4. IsSeq(s \o u)
    <2>1. PICK q \in Seq(T) : q = s \o u
      BY <1>3
    <2>2. Len(q) \in Nat /\ q \in [1 .. Len(q) -> T]
      BY <2>1, LenProperties
    <2>3. IsSeq(q)
      BY <2>2 DEF IsSeq
    <2> QED  BY <2>1, <2>3
  <1>5. ASSUME NEW n \in 1 .. Len(u)  PROVE (s \o u)[Len(s) + n] = u[n]
    <2>1. Len(s) + n \in 1 .. Len(s) + Len(u) /\ ~(Len(s) + n <= Len(s)) /\ (Len(s) + n) - Len(s) = n
      BY <1>2
    <2> QED  BY <1>3, <2>1
  <1>6. \A n \in 1 .. Len(s) : (s \o u)[n] = s[n]
    BY <1>2, <1>3
  <1> QED  BY <1>3, <1>4, <1>5, <1>6

LEMMA AppendIsSeq ==
  ASSUME NEW s, NEW e, IsSeq(s)
  PROVE  /\ IsSeq(Append(s, e)) /\ Len(Append(s, e)) = Len(s) + 1
         /\ \A n \in 1 .. Len(s) : Append(s, e)[n] = s[n]
         /\ Append(s, e)[Len(s) + 1] = e
  <1> DEFINE T == {s[n] : n \in 1 .. Len(s)} \cup {e}
  <1>1. s \in Seq(T) /\ e \in T
    <2>1. s \in Seq({s[n] : n \in 1 .. Len(s)})
      BY SeqOfItsElements
    <2>2. {s[n] : n \in 1 .. Len(s)} \subseteq T /\ e \in T
      OBVIOUS
    <2> HIDE DEF T
    <2> QED  BY <2>1, <2>2, SeqMonotonic
  <1>2. Len(s) \in Nat
    BY DEF IsSeq
  <1> HIDE DEF T
  <1>3. /\ Append(s, e) \in Seq(T) /\ Len(Append(s, e)) = Len(s) + 1
        /\ \A n \in 1 .. Len(s) : Append(s, e)[n] = s[n]
        /\ Append(s, e)[Len(s) + 1] = e
    BY <1>1, <1>2
  <1>4. IsSeq(Append(s, e))
    BY <1>3, LenProperties DEF IsSeq
  <1> QED  BY <1>3, <1>4

LEMMA MaxIsUpper ==
  ASSUME NEW bound \in Nat, NEW S \in SUBSET (0 .. bound), S # {}
  PROVE  Max(S) \in S /\ \A x \in S : Max(S) >= x
  <1> DEFINE T == {bound - x : x \in S}
  <1>1. T \subseteq Nat /\ T # {}
    <2>1. \A x \in S : bound - x \in Nat
      OBVIOUS
    <2>2. PICK x \in S : TRUE
      OBVIOUS
    <2>3. bound - x \in T
      BY <2>2
    <2> QED  BY <2>1, <2>3
  <1>2. PICK m \in T : \A y \in T : ~(<<y, m>> \in OpToRel(<, Nat))
    BY <1>1, NatLessThanWellFounded, WFMin
  <1>3. ASSUME NEW y \in T  PROVE y >= m
    <2>1. y \in Nat /\ m \in Nat
      BY <1>1, <1>2
    <2>2. CASE y < m
      <3>1. <<y, m>> \in Nat \X Nat /\ <<y, m>>[1] < <<y, m>>[2]
        BY <2>1, <2>2
      <3>2. <<y, m>> \in OpToRel(<, Nat)
        BY <3>1 DEF OpToRel
      <3> QED  BY <3>2, <1>2
    <2> QED  BY <2>1, <2>2
  <1>4. PICK x \in S : m = bound - x
    BY <1>2
  <1>5. ASSUME NEW y \in S  PROVE x >= y
    <2>1. bound - y \in T
      OBVIOUS
    <2>2. bound - y >= bound - x
      BY <2>1, <1>3, <1>4
    <2>3. x \in Int /\ y \in Int
      BY <1>4
    <2> QED  BY <2>2, <2>3
  <1> QED  BY <1>4, <1>5 DEF Max

LEMMA NodesAre ==
  /\ Range(Nodes) = {"understand", "load_context", "plan", "execute", "review", "end"}
  /\ After("understand") = "load_context" /\ After("load_context") = "plan" /\ After("plan") = "execute"
  <1>1. DOMAIN Nodes = 1 .. 6
    BY DEF Nodes
  <1>2. /\ Nodes[1] = "understand" /\ Nodes[2] = "load_context" /\ Nodes[3] = "plan"
        /\ Nodes[4] = "execute" /\ Nodes[5] = "review" /\ Nodes[6] = "end"
    BY DEF Nodes
  <1>3. Range(Nodes) = {"understand", "load_context", "plan", "execute", "review", "end"}
    <2>1. Range(Nodes) = {Nodes[i] : i \in 1 .. 6}
      BY <1>1 DEF Range
    <2>2. 1 .. 6 = {1, 2, 3, 4, 5, 6}
      OBVIOUS
    <2> QED  BY <2>1, <2>2, <1>2
  <1>4. Place(Nodes, "understand") = 1 /\ Place(Nodes, "load_context") = 2 /\ Place(Nodes, "plan") = 3
    <2>1. \A i \in 1 .. 6 : i \in {1, 2, 3, 4, 5, 6}
      OBVIOUS
    <2>2. \A i \in 1 .. 6 : Nodes[i] = "understand" <=> i = 1
      BY <1>2, <2>1
    <2>3. \A i \in 1 .. 6 : Nodes[i] = "load_context" <=> i = 2
      BY <1>2, <2>1
    <2>4. \A i \in 1 .. 6 : Nodes[i] = "plan" <=> i = 3
      BY <1>2, <2>1
    <2>5. 1 \in 1 .. 6 /\ 2 \in 1 .. 6 /\ 3 \in 1 .. 6
      OBVIOUS
    <2> QED  BY <1>1, <2>2, <2>3, <2>4, <2>5 DEF Place
  <1> QED  BY <1>2, <1>3, <1>4 DEF After

LEMMA PlanIsSeq ==
  ASSUME plan \in Plans
  PROVE  Len(plan) \in Nat /\ Steps = 1 .. Len(plan)
  BY DEF Steps

LEMMA DrivingTask ==
  ASSUME TypeOK, NEW t \in Tasks, task[t].at # "none"
  PROVE  t \in Driving /\ task[t] \in TaskRecords
  BY DEF TypeOK, Driving, NoTask

LEMMA NoTaskIsIdle ==
  ~Running(NoTask)
  BY DEF Running, NoTask

LEMMA LoadedTask ==
  ASSUME NEW k \in TaskRecords, run \in Statuses
  PROVE  /\ Loaded(k) \in TaskRecords /\ Loaded(k).step = k.step /\ Loaded(k).at = k.at
         /\ Loaded(k).answers = k.answers /\ Loaded(k).answer = k.answer
  BY DEF Loaded, TaskRecords

LEMMA NextTask ==
  ASSUME NEW k \in TaskRecords, plan \in Plans, k.step \in Steps
  PROVE  /\ NextStep(k) \in TaskRecords /\ NextStep(k).step = k.step + 1 /\ NextStep(k).at = k.at
         /\ NextStep(k).answers = k.answers /\ NextStep(k).answer = k.answer
         /\ NextStep(k).asked = k.asked
  <1>1. k.step + 1 \in 1 .. Len(plan) + 1
    BY PlanIsSeq
  <1> QED  BY <1>1 DEF NextStep, TaskRecords

LEMMA FailingTask ==
  ASSUME NEW k \in TaskRecords, plan \in Plans, k.step \in Steps
  PROVE  /\ Failing(k) \in TaskRecords /\ Failing(k).step = k.step + 1 /\ Failing(k).at = k.at
         /\ Failing(k).answers = k.answers /\ Failing(k).answer = k.answer
  <1>1. PICK q \in TaskRecords : q = NextStep(k)
    BY NextTask
  <1>2. q.step = k.step + 1 /\ q.at = k.at /\ q.answers = k.answers /\ q.answer = k.answer
    BY <1>1, NextTask
  <1>3. Failing(k) = [q EXCEPT !.failed = TRUE]
    BY <1>1 DEF Failing
  <1> QED  BY <1>2, <1>3 DEF TaskRecords

LEMMA InterruptedTask ==
  ASSUME NEW k \in TaskRecords, plan \in Plans, k.step \in Steps
  PROVE  /\ Interrupts(k) \in TaskRecords
         /\ k.answers = <<>> /\ k.answer = "none" =>
              /\ Interrupts(k).at = "suspended" /\ Interrupts(k).answers = <<>>
              /\ Interrupts(k).answer = "none"
  <1>1. PICK q \in TaskRecords : q = NextStep(k)
    BY NextTask
  <1>2. q.answers = k.answers /\ q.asked = k.asked /\ q.asked + 1 \in Nat
    BY <1>1, NextTask DEF TaskRecords
  <1>3. [q EXCEPT !.asked = @ + 1] \in TaskRecords
    BY <1>2 DEF TaskRecords
  <1>4. ASSUME k.answer # "none"
        PROVE  [q EXCEPT !.asked = @ + 1, !.answers = Append(@, k.answer), !.answer = "none"] \in TaskRecords
    <2>1. Append(q.answers, k.answer) \in Seq(Answers)
      BY <1>4, <1>2 DEF TaskRecords
    <2> QED  BY <1>2, <2>1 DEF TaskRecords
  <1>5. [k EXCEPT !.at = "suspended"] \in TaskRecords
    BY DEF TaskRecords
  <1>6. Interrupts(k) \in TaskRecords
    BY <1>1, <1>3, <1>4, <1>5 DEF Interrupts
  <1>7. ASSUME k.answers = <<>>, k.answer = "none"
        PROVE  /\ Interrupts(k).at = "suspended" /\ Interrupts(k).answers = <<>>
               /\ Interrupts(k).answer = "none"
    <2>1. Len(k.answers) = 0 /\ ~(k.asked < 0)
      BY <1>7 DEF TaskRecords
    <2>2. Interrupts(k) = [k EXCEPT !.at = "suspended"]
      BY <2>1, <1>7 DEF Interrupts
    <2> QED  BY <2>2, <1>7 DEF TaskRecords
  <1> QED  BY <1>6, <1>7

LEMMA NewTaskIs ==
  ASSUME checkpoint \in Checkpoints, plan \in Plans, NEW kind \in {"start", "resume"},
         NEW answer \in {"none"} \cup Answers
  PROVE  /\ NewTask(kind, answer) \in TaskRecords /\ NewTask(kind, answer).step = 1
         /\ NewTask(kind, answer).answers = checkpoint.answers /\ NewTask(kind, answer).answer = answer
  <1>1. 1 \in 1 .. Len(plan) + 1
    BY PlanIsSeq
  <1> QED  BY <1>1 DEF NewTask, TaskRecords, Checkpoints

----------------------------------------------------------------------------
(* What the steps of a task do.  A quiet step moves the task alone; beyond *)
(* a step of the plan it gets only at a gate that needs no question.       *)
PassedGate(i) == IsGate(i) /\ (GateIsDecided(i) \/ ~TargetFound(i))

Quiet(t, k) ==
  /\ t \in Driving /\ Moves(t, k) /\ k \in {NoTask} \cup TaskRecords
  /\ k # NoTask => k.answers = task[t].answers /\ k.answer = task[t].answer
  /\ Running(k) => /\ Active(t)
                   /\ \/ k.step = task[t].step
                      \/ /\ k.step = task[t].step + 1 /\ PassedGate(task[t].step)
                         /\ task[t].step \in Steps
  /\ checkpoint' \in Checkpoints /\ checkpoint'.answers \in {checkpoint.answers, task[t].answers}
  /\ run' = run \/ run' \in Results
  /\ UNCHANGED <<plan, world, token, cancel, undo>>

\* A tool recognises its step, refuses it, or applies it.
Recognised(i) == IF plan[i].tool = "create_shot" THEN AlreadyCreated(i) ELSE AlreadyApplied(i)

ToolLeaves(t) == \E k \in {NextStep(Loaded(task[t])), Failing(Loaded(task[t]))} : Leaves(t, k)
ToolApplies(t) ==
  /\ Applies(t) /\ ~Recognised(task[t].step)
  /\ \/ live' = live
     \/ plan[task[t].step].tool = "create_shot" /\ live' = live \cup {plan[task[t].step].on}

ToolStep(t) ==
  /\ AtStep(t) /\ ~IsGate(task[t].step)
  /\ UNCHANGED <<plan, run, proposals, undone, warnings, checkpoint, token, cancel, undo>>
  /\ ToolLeaves(t) \/ ToolApplies(t)

LEMMA SavedIsCheckpoint ==
  ASSUME NEW k \in TaskRecords
  PROVE  Saved(k, k.answers) \in Checkpoints /\ Saved(k, k.answers).answers = k.answers
  BY DEF Saved, Checkpoints, TaskRecords

LEMMA NodeSteps ==
  ASSUME TypeOK, UNCHANGED plan, NEW t \in Tasks, RunsNode(t) \/ NodeRaises(t) \/ EntersExecute(t)
  PROVE  \E k : Quiet(t, k)
  <1>1. t \in Driving /\ task[t] \in TaskRecords /\ checkpoint \in Checkpoints
    <2>1. task[t].at = "node"
      BY DEF RunsNode, NodeRaises, EntersExecute
    <2> QED  BY <2>1, DrivingTask DEF TypeOK
  <1>2. CASE RunsNode(t)
    <2> DEFINE k == [task[t] EXCEPT !.node = After(@), !.status = IF token THEN "cancelled" ELSE @]
    <2>1. /\ task[t].at = "node" /\ task[t].node \in {"understand", "load_context", "plan"}
          /\ Moves(t, k) /\ checkpoint' \in {checkpoint, Saved(k, k.answers)}
          /\ UNCHANGED <<run, world, token, cancel, user>>
      BY <1>2 DEF RunsNode
    <2>2. After(task[t].node) \in {"load_context", "plan", "execute"}
      BY <2>1, NodesAre
    <2>3. /\ k \in TaskRecords /\ k.answers = task[t].answers /\ k.answer = task[t].answer
          /\ k.step = task[t].step
      <3>1. PICK n \in Range(Nodes) : n = After(task[t].node)
        BY <2>2, NodesAre
      <3>2. PICK status \in Results : status = IF token THEN "cancelled" ELSE task[t].status
        BY <1>1 DEF TaskRecords, Results, Ended
      <3>3. k = [task[t] EXCEPT !.node = n, !.status = status]
        BY <1>1, <3>1, <3>2 DEF TaskRecords
      <3> HIDE DEF k
      <3> QED  BY <1>1, <3>3 DEF TaskRecords
    <2>4. Active(t)
      BY <2>1 DEF Active, Running, Early
    <2>5. checkpoint' \in Checkpoints /\ checkpoint'.answers \in {checkpoint.answers, task[t].answers}
      <3> HIDE DEF k
      <3> QED  BY <1>1, <2>1, <2>3, SavedIsCheckpoint
    <2> HIDE DEF k
    <2>6. Quiet(t, k)
      BY <1>1, <2>1, <2>3, <2>4, <2>5 DEF Quiet, user
    <2> QED  BY <2>6
  <1>3. CASE NodeRaises(t)
    <2>1. Quiet(t, NoTask)
      BY <1>1, <1>3, NoTaskIsIdle DEF NodeRaises, Quiet, Results, Ended, user
    <2> QED  BY <2>1
  <1>4. CASE EntersExecute(t)
    <2>1. PICK k : /\ Moves(t, k)
                   /\ k = IF token THEN [task[t] EXCEPT !.status = "cancelled", !.node = "review"]
                                   ELSE [task[t] EXCEPT !.at = "execute"]
      BY <1>4 DEF EntersExecute
    <2>2. /\ task[t].at = "node" /\ task[t].node = "execute"
          /\ UNCHANGED <<run, world, checkpoint, token, cancel, user>>
      BY <1>4 DEF EntersExecute
    <2>3. /\ k \in TaskRecords /\ k.answers = task[t].answers /\ k.answer = task[t].answer
          /\ k.step = task[t].step
      BY <1>1, <2>1, NodesAre DEF TaskRecords, Results, Ended
    <2>4. Active(t)
      BY <2>2 DEF Active, Running, Early
    <2>5. Quiet(t, k)
      BY <1>1, <2>1, <2>2, <2>3, <2>4 DEF Quiet, user
    <2> QED  BY <2>5
  <1> QED  BY <1>2, <1>3, <1>4

LEMMA GateSteps ==
  ASSUME TypeOK, UNCHANGED plan, NEW t \in Tasks, PassesGate(t) \/ FailsAtGate(t)
  PROVE  \E k : Quiet(t, k)
  <1>1. task[t].at = "execute" /\ task[t].step \in Steps
    BY DEF PassesGate, FailsAtGate, AtStep
  <1>2. t \in Driving /\ task[t] \in TaskRecords /\ checkpoint \in Checkpoints /\ plan \in Plans /\ run \in Statuses
    BY <1>1, DrivingTask DEF TypeOK
  <1>3. PICK q \in TaskRecords : q = Loaded(task[t])
    BY <1>2, LoadedTask
  <1>4. /\ q.step = task[t].step /\ q.at = "execute" /\ q.answers = task[t].answers
        /\ q.answer = task[t].answer
    BY <1>1, <1>2, <1>3, LoadedTask
  <1>5. Active(t)
    BY <1>1 DEF Active, Running
  <1>6. PICK k \in {NextStep(q), Failing(q)} :
          Moves(t, k) /\ PassedGate(q.step) /\ UNCHANGED <<run, world, checkpoint, token, cancel, user>>
    BY <1>3 DEF PassesGate, FailsAtGate, PassedGate
  <1>7. /\ k \in TaskRecords /\ k.step = q.step + 1 /\ k.answers = q.answers /\ k.answer = q.answer
    BY <1>1, <1>2, <1>4, <1>6, NextTask, FailingTask
  <1>8. Quiet(t, k)
    BY <1>1, <1>2, <1>4, <1>5, <1>6, <1>7 DEF Quiet, user
  <1> QED  BY <1>8

LEMMA EndSteps ==
  ASSUME TypeOK, UNCHANGED plan, NEW t \in Tasks,
         LeavesExecute(t) \/ Reviews(t) \/ Returns(t) \/ ReadsRow(t) \/ Finalizes(t)
  PROVE  \E k : Quiet(t, k)
  <1>1. task[t].at \in {"execute", "node", "suspended", "returned", "finalizing"}
    BY DEF LeavesExecute, Reviews, Returns, ReadsRow, Finalizes
  <1>2. /\ t \in Driving /\ task[t] \in TaskRecords /\ checkpoint \in Checkpoints /\ run \in Statuses
    BY <1>1, DrivingTask DEF TypeOK
  <1>3. CASE LeavesExecute(t)
    <2>1. PICK k : /\ k = [task[t] EXCEPT !.at = "node", !.node = "review",
                                          !.status = IF task[t].step \in Steps THEN "cancelled" ELSE @]
                   /\ Moves(t, k) /\ checkpoint' \in {checkpoint, Saved(k, k.answers)}
      BY <1>3 DEF LeavesExecute
    <2>2. UNCHANGED <<run, world, token, cancel, user>>
      BY <1>3 DEF LeavesExecute
    <2>3. k \in TaskRecords /\ k.answers = task[t].answers /\ k.answer = task[t].answer /\ ~Running(k)
      BY <1>2, <2>1, NodesAre DEF TaskRecords, Results, Ended, Running, Early
    <2>4. checkpoint' \in Checkpoints /\ checkpoint'.answers \in {checkpoint.answers, task[t].answers}
      BY <1>2, <2>1, <2>3, SavedIsCheckpoint
    <2>5. Quiet(t, k)
      BY <1>2, <2>1, <2>2, <2>3, <2>4 DEF Quiet, user
    <2> QED  BY <2>5
  <1>4. CASE Reviews(t)
    <2>1. PICK k : /\ k = [task[t] EXCEPT !.node = "end",
                             !.status = IF @ \in {"waiting_human", "cancelled"} THEN @
                                        ELSE IF task[t].failed THEN "failed" ELSE "completed"]
                   /\ Moves(t, k)
      BY <1>4 DEF Reviews
    <2>2. task[t].at = "node" /\ UNCHANGED <<run, world, checkpoint, token, cancel, user>>
      BY <1>4 DEF Reviews
    <2>3. k \in TaskRecords /\ k.answers = task[t].answers /\ k.answer = task[t].answer /\ ~Running(k)
      BY <1>2, <2>1, <2>2, NodesAre DEF TaskRecords, Results, Ended, Running, Early
    <2>5. Quiet(t, k)
      BY <1>2, <2>1, <2>2, <2>3 DEF Quiet, user
    <2> QED  BY <2>5
  <1>5. CASE Returns(t)
    <2>1. PICK k : /\ k = [task[t] EXCEPT !.at = "returned",
                                          !.status = IF task[t].at = "suspended" THEN "completed" ELSE @]
                   /\ Moves(t, k)
      BY <1>5 DEF Returns
    <2>2. /\ checkpoint' = IF task[t].at = "suspended" THEN Suspended(task[t])
                           ELSE Saved(task[t], task[t].answers)
          /\ UNCHANGED <<run, world, token, cancel, user>>
      BY <1>5 DEF Returns
    <2>3. k \in TaskRecords /\ k.answers = task[t].answers /\ k.answer = task[t].answer /\ ~Running(k)
      BY <1>2, <2>1 DEF TaskRecords, Results, Ended, Running
    <2>4. Suspended(task[t]) \in Checkpoints /\ Suspended(task[t]).answers = task[t].answers
      BY <1>2, NodesAre DEF Suspended, Checkpoints, TaskRecords
    <2>5. checkpoint' \in Checkpoints /\ checkpoint'.answers = task[t].answers
      BY <1>2, <2>2, <2>4, SavedIsCheckpoint
    <2>6. Quiet(t, k)
      BY <1>2, <2>1, <2>2, <2>3, <2>5 DEF Quiet, user
    <2> QED  BY <2>6
  <1>6. CASE ReadsRow(t)
    <2>1. PICK k : /\ k = IF Parks(t) THEN NoTask
                          ELSE [task[t] EXCEPT !.at = "finalizing", !.loaded = run,
                                               !.status = IF token THEN "cancelled" ELSE @]
                   /\ Moves(t, k)
      BY <1>6 DEF ReadsRow
    <2>2. UNCHANGED <<run, world, checkpoint, token, cancel, user>>
      BY <1>6 DEF ReadsRow
    <2>3. k \in {NoTask} \cup TaskRecords /\ ~Running(k)
      BY <1>2, <2>1, NoTaskIsIdle DEF TaskRecords, Results, Ended, Running
    <2>4. k # NoTask => k.answers = task[t].answers /\ k.answer = task[t].answer
      BY <1>2, <2>1 DEF TaskRecords
    <2>5. Quiet(t, k)
      BY <1>2, <2>1, <2>2, <2>3, <2>4 DEF Quiet, user
    <2> QED  BY <2>5
  <1>7. CASE Finalizes(t)
    <2>1. run' = run \/ run' \in Results
      BY <1>2, <1>7 DEF Finalizes, TaskRecords
    <2>2. Moves(t, NoTask) /\ UNCHANGED <<world, checkpoint, token, cancel, user>>
      BY <1>7 DEF Finalizes
    <2>3. Quiet(t, NoTask)
      BY <1>2, <2>1, <2>2, NoTaskIsIdle DEF Quiet, user
    <2> QED  BY <2>3
  <1> QED  BY <1>3, <1>4, <1>5, <1>6, <1>7

LEMMA ToolSteps ==
  ASSUME UNCHANGED plan, NEW t \in Tasks,
         UpdatesShot(t) \/ UpdatesScene(t) \/ CreatesShot(t) \/ ReordersShots(t)
  PROVE  ToolStep(t)
  <1>1. PICK tool \in {"update_shot", "update_scene", "create_shot", "reorder_shots"} : Runs(t, tool)
    BY DEF UpdatesShot, UpdatesScene, CreatesShot, ReordersShots
  <1>2. /\ AtStep(t) /\ plan[task[t].step].tool = tool
        /\ UNCHANGED <<plan, run, proposals, undone, warnings, checkpoint, token, cancel, undo>>
    BY <1>1 DEF Runs, user
  <1>3. ~IsGate(task[t].step)
    BY <1>2 DEF IsGate, Gates
  <1>4. CASE UpdatesShot(t)
    BY <1>2, <1>3, <1>4 DEF UpdatesShot, Runs, ToolStep, ToolLeaves, ToolApplies, Recognised, Skips, Refuses, Patches
  <1>5. CASE UpdatesScene(t)
    BY <1>2, <1>3, <1>5 DEF UpdatesScene, Runs, ToolStep, ToolLeaves, ToolApplies, Recognised, Skips, Refuses, Patches
  <1>6. CASE CreatesShot(t)
    BY <1>2, <1>3, <1>6 DEF CreatesShot, Runs, ToolStep, ToolLeaves, ToolApplies, Recognised, Skips
  <1>7. CASE ReordersShots(t)
    BY <1>2, <1>3, <1>7 DEF ReordersShots, Runs, ToolStep, ToolLeaves, ToolApplies, Recognised, Skips, Refuses
  <1> QED  BY <1>4, <1>5, <1>6, <1>7

----------------------------------------------------------------------------
(* What a decision does to the proposals and to what is recorded.          *)

LEMMA DecisionEffects ==
  ASSUME BaseInv, UNCHANGED plan, NEW S \in SUBSET PendingSteps, NEW status \in [S -> Decided],
         \A i \in S : status[i] = "applied" => plan[i].on \in live, Decide(S, status)
  PROVE  /\ proposals' \in [Steps -> {"none", "pending"} \cup Decided]
         /\ \A i \in Steps : proposals'[i] = IF i \in S THEN status[i] ELSE proposals[i]
         /\ applied' \in [Steps -> Nat]
         /\ \A i \in Steps : applied'[i] = IF i \in S /\ status[i] = "applied" THEN applied[i] + 1 ELSE applied[i]
         /\ IsSeq(changes') /\ Len(changes) <= Len(changes')
         /\ \A c \in 1 .. Len(changes) : changes'[c] = changes[c]
         /\ \A c \in 1 .. Len(changes') : c <= Len(changes) \/ /\ changes'[c].step \in S
                                                               /\ status[changes'[c].step] = "applied"
         /\ live' \subseteq live /\ warnings' \subseteq warnings /\ UNCHANGED undone
  <1>1. /\ proposals' = [i \in Steps |-> IF i \in S THEN status[i] ELSE proposals[i]]
        /\ applied' = [i \in Steps |-> IF i \in S /\ status[i] = "applied" THEN applied[i] + 1 ELSE applied[i]]
        /\ live' \subseteq live /\ warnings' \subseteq warnings /\ UNCHANGED undone
    BY DEF Decide
  <1>2. /\ IsSeq(changes) /\ applied \in [Steps -> Nat]
        /\ proposals \in [Steps -> {"none", "pending"} \cup Decided]
    BY DEF BaseInv, TypeOK
  <1>3. \A i \in S : status[i] \in Decided
    OBVIOUS
  <1>4. /\ proposals' \in [Steps -> {"none", "pending"} \cup Decided]
        /\ \A i \in Steps : proposals'[i] = IF i \in S THEN status[i] ELSE proposals[i]
    BY <1>1, <1>2, <1>3
  <1>5. /\ applied' \in [Steps -> Nat]
        /\ \A i \in Steps : applied'[i] = IF i \in S /\ status[i] = "applied" THEN applied[i] + 1 ELSE applied[i]
    BY <1>1, <1>2
  <1> DEFINE made == {i \in S : status[i] = "applied" /\ plan[i].tool = "delete_shot"}
                     \cup {i \in S : status[i] = "applied" /\ plan[i].tool = "continuity_fix"}
  <1>6. PICK f \in InOrder(made) : changes' = changes \o [n \in DOMAIN f |-> Recorded(f[n])]
    BY DEF Decide
  <1>7. Cardinality(made) \in Nat
    <2>1. made \in SUBSET (1 .. Len(plan)) /\ 1 \in Int /\ Len(plan) \in Int
      BY PlanIsSeq DEF BaseInv, TypeOK, PendingSteps
    <2> HIDE DEF made
    <2>2. IsFiniteSet(1 .. Len(plan))
      BY <2>1, FS_Interval
    <2> QED  BY <2>1, <2>2, FS_Subset, FS_CardinalityType
  <1>8. f \in [1 .. Cardinality(made) -> made]
    BY <1>6 DEF InOrder
  <1>9. PICK g : g = [n \in DOMAIN f |-> Recorded(f[n])]
    OBVIOUS
  <1>10. IsSeq(g) /\ Len(g) = Cardinality(made) /\ \A n \in 1 .. Len(g) : g[n] = Recorded(f[n])
    <2> HIDE DEF made
    <2>1. PICK m \in Nat : m = Cardinality(made)
      BY <1>7
    <2>2. DOMAIN f = 1 .. m /\ g = [n \in 1 .. m |-> Recorded(f[n])]
      BY <2>1, <1>8, <1>9
    <2>3. Len(g) = m
      BY <2>2
    <2> QED  BY <2>1, <2>2, <2>3 DEF IsSeq
  <1>11. \A n \in 1 .. Len(g) : g[n].step \in S /\ status[g[n].step] = "applied"
    <2> SUFFICES ASSUME NEW n \in 1 .. Len(g)
                 PROVE  g[n].step \in S /\ status[g[n].step] = "applied"
      OBVIOUS
    <2>1. f[n] \in made /\ g[n].step = f[n]
      BY <1>8, <1>10 DEF Recorded
    <2> QED  BY <2>1
  <1>12. /\ IsSeq(changes') /\ Len(changes') = Len(changes) + Len(g)
         /\ \A c \in 1 .. Len(changes) : changes'[c] = changes[c]
         /\ \A n \in 1 .. Len(g) : changes'[Len(changes) + n] = g[n]
    <2>1. changes' = changes \o g
      BY <1>6, <1>9
    <2>2. IsSeq(changes) /\ IsSeq(g)
      BY <1>2, <1>10
    <2> HIDE DEF made
    <2> QED  BY ONLY <2>1, <2>2, ConcatIsSeq
  <1>13. Len(changes) \in Nat /\ Len(g) \in Nat
    BY <1>2, <1>10 DEF IsSeq
  <1>14. ASSUME NEW c \in 1 .. Len(changes'), ~(c <= Len(changes))
         PROVE  changes'[c].step \in S /\ status[changes'[c].step] = "applied"
    <2>1. PICK n \in 1 .. Len(g) : c = Len(changes) + n
      <3>1. c - Len(changes) \in 1 .. Len(g) /\ c = Len(changes) + (c - Len(changes))
        BY <1>12, <1>13, <1>14
      <3> QED  BY <3>1
    <2>2. changes'[c] = g[n]
      BY <2>1, <1>12
    <2> QED  BY <2>2, <1>11
  <1>15. Len(changes) <= Len(changes')
    BY <1>12, <1>13
  <1> QED  BY <1>1, <1>4, <1>5, <1>12, <1>14, <1>15

----------------------------------------------------------------------------
(* The parts that hold whatever the plan.                                  *)

LEMMA SameRecords ==
  ASSUME Recording, UNCHANGED <<plan, applied, changes>>
  PROVE  Recording'
  BY DEF Recording, Of, IsGate, Steps, Shots

LEMMA SameGates ==
  ASSUME GatesOK, UNCHANGED <<plan, proposals, applied>>
  PROVE  GatesOK'
  BY DEF GatesOK, IsGate, Steps

(* What a step changes in the types, given that the plan stays.            *)
LEMMA TypesKept ==
  ASSUME TypeOK, UNCHANGED plan, run' \in Statuses,
         proposals' \in [Steps -> {"none", "pending"} \cup Decided], applied' \in [Steps -> Nat],
         IsSeq(changes'), \A c \in DOMAIN changes' : changes'[c].step \in Steps,
         undone' \subseteq DOMAIN changes', live' \subseteq Shots, warnings' \subseteq Shots,
         checkpoint' \in Checkpoints, task' \in [Tasks -> {NoTask} \cup TaskRecords],
         token' \in BOOLEAN, cancel' \in {"none", "running", "waiting_human"},
         undo' \in [left : SUBSET DOMAIN changes', of : Nat]
  PROVE  TypeOK'
  <1>1. Steps' = Steps /\ Shots' = Shots /\ TaskRecords' = TaskRecords
    BY DEF Steps, Shots, TaskRecords
  <1>2. plan' \in Plans
    BY DEF TypeOK
  <1>3. IsSeq(changes)'
    BY DEF IsSeq
  <1> QED  BY <1>1, <1>2, <1>3 DEF TypeOK

LEMMA TaskMoves ==
  ASSUME TypeOK, NEW t \in Tasks, NEW k \in {NoTask} \cup TaskRecords, Moves(t, k)
  PROVE  /\ task' \in [Tasks -> {NoTask} \cup TaskRecords]
         /\ task'[t] = k /\ \A u \in Tasks \ {t} : task'[u] = task[u]
  BY DEF TypeOK, Moves

LEMMA QuietBase ==
  ASSUME BaseInv, NEW t \in Tasks, NEW k, Quiet(t, k)
  PROVE  BaseInv'
  <1>1. TypeOK'
    <2>1. task' \in [Tasks -> {NoTask} \cup TaskRecords]
      BY TaskMoves DEF Quiet, BaseInv
    <2>2. run' \in Statuses
      BY DEF Quiet, BaseInv, TypeOK, Statuses, Results
    <2>3. TypeOK /\ UNCHANGED <<plan, proposals, applied, changes, undone, live, warnings, token, cancel, undo>>
          /\ checkpoint' \in Checkpoints
      BY DEF BaseInv, Quiet, world, story
    <2>4. /\ proposals' \in [Steps -> {"none", "pending"} \cup Decided] /\ applied' \in [Steps -> Nat]
          /\ IsSeq(changes') /\ \A c \in DOMAIN changes' : changes'[c].step \in Steps
          /\ undone' \subseteq DOMAIN changes' /\ live' \subseteq Shots /\ warnings' \subseteq Shots
          /\ token' \in BOOLEAN /\ cancel' \in {"none", "running", "waiting_human"}
          /\ undo' \in [left : SUBSET DOMAIN changes', of : Nat]
      BY <2>3 DEF TypeOK
    <2> QED  BY <2>1, <2>2, <2>3, <2>4, TypesKept
  <1>2. CancelIsSeen'
    BY DEF Quiet, BaseInv, CancelIsSeen, Results, Ended
  <1>3. Recording' /\ GatesOK'
    BY SameRecords, SameGates DEF Quiet, BaseInv, world
  <1>4. NotBegun'
    BY DEF Quiet, BaseInv, NotBegun, Results, Ended
  <1> QED  BY <1>1, <1>2, <1>3, <1>4 DEF BaseInv

(* A tool that applies its step records it.                                *)
LEMMA ApplyingEffects ==
  ASSUME TypeOK, NEW t \in Tasks, AtStep(t), Applies(t)
  PROVE  /\ task[t].step \in Steps /\ applied' \in [Steps -> Nat]
         /\ \A j \in Steps : applied'[j] = IF j = task[t].step THEN applied[j] + 1 ELSE applied[j]
         /\ IsSeq(changes') /\ Len(changes') = Len(changes) + 1
         /\ \A c \in 1 .. Len(changes) : changes'[c] = changes[c]
         /\ changes'[Len(changes) + 1].step = task[t].step
  <1>1. PICK s \in Steps : s = task[t].step
    BY DEF AtStep
  <1>2. PICK e : e = Recorded(s)
    OBVIOUS
  <1>3. e.step = s
    BY <1>2 DEF Recorded
  <1>4. applied' = [applied EXCEPT ![s] = @ + 1] /\ changes' = Append(changes, e)
    BY <1>1, <1>2 DEF Applies
  <1>5. IsSeq(changes) /\ applied \in [Steps -> Nat]
    BY DEF TypeOK
  <1>6. /\ IsSeq(changes') /\ Len(changes') = Len(changes) + 1
        /\ \A c \in 1 .. Len(changes) : changes'[c] = changes[c]
        /\ changes'[Len(changes) + 1] = e
    BY <1>4, <1>5, AppendIsSeq
  <1> QED  BY <1>1, <1>3, <1>4, <1>5, <1>6

\* Where the task of a tool goes.
LEMMA ToolMoves ==
  ASSUME TypeOK, NEW t \in Tasks, ToolStep(t)
  PROVE  /\ task[t].step \in Steps /\ t \in Driving /\ Active(t) /\ ~token
         /\ \E k \in TaskRecords : /\ Moves(t, k) /\ k.step = task[t].step + 1 /\ k.at = "execute"
                                   /\ k.answers = task[t].answers /\ k.answer = task[t].answer
  <1>1. task[t].at = "execute" /\ task[t].step \in Steps /\ ~token
    BY DEF ToolStep, AtStep
  <1>2. t \in Driving /\ task[t] \in TaskRecords /\ plan \in Plans /\ run \in Statuses
    BY <1>1, DrivingTask DEF TypeOK
  <1>3. PICK q \in TaskRecords : q = Loaded(task[t])
    BY <1>2, LoadedTask
  <1>4. /\ q.step = task[t].step /\ q.at = "execute" /\ q.answers = task[t].answers
        /\ q.answer = task[t].answer
    BY <1>1, <1>2, <1>3, LoadedTask
  <1>5. PICK k \in {NextStep(q), Failing(q)} : Moves(t, k)
    BY <1>3 DEF ToolStep, ToolLeaves, ToolApplies, Leaves, Applies
  <1>6. /\ k \in TaskRecords /\ k.step = q.step + 1 /\ k.at = q.at /\ k.answers = q.answers
        /\ k.answer = q.answer
    BY <1>1, <1>2, <1>4, <1>5, NextTask, FailingTask
  <1> QED  BY <1>1, <1>2, <1>4, <1>5, <1>6 DEF Active, Running

(* Whatever is recorded, is recorded of what was applied.                  *)
LEMMA MoreRecords ==
  ASSUME BaseInv, UNCHANGED plan, \A i \in Steps : applied[i] > 0 => applied'[i] > 0,
         IsSeq(changes'), Len(changes) <= Len(changes'),
         \A c \in 1 .. Len(changes) : changes'[c] = changes[c],
         \A c \in 1 .. Len(changes') : c <= Len(changes) \/
           LET i == changes'[c].step IN
           i \in Steps /\ applied'[i] > 0 /\ (plan[i].tool = "delete_shot" => plan[i].on \in Shots),
         \A i \in Steps : ~IsGate(i) /\ applied'[i] > 0 =>
           applied[i] > 0 \/ \E c \in 1 .. Len(changes') : changes'[c].step = i
  PROVE  /\ Recording'
         /\ \A c \in DOMAIN changes' : changes'[c].step \in Steps
         /\ DOMAIN changes \subseteq DOMAIN changes'
  <1>1. /\ Recording /\ IsSeq(changes) /\ \A c \in DOMAIN changes : changes[c].step \in Steps
    BY DEF BaseInv, TypeOK
  <1>2. Len(changes) \in Nat /\ Len(changes') \in Nat
    BY <1>1 DEF IsSeq
  <1>3. DOMAIN changes = 1 .. Len(changes) /\ DOMAIN changes' = 1 .. Len(changes')
    BY <1>1, SeqOfItsElements
  <1>4. 1 .. Len(changes) \subseteq 1 .. Len(changes')
    BY <1>2
  <1>5. Steps' = Steps /\ Shots' = Shots /\ \A i : IsGate(i)' <=> IsGate(i)
    BY DEF Steps, Shots, IsGate
  <1>6. ASSUME NEW c \in DOMAIN changes'
        PROVE  /\ changes'[c].step \in Steps /\ applied'[changes'[c].step] > 0
               /\ plan[changes'[c].step].tool = "delete_shot" => plan[changes'[c].step].on \in Shots
    <2>1. CASE c \in 1 .. Len(changes)
      <3>1. changes'[c] = changes[c] /\ c \in DOMAIN changes
        BY <2>1, <1>3
      <3>2. /\ changes[c].step \in Steps /\ applied[changes[c].step] > 0
            /\ plan[changes[c].step].tool = "delete_shot" => plan[changes[c].step].on \in Shots
        <4>1. c \in DOMAIN changes
          BY <3>1
        <4>2. \A d \in DOMAIN changes : /\ applied[changes[d].step] > 0
                                        /\ Of(d).tool = "delete_shot" => Of(d).on \in Shots
          BY <1>1 DEF Recording
        <4>3. \A d \in DOMAIN changes : changes[d].step \in Steps
          BY <1>1
        <4> QED  BY <4>1, <4>2, <4>3, <3>1 DEF Of
      <3> QED  BY <3>1, <3>2
    <2>2. CASE ~(c <= Len(changes))
      BY <2>2, <1>3
    <2> QED  BY <2>1, <2>2, <1>2, <1>3
  <1>7. ASSUME NEW i \in Steps, ~IsGate(i), applied'[i] > 0
        PROVE  \E c \in DOMAIN changes' : changes'[c].step = i
    <2>1. CASE applied[i] > 0
      <3>1. PICK c \in DOMAIN changes : changes[c].step = i
        BY <2>1, <1>1, <1>7 DEF Recording
      <3> QED  BY <3>1, <1>3, <1>4
    <2> QED  BY <2>1, <1>7, <1>3
  <1>8. Recording'
    BY <1>5, <1>6, <1>7 DEF Recording, Of
  <1> QED  BY <1>3, <1>4, <1>6, <1>8

LEMMA ToolBase ==
  ASSUME BaseInv, NEW t \in Tasks, ToolStep(t)
  PROVE  BaseInv'
  <1>1. /\ TypeOK /\ UNCHANGED <<plan, run, proposals, undone, warnings, checkpoint, token, cancel, undo>>
        /\ AtStep(t) /\ ~IsGate(task[t].step)
    BY DEF BaseInv, ToolStep
  <1>2. PICK s \in Steps : s = task[t].step
    BY <1>1, ToolMoves
  <1>3. t \in Driving /\ ~token /\ task' \in [Tasks -> {NoTask} \cup TaskRecords]
    BY <1>1, ToolMoves, TaskMoves
  <1>4. /\ applied' \in [Steps -> Nat] /\ \A j \in Steps \ {s} : applied'[j] = applied[j]
        /\ applied[s] > 0 => applied'[s] > 0
        /\ Recording' /\ IsSeq(changes')
        /\ \A c \in DOMAIN changes' : changes'[c].step \in Steps
        /\ DOMAIN changes \subseteq DOMAIN changes'
        /\ live' \subseteq Shots
    <2>1. CASE ToolApplies(t)
      <3>1. Applies(t) /\ applied \in [Steps -> Nat] /\ IsSeq(changes)
        BY <1>1, <2>1 DEF ToolApplies, TypeOK
      <3>2. /\ applied' \in [Steps -> Nat]
            /\ \A j \in Steps : applied'[j] = IF j = s THEN applied[j] + 1 ELSE applied[j]
            /\ IsSeq(changes') /\ Len(changes') = Len(changes) + 1
            /\ \A c \in 1 .. Len(changes) : changes'[c] = changes[c]
            /\ changes'[Len(changes) + 1].step = s
        BY <1>1, <1>2, <3>1, ApplyingEffects
      <3>3. Len(changes) \in Nat /\ applied[s] \in Nat
        BY <3>1 DEF IsSeq
      <3>4. \A i \in Steps : applied[i] > 0 => applied'[i] > 0
        BY <3>1, <3>2
      <3>5. applied'[s] > 0 /\ plan[s].tool # "delete_shot"
        BY <3>2, <3>3, <1>1, <1>2 DEF IsGate, Gates
      <3>6. \A c \in 1 .. Len(changes') : c <= Len(changes) \/
              LET i == changes'[c].step IN
              i \in Steps /\ applied'[i] > 0 /\ (plan[i].tool = "delete_shot" => plan[i].on \in Shots)
        <4> SUFFICES ASSUME NEW c \in 1 .. Len(changes'), ~(c <= Len(changes))
                     PROVE  changes'[c].step = s
          BY <3>5
        <4>1. c = Len(changes) + 1
          BY <3>2, <3>3
        <4> QED  BY <4>1, <3>2
      <3>7. Len(changes) <= Len(changes') /\ Len(changes) + 1 \in 1 .. Len(changes')
        BY <3>2, <3>3
      <3>8. \A i \in Steps : ~IsGate(i) /\ applied'[i] > 0 =>
              applied[i] > 0 \/ \E c \in 1 .. Len(changes') : changes'[c].step = i
        BY <3>2, <3>7
      <3>9. /\ Recording' /\ DOMAIN changes \subseteq DOMAIN changes'
            /\ \A c \in DOMAIN changes' : changes'[c].step \in Steps
        BY <3>2, <3>4, <3>6, <3>7, <3>8, <1>1, MoreRecords
      <3>10. live' \subseteq Shots
        <4>1. plan[s].tool = "create_shot" => plan[s].on \in Shots
          BY DEF Shots
        <4> QED  BY <4>1, <2>1, <1>1, <1>2 DEF ToolApplies, TypeOK
      <3> QED  BY <3>2, <3>4, <3>9, <3>10
    <2>2. CASE ToolLeaves(t)
      <3>1. UNCHANGED <<live, applied, changes>>
        BY <2>2 DEF ToolLeaves, Leaves, story
      <3>2. Recording'
        BY <3>1, <1>1, SameRecords DEF BaseInv
      <3> QED  BY <3>1, <3>2, <1>1 DEF TypeOK
    <2> QED  BY <2>1, <2>2 DEF ToolStep
  <1>5. TypeOK'
    <2>1. /\ run' \in Statuses /\ proposals' \in [Steps -> {"none", "pending"} \cup Decided]
          /\ undone' \subseteq DOMAIN changes' /\ warnings' \subseteq Shots /\ checkpoint' \in Checkpoints
          /\ token' \in BOOLEAN /\ cancel' \in {"none", "running", "waiting_human"}
      BY <1>1, <1>4 DEF TypeOK
    <2>2. undo' \in [left : SUBSET DOMAIN changes', of : Nat]
      BY <1>1, <1>4 DEF TypeOK
    <2> QED  BY <1>1, <1>3, <1>4, <2>1, <2>2, TypesKept
  <1>6. CancelIsSeen' /\ NotBegun'
    BY <1>1, <1>3 DEF BaseInv, CancelIsSeen, NotBegun
  <1>7. GatesOK'
    <2>1. Steps' = Steps /\ \A i : IsGate(i)' <=> IsGate(i)
      BY <1>1 DEF Steps, IsGate
    <2>2. \A i \in Steps : IsGate(i) => applied'[i] = applied[i]
      BY <1>1, <1>2, <1>4
    <2> QED  BY <2>1, <2>2, <1>1 DEF GatesOK, BaseInv
  <1> QED  BY <1>4, <1>5, <1>6, <1>7 DEF BaseInv

LEMMA ProposesEffects ==
  ASSUME BaseInv, UNCHANGED plan, NEW t \in Tasks, Proposes(t)
  PROVE  /\ task[t].step \in Steps /\ IsGate(task[t].step) /\ t \in Driving /\ Active(t) /\ ~token
         /\ proposals[task[t].step] = "none" /\ TargetFound(task[t].step)
         /\ proposals' = [proposals EXCEPT ![task[t].step] = "pending"]
         /\ run' \in {run, "waiting_human"}
         /\ UNCHANGED <<applied, changes, undone, story, warnings, checkpoint, token, cancel, undo>>
         /\ \E k \in TaskRecords : /\ Moves(t, k)
                                   /\ task[t].answers = <<>> /\ task[t].answer = "none" =>
                                        k.at = "suspended" /\ k.answers = <<>> /\ k.answer = "none"
  <1>1. task[t].at = "execute" /\ task[t].step \in Steps /\ ~token
    BY DEF Proposes, AtStep
  <1>2. t \in Driving /\ task[t] \in TaskRecords /\ plan \in Plans /\ run \in Statuses
    BY <1>1, DrivingTask DEF BaseInv, TypeOK
  <1>3. PICK q \in TaskRecords : q = Loaded(task[t])
    BY <1>2, LoadedTask
  <1>4. /\ q.step = task[t].step /\ q.at = "execute" /\ q.answers = task[t].answers
        /\ q.answer = task[t].answer
    BY <1>1, <1>2, <1>3, LoadedTask
  <1>5. /\ IsGate(q.step) /\ ~Existing(q.step) /\ TargetFound(q.step)
        /\ proposals' = [proposals EXCEPT ![q.step] = "pending"]
        /\ run' \in {run, "waiting_human"}
        /\ UNCHANGED <<applied, changes, undone, story, warnings, checkpoint, token, cancel, undo>>
    BY <1>3 DEF Proposes, user
  <1>6. proposals[q.step] = "none"
    BY <1>1, <1>4, <1>5 DEF Existing
  <1>7. PICK p : p = [q EXCEPT !.status = "waiting_human", !.loaded = "waiting_human"]
    OBVIOUS
  <1>8. p \in TaskRecords /\ p.step = q.step /\ p.answers = q.answers /\ p.answer = q.answer
    BY <1>7 DEF TaskRecords, Results, Statuses
  <1>9. Moves(t, Interrupts(p))
    <2>1. [([Loaded(task[t]) EXCEPT !.status = "waiting_human"]) EXCEPT !.status = "waiting_human", !.loaded = "waiting_human"] = p
      BY <1>3, <1>7 DEF TaskRecords
    <2>2. Moves(t, Interrupts([([Loaded(task[t]) EXCEPT !.status = "waiting_human"])
                                 EXCEPT !.status = "waiting_human", !.loaded = "waiting_human"]))
      BY DEF Proposes
    <2> QED  BY <2>1, <2>2
  <1>10. PICK k \in TaskRecords : k = Interrupts(p)
    BY <1>1, <1>2, <1>4, <1>8, InterruptedTask
  <1>11. p.answers = <<>> /\ p.answer = "none" => k.at = "suspended" /\ k.answers = <<>> /\ k.answer = "none"
    BY <1>1, <1>2, <1>4, <1>8, <1>10, InterruptedTask
  <1> QED  BY <1>1, <1>2, <1>4, <1>5, <1>6, <1>8, <1>9, <1>10, <1>11 DEF Active, Running

LEMMA ProposesBase ==
  ASSUME BaseInv, UNCHANGED plan, NEW t \in Tasks, Proposes(t)
  PROVE  BaseInv'
  <1>1. PICK s \in Steps : s = task[t].step
    BY ProposesEffects
  <1>2. /\ IsGate(s) /\ t \in Driving /\ ~token /\ proposals[s] = "none"
        /\ proposals' = [proposals EXCEPT ![s] = "pending"] /\ run' \in {run, "waiting_human"}
        /\ UNCHANGED <<applied, changes, undone, live, warnings, checkpoint, token, cancel, undo>>
    BY <1>1, ProposesEffects DEF story
  <1>3. task' \in [Tasks -> {NoTask} \cup TaskRecords]
    BY ProposesEffects, TaskMoves DEF BaseInv
  <1>4. TypeOK'
    <2>1. /\ run' \in Statuses /\ proposals' \in [Steps -> {"none", "pending"} \cup Decided]
          /\ applied' \in [Steps -> Nat]
          /\ IsSeq(changes') /\ \A c \in DOMAIN changes' : changes'[c].step \in Steps
          /\ undone' \subseteq DOMAIN changes' /\ live' \subseteq Shots /\ warnings' \subseteq Shots
          /\ checkpoint' \in Checkpoints
          /\ token' \in BOOLEAN /\ cancel' \in {"none", "running", "waiting_human"}
          /\ undo' \in [left : SUBSET DOMAIN changes', of : Nat]
      BY <1>2 DEF BaseInv, TypeOK, Statuses
    <2> QED  BY <1>3, <2>1, TypesKept DEF BaseInv
  <1>5. CancelIsSeen' /\ NotBegun'
    BY <1>2 DEF BaseInv, CancelIsSeen, NotBegun
  <1>6. Recording'
    BY <1>2, SameRecords DEF BaseInv
  <1>7. GatesOK'
    <2>1. Steps' = Steps /\ \A i : IsGate(i)' <=> IsGate(i)
      BY DEF Steps, IsGate
    <2>2. proposals \in [Steps -> {"none", "pending"} \cup Decided]
      BY DEF BaseInv, TypeOK
    <2> QED  BY <2>1, <2>2, <1>2 DEF GatesOK, BaseInv
  <1> QED  BY <1>4, <1>5, <1>6, <1>7 DEF BaseInv

(* A decision, with or without a task that goes on.                        *)
LEMMA DecisionBase ==
  ASSUME BaseInv, UNCHANGED <<plan, token, cancel, undo, checkpoint>>, NEW S \in SUBSET PendingSteps, S # {},
         NEW status \in [S -> Decided],
         \A i \in S : status[i] = "applied" => plan[i].on \in live, Decide(S, status),
         task' \in [Tasks -> {NoTask} \cup TaskRecords], run' \in Statuses,
         run' # run => run' = "failed",
         run = "cancelling" => task' = task
  PROVE  BaseInv'
  <1>1. /\ proposals' \in [Steps -> {"none", "pending"} \cup Decided]
        /\ \A i \in Steps : proposals'[i] = IF i \in S THEN status[i] ELSE proposals[i]
        /\ applied' \in [Steps -> Nat]
        /\ \A i \in Steps : applied'[i] = IF i \in S /\ status[i] = "applied" THEN applied[i] + 1 ELSE applied[i]
        /\ IsSeq(changes') /\ Len(changes) <= Len(changes')
        /\ \A c \in 1 .. Len(changes) : changes'[c] = changes[c]
        /\ \A c \in 1 .. Len(changes') : c <= Len(changes) \/ /\ changes'[c].step \in S
                                                              /\ status[changes'[c].step] = "applied"
        /\ live' \subseteq live /\ warnings' \subseteq warnings /\ UNCHANGED undone
    BY DecisionEffects
  <1>2. TypeOK /\ GatesOK /\ applied \in [Steps -> Nat] /\ live \subseteq Shots /\ warnings \subseteq Shots
    BY DEF BaseInv, TypeOK
  <1>3. \A i \in S : i \in Steps /\ proposals[i] = "pending" /\ IsGate(i) /\ applied[i] = 0
    BY <1>2 DEF PendingSteps, GatesOK
  <1>4. /\ Recording' /\ \A c \in DOMAIN changes' : changes'[c].step \in Steps
        /\ DOMAIN changes \subseteq DOMAIN changes'
    <2>1. \A i \in Steps : applied[i] > 0 => applied'[i] > 0
      BY <1>1, <1>2
    <2>2. \A c \in 1 .. Len(changes') : c <= Len(changes) \/
            LET i == changes'[c].step IN
            i \in Steps /\ applied'[i] > 0 /\ (plan[i].tool = "delete_shot" => plan[i].on \in Shots)
      <3> SUFFICES ASSUME NEW c \in 1 .. Len(changes'), ~(c <= Len(changes)), NEW i, i = changes'[c].step
                   PROVE  i \in Steps /\ applied'[i] > 0 /\ (plan[i].tool = "delete_shot" => plan[i].on \in Shots)
        OBVIOUS
      <3>1. i \in S /\ status[i] = "applied"
        BY <1>1
      <3>2. i \in Steps /\ applied[i] \in Nat /\ applied'[i] = applied[i] + 1
        BY <3>1, <1>1, <1>2, <1>3
      <3> QED  BY <3>1, <3>2, <1>2
    <2>3. \A i \in Steps : ~IsGate(i) /\ applied'[i] > 0 => applied[i] > 0
      BY <1>1, <1>3
    <2> QED  BY <1>1, <2>1, <2>2, <2>3, MoreRecords
  <1>5. TypeOK'
    <2>1. /\ live' \subseteq Shots /\ warnings' \subseteq Shots /\ undone' \subseteq DOMAIN changes'
          /\ checkpoint' \in Checkpoints /\ token' \in BOOLEAN
          /\ cancel' \in {"none", "running", "waiting_human"}
      BY <1>1, <1>2, <1>4 DEF TypeOK
    <2>2. undo' \in [left : SUBSET DOMAIN changes', of : Nat]
      BY <1>2, <1>4 DEF TypeOK
    <2> QED  BY <1>1, <1>2, <1>4, <2>1, <2>2, TypesKept
  <1>6. CancelIsSeen'
    <2>1. CancelIsSeen
      BY DEF BaseInv
    <2>2. CASE run' = "cancelling"
      <3>1. run = "cancelling" /\ task' = task
        BY <2>2
      <3> QED  BY <2>1, <3>1 DEF CancelIsSeen, Driving
    <2> QED  BY <2>2 DEF CancelIsSeen
  <1>7. NotBegun'
    <2>1. \E i \in Steps : proposals[i] = "pending"
      BY <1>3
    <2>2. run # "created"
      BY <2>1 DEF BaseInv, NotBegun
    <2> QED  BY <2>2 DEF NotBegun
  <1>8. GatesOK'
    <2>1. Steps' = Steps /\ \A i : IsGate(i)' <=> IsGate(i)
      BY DEF Steps, IsGate
    <2>2. \A i \in S : status[i] \in Decided
      OBVIOUS
    <2>3. ASSUME NEW i \in Steps
          PROVE  /\ ~IsGate(i) => proposals'[i] = "none"
                 /\ IsGate(i) => applied'[i] <= 1
                 /\ IsGate(i) /\ applied'[i] > 0 => proposals'[i] = "applied"
      <3>1. CASE i \in S
        BY <3>1, <1>1, <1>3
      <3>2. CASE i \notin S
        BY <3>2, <1>1, <1>2 DEF GatesOK
      <3> QED  BY <3>1, <3>2
    <2> QED  BY <2>1, <2>3 DEF GatesOK
  <1> QED  BY <1>4, <1>5, <1>6, <1>7, <1>8 DEF BaseInv

\* A decision is of what is pending, and applies only what is still there.
Decides(S, status) ==
  /\ S \in SUBSET PendingSteps /\ S # {} /\ status \in [S -> Decided]
  /\ \A i \in S : status[i] = "applied" => plan[i].on \in live
  /\ Decide(S, status)

LEMMA SingleDecision ==
  ASSUME NEW i \in Steps, DecideProposal(i) \/ ProposalExpires(i)
  PROVE  /\ \E S, status : Decides(S, status)
         /\ UNCHANGED <<checkpoint, task, token, cancel, undo>> /\ run' \in {run, "failed"}
  <1>1. /\ proposals[i] = "pending" /\ UNCHANGED <<checkpoint, task, token, cancel, undo>>
        /\ run' \in {run, "failed"}
    BY DEF DecideProposal, ProposalExpires, user
  <1>2. PICK v \in Verdicts(i) \cup {"rejected", "expired"} : Decide({i}, [j \in {i} |-> v])
    BY DEF DecideProposal, ProposalExpires
  <1>3. v \in Decided /\ (v = "applied" => plan[i].on \in live)
    BY <1>2 DEF Verdicts, Decided
  <1>4. /\ [j \in {i} |-> v] \in [{i} -> Decided]
        /\ \A j \in {i} : [k \in {i} |-> v][j] = "applied" => plan[j].on \in live
    BY <1>3
  <1>5. {i} \in SUBSET PendingSteps
    BY <1>1 DEF PendingSteps
  <1>6. Decides({i}, [j \in {i} |-> v])
    BY <1>2, <1>4, <1>5 DEF Decides
  <1> QED  BY <1>1, <1>6

LEMMA ResumeDecides ==
  ASSUME NEW t \in Tasks, NEW S \in SUBSET PendingSteps, ResumeRun(t, S)
  PROVE  /\ \E status : Decides(S, status)
         /\ \E answer \in Answers : Moves(t, NewTask("resume", answer))
         /\ run = "waiting_human" /\ UNCHANGED <<run, checkpoint, token, cancel, undo>>
  <1>1. /\ run = "waiting_human" /\ UNCHANGED <<run, checkpoint, token, cancel, undo>> /\ S # {}
    BY DEF ResumeRun, user
  <1>2. CASE \E status \in [S -> {"applied", "conflict"}] :
               (\A i \in S : status[i] \in Verdicts(i)) /\ Decide(S, status) /\ Moves(t, NewTask("resume", "approve"))
    <2>1. PICK status \in [S -> {"applied", "conflict"}] :
            /\ \A i \in S : status[i] \in Verdicts(i)
            /\ Decide(S, status) /\ Moves(t, NewTask("resume", "approve"))
      BY <1>2
    <2>2. status \in [S -> Decided]
      BY DEF Decided
    <2>3. \A i \in S : status[i] = "applied" => plan[i].on \in live
      BY <2>1 DEF Verdicts
    <2>4. Decides(S, status)
      BY <1>1, <2>1, <2>2, <2>3 DEF Decides
    <2> QED  BY <1>1, <2>1, <2>4 DEF Answers
  <1>3. CASE Decide(S, [i \in S |-> "rejected"]) /\ Moves(t, NewTask("resume", "reject"))
    <2>1. [i \in S |-> "rejected"] \in [S -> Decided]
      BY DEF Decided
    <2>2. \A i \in S : [j \in S |-> "rejected"][i] = "applied" => plan[i].on \in live
      OBVIOUS
    <2>3. Decides(S, [i \in S |-> "rejected"])
      BY <1>1, <1>3, <2>1, <2>2 DEF Decides
    <2> QED  BY <1>1, <1>3, <2>3 DEF Answers
  <1> QED  BY <1>2, <1>3 DEF ResumeRun

LEMMA SingleDecisionBase ==
  ASSUME BaseInv, UNCHANGED plan, NEW i \in Steps, DecideProposal(i) \/ ProposalExpires(i)
  PROVE  BaseInv'
  <1>1. PICK S, status : Decides(S, status)
    BY SingleDecision
  <1>2. UNCHANGED <<checkpoint, task, token, cancel, undo>> /\ run' \in {run, "failed"}
    BY SingleDecision
  <1>3. run' \in Statuses /\ task' \in [Tasks -> {NoTask} \cup TaskRecords]
    BY <1>2 DEF BaseInv, TypeOK, Statuses, Ended
  <1> QED  BY <1>1, <1>2, <1>3, DecisionBase DEF Decides

LEMMA ResumeBase ==
  ASSUME BaseInv, UNCHANGED plan, NEW t \in Tasks, NEW S \in SUBSET PendingSteps, ResumeRun(t, S)
  PROVE  BaseInv'
  <1>1. PICK status : Decides(S, status)
    BY ResumeDecides
  <1>2. PICK answer \in Answers : Moves(t, NewTask("resume", answer))
    BY ResumeDecides
  <1>3. run = "waiting_human" /\ UNCHANGED <<run, checkpoint, token, cancel, undo>>
    BY ResumeDecides
  <1>4. NewTask("resume", answer) \in TaskRecords
    BY NewTaskIs DEF BaseInv, TypeOK
  <1>5. run' \in Statuses /\ task' \in [Tasks -> {NoTask} \cup TaskRecords]
    BY <1>2, <1>3, <1>4, TaskMoves DEF BaseInv, TypeOK
  <1> QED  BY <1>1, <1>3, <1>5, DecisionBase DEF Decides

LEMMA StartBase ==
  ASSUME BaseInv, UNCHANGED plan, NEW t \in Tasks, StartRun(t)
  PROVE  BaseInv'
  <1>1. /\ run = "created" /\ run' = "running" /\ Moves(t, NewTask("start", "none"))
        /\ UNCHANGED <<proposals, applied, changes, undone, live, warnings, checkpoint, token, cancel, undo>>
    BY DEF StartRun, world, story, user
  <1>2. NewTask("start", "none") \in TaskRecords
    BY NewTaskIs DEF BaseInv, TypeOK
  <1>3. task' \in [Tasks -> {NoTask} \cup TaskRecords]
    BY <1>1, <1>2, TaskMoves DEF BaseInv
  <1>4. TypeOK'
    <2>1. /\ run' \in Statuses /\ proposals' \in [Steps -> {"none", "pending"} \cup Decided]
          /\ applied' \in [Steps -> Nat]
          /\ IsSeq(changes') /\ \A c \in DOMAIN changes' : changes'[c].step \in Steps
          /\ undone' \subseteq DOMAIN changes' /\ live' \subseteq Shots /\ warnings' \subseteq Shots
          /\ checkpoint' \in Checkpoints
          /\ token' \in BOOLEAN /\ cancel' \in {"none", "running", "waiting_human"}
          /\ undo' \in [left : SUBSET DOMAIN changes', of : Nat]
      BY <1>1 DEF BaseInv, TypeOK, Statuses
    <2> QED  BY <1>3, <2>1, TypesKept DEF BaseInv
  <1>5. CancelIsSeen' /\ NotBegun'
    BY <1>1 DEF CancelIsSeen, NotBegun
  <1>6. Recording' /\ GatesOK'
    BY <1>1, SameRecords, SameGates DEF BaseInv
  <1> QED  BY <1>4, <1>5, <1>6 DEF BaseInv

\* The user and the crash make no change of the run.
Aside ==
  /\ UNCHANGED <<plan, proposals, applied, changes, warnings, checkpoint>>
  /\ task' = task \/ task' = [t \in Tasks |-> NoTask]
  /\ run' = run \/ (run # "created" /\ run' = "cancelling" /\ token')
  /\ run = "created" => cancel' = cancel
  /\ token' = token \/ token' \/ task' = [t \in Tasks |-> NoTask]
  /\ token' \in BOOLEAN /\ cancel' \in {"none", "running", "waiting_human"}
  /\ \A i \in Steps : OneGate /\ IsGate(i) /\ proposals[i] = "none" /\ plan[i].on \in live' =>
                      plan[i].on \in live
  /\ live' \subseteq Shots /\ undone' \subseteq DOMAIN changes
  /\ undo' \in [left : SUBSET DOMAIN changes, of : Nat]

LEMMA UndoIsAside ==
  ASSUME BaseInv, UNCHANGED plan, UndoesOne
  PROVE  Aside
  <1>1. TypeOK /\ Recording /\ GatesOK /\ undo.left # {} /\ undo \in [left : SUBSET DOMAIN changes, of : Nat]
    BY DEF BaseInv, TypeOK, UndoesOne
  <1>2. DOMAIN changes = 1 .. Len(changes) /\ Len(changes) \in Nat
    BY <1>1, SeqOfItsElements DEF TypeOK, IsSeq
  <1>3. PICK c \in undo.left : c = Newest(undo.left)
    <2>1. undo.left \in SUBSET (0 .. Len(changes))
      BY <1>1, <1>2
    <2>2. Max(undo.left) \in undo.left
      BY <2>1, <1>1, <1>2, MaxIsUpper
    <2> QED  BY <2>2 DEF Newest
  <1>4. c \in DOMAIN changes
    BY <1>1, <1>3
  <1>5. /\ undo' = IF undo.left = {c} THEN NoUndo ELSE [undo EXCEPT !.left = @ \ {c}]
        /\ Undoes(c) \/ UNCHANGED <<story, undone>>
        /\ UNCHANGED <<Elsewhere, changes>>
    BY <1>3 DEF UndoesOne
  <1>6. undo' \in [left : SUBSET DOMAIN changes, of : Nat]
    <2>1. NoUndo \in [left : SUBSET DOMAIN changes, of : Nat]
      BY DEF NoUndo
    <2> QED  BY <2>1, <1>1, <1>5
  <1>7. undone' \subseteq DOMAIN changes
    BY <1>4, <1>5, <1>1 DEF Undoes, TypeOK
  <1>8. \/ live' \subseteq live
        \/ Of(c).tool = "delete_shot" /\ live' = live \cup {Of(c).on}
    <2>1. CASE Undoes(c)
      BY <2>1 DEF Undoes, UndoesPatch, UndoesLifecycle, UndoesOrder
    <2> QED  BY <2>1, <1>5 DEF story
  <1>9. live' \subseteq Shots
    <2>1. \A d \in DOMAIN changes : Of(d).tool = "delete_shot" => Of(d).on \in Shots
      BY <1>1 DEF Recording
    <2>2. live \subseteq Shots
      BY <1>1 DEF TypeOK
    <2> QED  BY <2>1, <2>2, <1>4, <1>8
  <1>10. ASSUME NEW i \in Steps, OneGate, IsGate(i), proposals[i] = "none", plan[i].on \in live'
         PROVE  plan[i].on \in live
    <2>1. CASE Of(c).tool = "delete_shot"
      <3>1. PICK g \in Steps : g = changes[c].step
        BY <1>1, <1>4 DEF TypeOK
      <3>2. IsGate(g)
        BY <2>1, <3>1 DEF Of, IsGate, Gates
      <3>3. applied[g] > 0
        BY <1>1, <1>4, <3>1 DEF Recording
      <3>4. proposals[g] = "applied"
        BY <3>2, <3>3, <1>1 DEF GatesOK
      <3>5. g = i
        BY <3>2, <1>10 DEF OneGate
      <3> QED  BY <3>4, <3>5, <1>10
    <2> QED  BY <2>1, <1>8, <1>10
  <1> QED  BY <1>1, <1>5, <1>6, <1>7, <1>9, <1>10 DEF Aside, Elsewhere, TypeOK

LEMMA OthersAreAside ==
  ASSUME BaseInv, UNCHANGED plan,
         \/ \E x \in Touched : UserTouches(x)
         \/ CancelReads \/ CancelCommits \/ UndoStarts \/ Crash \/ UNCHANGED directorVars
  PROVE  Aside
  <1>1. /\ TypeOK /\ live \subseteq Shots /\ undone \subseteq DOMAIN changes
        /\ undo \in [left : SUBSET DOMAIN changes, of : Nat]
        /\ token \in BOOLEAN /\ cancel \in {"none", "running", "waiting_human"}
    BY DEF BaseInv, TypeOK
  <1>2. ASSUME NEW x \in Touched, UserTouches(x)  PROVE Aside
    <2>1. /\ UNCHANGED <<Elsewhere, changes, undone, undo>> /\ live' \subseteq live
      BY <1>2 DEF UserTouches
    <2> QED  BY <2>1, <1>1 DEF Aside, Elsewhere
  <1>3. CASE CancelReads
    BY <1>1, <1>3 DEF CancelReads, Aside, world, story
  <1>4. CASE CancelCommits
    <2>1. run # "created"
      BY <1>4 DEF CancelCommits, BaseInv, NotBegun
    <2> QED  BY <1>1, <1>4, <2>1 DEF CancelCommits, Aside, world, story, user
  <1>5. CASE UndoStarts
    <2>1. Len(changes) \in Nat
      BY <1>1 DEF TypeOK, IsSeq
    <2>2. undo' \in [left : SUBSET DOMAIN changes, of : Nat]
      BY <1>5, <2>1 DEF UndoStarts
    <2> QED  BY <1>1, <1>5, <2>2 DEF UndoStarts, Aside, Elsewhere, story
  <1>6. CASE Crash
    <2>1. NoUndo \in [left : SUBSET DOMAIN changes, of : Nat]
      BY DEF NoUndo
    <2>2. run = "created" => cancel' = cancel
      BY <1>6 DEF Crash, BaseInv, NotBegun
    <2> QED  BY <1>1, <1>6, <2>1, <2>2 DEF Crash, Aside, world, story
  <1>7. CASE UNCHANGED directorVars
    BY <1>1, <1>7 DEF directorVars, Aside, world, story, user
  <1> QED  BY <1>2, <1>3, <1>4, <1>5, <1>6, <1>7

LEMMA AsideBase ==
  ASSUME BaseInv, Aside
  PROVE  BaseInv'
  <1>1. task' \in [Tasks -> {NoTask} \cup TaskRecords]
    BY DEF Aside, BaseInv, TypeOK
  <1>2. TypeOK'
    <2>1. /\ run' \in Statuses /\ proposals' \in [Steps -> {"none", "pending"} \cup Decided]
          /\ applied' \in [Steps -> Nat]
          /\ IsSeq(changes') /\ \A c \in DOMAIN changes' : changes'[c].step \in Steps
          /\ undone' \subseteq DOMAIN changes' /\ live' \subseteq Shots /\ warnings' \subseteq Shots
          /\ checkpoint' \in Checkpoints
          /\ token' \in BOOLEAN /\ cancel' \in {"none", "running", "waiting_human"}
          /\ undo' \in [left : SUBSET DOMAIN changes', of : Nat]
      BY DEF Aside, BaseInv, TypeOK, Statuses
    <2> QED  BY <1>1, <2>1, TypesKept DEF BaseInv, Aside
  <1>3. task' = task => Driving' = Driving
    BY DEF Driving
  <1>4. task' = [t \in Tasks |-> NoTask] => Driving' = {}
    BY DEF Driving
  <1>5. CancelIsSeen'
    BY <1>3, <1>4 DEF Aside, BaseInv, CancelIsSeen
  <1>6. NotBegun'
    <2>1. Steps' = Steps
      BY DEF Aside, Steps
    <2> QED  BY <2>1, <1>3, <1>4 DEF Aside, BaseInv, NotBegun
  <1>7. Recording' /\ GatesOK'
    BY SameRecords, SameGates DEF Aside, BaseInv
  <1> QED  BY <1>2, <1>5, <1>6, <1>7 DEF BaseInv

----------------------------------------------------------------------------
(* With one gate: which passes there are, and where they stand.            *)

LEMMA SamePlan ==
  ASSUME UNCHANGED plan
  PROVE  /\ Steps' = Steps /\ Shots' = Shots /\ OneGate' = OneGate /\ NoRework' = NoRework
         /\ \A i : IsGate(i)' <=> IsGate(i)
         /\ \A i : IsLast(i)' <=> IsLast(i)
  BY DEF Steps, Shots, IsGate, OneGate, NoRework, IsLast

LEMMA OpenKept ==
  ASSUME UNCHANGED plan, warnings' \subseteq warnings, NEW i \in Steps, proposals'[i] = proposals[i],
         proposals[i] = "none" /\ plan[i].on \in live' => plan[i].on \in live, Open(i)
  PROVE  Open(i)'
  <1>1. TargetFound(i)' /\ proposals[i] = "none" => TargetFound(i)
    BY DEF TargetFound
  <1>2. Open(i)' <=> proposals'[i] # "pending" /\ (proposals'[i] = "none" => ~TargetFound(i)')
    BY DEF Open
  <1> QED  BY <1>1, <1>2 DEF Open

LEMMA PassesKept ==
  ASSUME TypeOK, PassesOK, AnswersOK, NEW t \in Driving, NEW k \in {NoTask} \cup TaskRecords, Moves(t, k),
         Running(k) => Active(t), UNCHANGED <<plan, proposals>>,
         k # NoTask => k.answers = task[t].answers /\ k.answer = task[t].answer,
         checkpoint'.answers \in {checkpoint.answers, task[t].answers}
  PROVE  PassesOK' /\ AnswersOK'
  <1>1. t \in Tasks /\ task'[t] = k /\ \A u \in Tasks \ {t} : task'[u] = task[u]
    BY TaskMoves DEF Driving
  <1>2. \A u \in Tasks : Active(u)' => Active(u)
    <2> SUFFICES ASSUME NEW u \in Tasks, Running(task'[u])  PROVE Running(task[u])
      BY DEF Active
    <2> QED  BY <1>1 DEF Active
  <1>3. Steps' = Steps /\ PendingSteps' = PendingSteps
    BY SamePlan DEF PendingSteps
  <1>4. PassesOK'
    BY <1>2, <1>3 DEF PassesOK
  <1>5. ASSUME NEW u \in Driving'
        PROVE  task'[u].answers = <<>> /\ (task'[u].answer # "none" => \E i \in Steps : proposals[i] # "none")
    <2>1. u \in Tasks /\ task'[u] # NoTask
      BY DEF Driving
    <2>2. task'[u].answers = task[u].answers /\ task'[u].answer = task[u].answer /\ u \in Driving
      BY <2>1, <1>1 DEF Driving
    <2> QED  BY <2>2 DEF AnswersOK
  <1>6. AnswersOK'
    <2>1. checkpoint'.answers = <<>>
      BY DEF AnswersOK
    <2> QED  BY <2>1, <1>3, <1>5 DEF AnswersOK
  <1> QED  BY <1>4, <1>6

LEMMA StepsKept ==
  ASSUME TypeOK, OneGate, PassesOK, StepsOK, UNCHANGED plan, NEW t \in Tasks,
         NEW k \in {NoTask} \cup TaskRecords, Moves(t, k),
         Running(k) => Active(t) /\ task[t].step <= k.step,
         \A i \in Steps : IsGate(i) /\ Open(i) => Open(i)',
         \A i \in Steps : Running(k) /\ IsGate(i) /\ i < k.step => i < task[t].step \/ Open(i)',
         \A j \in Steps : ~IsGate(j) /\ applied'[j] > 0 =>
           applied[j] > 0 \/ (j = task[t].step /\ Active(t) /\ j < k.step),
         \A j \in Steps : IsGate(j) => applied'[j] = applied[j]
  PROVE  StepsOK'
  <1>1. task'[t] = k /\ \A u \in Tasks \ {t} : task'[u] = task[u]
    BY TaskMoves
  <1>2. Steps = 1 .. Len(plan) /\ Len(plan) \in Nat
    BY PlanIsSeq DEF TypeOK
  <1>3. \A u \in Tasks : Active(u) => task[u] \in TaskRecords
    BY NoTaskIsIdle DEF TypeOK, Active
  <1>4. \A u \in Tasks : Active(u)' => Active(u)
    <2> SUFFICES ASSUME NEW u \in Tasks, Running(task'[u])  PROVE Running(task[u])
      BY DEF Active
    <2> QED  BY <1>1 DEF Active
  <1>5. ASSUME NEW u \in Tasks, NEW i \in Steps, Active(u)', IsGate(i), i < task'[u].step
        PROVE  Open(i)'
    <2>1. CASE u = t
      <3>1. Running(k) /\ i < k.step
        BY <2>1, <1>1, <1>5 DEF Active
      <3>2. CASE i < task[t].step
        <4>1. Active(t)
          BY <3>1
        <4>2. Open(i)
          BY <4>1, <3>2, <1>5 DEF StepsOK
        <4> QED  BY <4>2, <1>5
      <3> QED  BY <3>1, <3>2, <1>5
    <2>2. CASE u # t
      <3>1. Active(u) /\ i < task[u].step
        BY <2>2, <1>1, <1>4, <1>5
      <3>2. Open(i)
        BY <3>1, <1>5 DEF StepsOK
      <3> QED  BY <3>2, <1>5
    <2> QED  BY <2>1, <2>2
  <1>6. ASSUME NEW i \in Steps, NEW j \in Steps, IsGate(i), i < j, applied'[j] > 0
        PROVE  Open(i)'
    <2>1. ~IsGate(j)
      BY <1>2, <1>6 DEF OneGate
    <2>2. CASE applied[j] > 0
      BY <2>2, <1>6 DEF StepsOK
    <2>3. CASE j = task[t].step /\ Active(t)
      BY <2>3, <1>6 DEF StepsOK
    <2> QED  BY <2>1, <2>2, <2>3, <1>6
  <1>7. ASSUME NEW j \in Steps, ~IsGate(j), applied'[j] > 0, IsLast(j), NEW u \in Tasks, Active(u)',
               task'[u].step <= j
        PROVE  FALSE
    <2>1. CASE applied[j] > 0
      <3>1. ~Behind(u, j)
        BY <2>1, <1>7 DEF StepsOK
      <3>2. Active(u)
        BY <1>4, <1>7
      <3>3. task[u].step <= j
        <4>1. CASE u = t
          <5>1. Running(k) /\ k.step <= j
            BY <4>1, <1>1, <1>7 DEF Active
          <5>2. k \in TaskRecords /\ task[t].step \in Int /\ k.step \in Int
            BY <5>1, <1>2, <1>3, NoTaskIsIdle DEF TaskRecords
          <5> QED  BY <4>1, <5>1, <5>2, <1>2
        <4> QED  BY <4>1, <1>1, <1>7
      <3> QED  BY <3>1, <3>2, <3>3 DEF Behind
    <2>2. CASE j = task[t].step /\ Active(t) /\ j < k.step
      <3>1. u = t
        BY <2>2, <1>4, <1>7 DEF PassesOK
      <3>2. Running(k) /\ k.step <= j
        BY <3>1, <1>1, <1>7 DEF Active
      <3>3. k \in TaskRecords /\ k.step \in Int
        BY <3>2, <1>2, NoTaskIsIdle DEF TaskRecords
      <3> QED  BY <3>2, <3>3, <2>2, <1>2
    <2> QED  BY <2>1, <2>2, <1>7
  <1>8. \A u \in Tasks : \A j : Behind(u, j)' <=> Active(u)' /\ task'[u].step <= j
    BY DEF Behind
  <1> QED  BY <1>5, <1>6, <1>7, <1>8, SamePlan DEF StepsOK

LEMMA PassedIsOpen ==
  ASSUME BaseInv, OneGate, PassesOK, NEW t \in Tasks, Active(t), NEW s \in Steps, PassedGate(s)
  PROVE  IsGate(s) /\ Open(s)
  <1>1. IsGate(s) /\ proposals[s] # "pending"
    BY DEF PassedGate, PassesOK, PendingSteps
  <1>2. CASE GateIsDecided(s)
    <2>1. PICK j \in Steps : plan[j].tool = plan[s].tool /\ proposals[j] # "none"
      BY <1>2 DEF GateIsDecided, Existing
    <2>2. j = s
      BY <1>1, <2>1 DEF OneGate, IsGate
    <2> QED  BY <1>1, <2>1, <2>2 DEF Open
  <1>3. CASE ~TargetFound(s)
    BY <1>1, <1>3 DEF Open
  <1> QED  BY <1>1, <1>2, <1>3 DEF PassedGate

LEMMA QuietGates ==
  ASSUME BaseInv, OneGate, GateInv, NEW t \in Tasks, NEW k, Quiet(t, k)
  PROVE  GateInv'
  <1>1. /\ TypeOK /\ PassesOK /\ AnswersOK /\ StepsOK
        /\ UNCHANGED <<plan, proposals, applied, live, warnings>>
        /\ t \in Driving /\ Moves(t, k) /\ k \in {NoTask} \cup TaskRecords
    BY DEF BaseInv, GateInv, Quiet, world, story
  <1>2. PassesOK' /\ AnswersOK'
    BY <1>1, PassesKept DEF Quiet
  <1>3. \A i \in Steps : Open(i) => Open(i)'
    BY <1>1, OpenKept
  <1>4. Running(k) => Active(t) /\ task[t].step <= k.step
    <2>1. task[t] \in TaskRecords
      BY <1>1 DEF TypeOK, Driving
    <2>2. task[t].step \in Nat
      BY <2>1, <1>1, PlanIsSeq DEF TaskRecords, TypeOK
    <2> QED  BY <2>2 DEF Quiet
  <1>5. ASSUME NEW i \in Steps, Running(k), IsGate(i), i < k.step
        PROVE  i < task[t].step \/ Open(i)'
    <2>1. CASE k.step = task[t].step
      BY <2>1, <1>5
    <2>2. CASE k.step = task[t].step + 1 /\ PassedGate(task[t].step) /\ task[t].step \in Steps
      <3>1. PICK s \in Steps : s = task[t].step
        BY <2>2
      <3>2. IsGate(s) /\ Open(s)
        BY <2>2, <3>1, <1>1, <1>4, <1>5, PassedIsOpen
      <3>3. i = s
        BY <3>2, <1>5 DEF OneGate
      <3> QED  BY <3>2, <3>3, <1>3
    <2> QED  BY <2>1, <2>2, <1>5 DEF Quiet
  <1>6. StepsOK'
    BY <1>1, <1>3, <1>4, <1>5, StepsKept
  <1> QED  BY <1>2, <1>6 DEF GateInv

LEMMA ToolGates ==
  ASSUME BaseInv, OneGate, GateInv, NEW t \in Tasks, ToolStep(t)
  PROVE  GateInv'
  <1>1. /\ TypeOK /\ PassesOK /\ AnswersOK /\ StepsOK
        /\ UNCHANGED <<plan, proposals, warnings, checkpoint>> /\ AtStep(t) /\ ~IsGate(task[t].step)
    BY DEF BaseInv, GateInv, ToolStep
  <1>2. PICK k \in TaskRecords : /\ Moves(t, k) /\ k.step = task[t].step + 1 /\ k.at = "execute"
                                 /\ k.answers = task[t].answers /\ k.answer = task[t].answer
    BY <1>1, ToolMoves
  <1>3. PICK s \in Steps : s = task[t].step
    BY <1>1, ToolMoves
  <1>4. t \in Driving /\ Active(t) /\ s \in Nat
    BY <1>1, <1>3, ToolMoves, PlanIsSeq DEF TypeOK
  <1>5. PassesOK' /\ AnswersOK'
    BY <1>1, <1>2, <1>4, PassesKept
  <1>6. ASSUME NEW i \in Steps, IsGate(i), Open(i)  PROVE Open(i)'
    <2>1. plan[i].on \in live' => plan[i].on \in live
      <3>1. CASE plan[s].tool = "create_shot" /\ live' = live \cup {plan[s].on}
        <4>1. i # s
          BY <1>1, <1>3, <1>6
        <4>2. plan[i].on # plan[s].on
          BY <4>1, <3>1, <1>1 DEF TypeOK, Steps
        <4> QED  BY <4>2, <3>1
      <3>2. CASE live' = live
        BY <3>2
      <3>3. CASE ToolLeaves(t)
        BY <3>3 DEF ToolLeaves, Leaves, story
      <3> QED  BY <3>1, <3>2, <3>3, <1>3 DEF ToolStep, ToolApplies
    <2> QED  BY <2>1, <1>1, <1>6, OpenKept
  <1>7. /\ \A j \in Steps : ~IsGate(j) /\ applied'[j] > 0 => applied[j] > 0 \/ j = s
        /\ \A j \in Steps : IsGate(j) => applied'[j] = applied[j]
    <2>1. CASE ToolApplies(t)
      <3>1. \A j \in Steps : applied'[j] = IF j = s THEN applied[j] + 1 ELSE applied[j]
        BY <2>1, <1>1, <1>3, ApplyingEffects DEF ToolApplies
      <3> QED  BY <3>1, <1>1, <1>3
    <2>2. CASE ToolLeaves(t)
      BY <2>2 DEF ToolLeaves, Leaves
    <2> QED  BY <2>1, <2>2 DEF ToolStep
  <1>8. Running(k) => Active(t) /\ task[t].step <= k.step
    BY <1>2, <1>3, <1>4
  <1>9. ASSUME NEW i \in Steps, Running(k), IsGate(i), i < k.step  PROVE i < task[t].step
    <2>1. i \in Nat /\ i # s
      BY <1>1, <1>3, <1>9, PlanIsSeq DEF TypeOK
    <2> QED  BY <2>1, <1>2, <1>3, <1>4, <1>9
  <1>10. \A j \in Steps : ~IsGate(j) /\ applied'[j] > 0 =>
           applied[j] > 0 \/ (j = task[t].step /\ Active(t) /\ j < k.step)
    BY <1>2, <1>3, <1>4, <1>7
  <1>11. StepsOK'
    BY <1>1, <1>2, <1>6, <1>7, <1>8, <1>9, <1>10, StepsKept
  <1> QED  BY <1>5, <1>11 DEF GateInv

(* The question suspends the only pass there is.                           *)
LEMMA ProposesGates ==
  ASSUME BaseInv, OneGate, GateInv, UNCHANGED plan, NEW t \in Tasks, Proposes(t)
  PROVE  GateInv'
  <1>1. TypeOK /\ PassesOK /\ AnswersOK /\ StepsOK /\ GatesOK
    BY DEF BaseInv, GateInv
  <1>2. PICK s \in Steps : s = task[t].step
    BY ProposesEffects
  <1>3. /\ IsGate(s) /\ t \in Driving /\ Active(t) /\ proposals[s] = "none" /\ TargetFound(s)
        /\ proposals' = [proposals EXCEPT ![s] = "pending"]
        /\ UNCHANGED <<applied, live, warnings, checkpoint>>
    BY <1>2, ProposesEffects DEF story
  <1>4. \A i \in Steps : proposals[i] = "none"
    <2>1. \A i \in Steps : IsGate(i) => i = s
      BY <1>3 DEF OneGate
    <2> QED  BY <2>1, <1>1, <1>3 DEF GatesOK
  <1>5. task[t].answers = <<>> /\ task[t].answer = "none"
    BY <1>1, <1>3, <1>4 DEF AnswersOK
  <1>6. PICK k \in TaskRecords : /\ Moves(t, k) /\ k.at = "suspended" /\ k.answers = <<>>
                                 /\ k.answer = "none"
    BY <1>5, ProposesEffects
  <1>7. ~Running(k)
    BY <1>6 DEF Running
  <1>8. task'[t] = k /\ \A u \in Tasks \ {t} : task'[u] = task[u]
    BY <1>1, <1>6, TaskMoves
  <1>9. \A u \in Tasks : ~Active(u)'
    <2> SUFFICES ASSUME NEW u \in Tasks, Running(task'[u])  PROVE FALSE
      BY DEF Active
    <2>1. u # t
      BY <1>7, <1>8
    <2>2. Active(u)
      BY <2>1, <1>8 DEF Active
    <2> QED  BY <2>1, <2>2, <1>1, <1>3 DEF PassesOK
  <1>10. PassesOK'
    BY <1>9 DEF PassesOK
  <1>11. AnswersOK'
    <2>1. ASSUME NEW u \in Driving'  PROVE task'[u].answers = <<>> /\ task'[u].answer = "none"
      <3>1. CASE u = t
        BY <3>1, <1>6, <1>8
      <3>2. CASE u # t
        <4>1. u \in Tasks /\ task'[u] = task[u] /\ u \in Driving
          BY <3>2, <1>8, <2>1 DEF Driving
        <4> QED  BY <4>1, <1>1, <1>4 DEF AnswersOK
      <3> QED  BY <3>1, <3>2
    <2>2. checkpoint'.answers = <<>>
      BY <1>1, <1>3 DEF AnswersOK
    <2> QED  BY <2>1, <2>2 DEF AnswersOK
  <1>12. \A i \in Steps : IsGate(i) => ~Open(i)
    BY <1>3, <1>4 DEF OneGate, Open
  <1>13. StepsOK'
    <2>1. \A i \in Steps : Running(k) /\ IsGate(i) /\ i < k.step => i < task[t].step \/ Open(i)'
      BY <1>7
    <2> QED  BY <1>1, <1>3, <1>6, <1>7, <1>12, <2>1, StepsKept
  <1> QED  BY <1>10, <1>11, <1>13 DEF GateInv

LEMMA StartGates ==
  ASSUME BaseInv, OneGate, GateInv, UNCHANGED plan, NEW t \in Tasks, StartRun(t)
  PROVE  GateInv'
  <1>1. /\ Driving = {} /\ Moves(t, NewTask("start", "none"))
        /\ UNCHANGED <<proposals, applied, checkpoint>>
        /\ \A i \in Steps : proposals[i] = "none" /\ applied[i] = 0
    BY DEF StartRun, world, BaseInv, NotBegun
  <1>2. PICK k \in TaskRecords : k = NewTask("start", "none")
    BY NewTaskIs DEF BaseInv, TypeOK
  <1>3. k.step = 1 /\ k.answers = checkpoint.answers /\ k.answer = "none"
    BY <1>2, NewTaskIs DEF BaseInv, TypeOK
  <1>4. task'[t] = k /\ \A u \in Tasks \ {t} : task'[u] = NoTask
    <2>1. \A u \in Tasks : task[u] = NoTask
      BY <1>1 DEF Driving
    <2> QED  BY <2>1, <1>1, <1>2, TaskMoves DEF BaseInv
  <1>5. \A u \in Tasks : Active(u)' => u = t
    <2> SUFFICES ASSUME NEW u \in Tasks, Running(task'[u]), u # t  PROVE FALSE
      BY DEF Active
    <2> QED  BY <1>4, NoTaskIsIdle
  <1>6. PassesOK'
    BY <1>1, <1>5, SamePlan DEF PassesOK, PendingSteps
  <1>7. AnswersOK'
    <2>1. ASSUME NEW u \in Driving'  PROVE task'[u].answers = <<>> /\ task'[u].answer = "none"
      <3>1. u = t
        BY <1>4, <2>1 DEF Driving
      <3> QED  BY <3>1, <1>3, <1>4 DEF GateInv, AnswersOK
    <2> QED  BY <2>1, <1>1 DEF GateInv, AnswersOK
  <1>8. StepsOK'
    <2>1. \A u \in Tasks, i \in Steps : Active(u)' => ~(i < task'[u].step)
      BY <1>3, <1>4, <1>5, PlanIsSeq DEF BaseInv, TypeOK
    <2>2. \A j \in Steps : ~(applied'[j] > 0)
      BY <1>1
    <2> QED  BY <2>1, <2>2, SamePlan DEF StepsOK
  <1> QED  BY <1>6, <1>7, <1>8 DEF GateInv

LEMMA AsideGates ==
  ASSUME BaseInv, OneGate, GateInv, Aside
  PROVE  GateInv'
  <1>1. TypeOK /\ PassesOK /\ AnswersOK /\ StepsOK /\ UNCHANGED <<plan, proposals, applied, warnings, checkpoint>>
    BY DEF BaseInv, GateInv, Aside
  <1>2. \A u \in Tasks : task'[u] = task[u] \/ task'[u] = NoTask
    BY DEF Aside
  <1>3. \A u \in Tasks : Active(u)' => Active(u) /\ task'[u] = task[u]
    <2> SUFFICES ASSUME NEW u \in Tasks, Running(task'[u])  PROVE Active(u) /\ task'[u] = task[u]
      BY DEF Active
    <2> QED  BY <1>2, NoTaskIsIdle DEF Active
  <1>4. Steps' = Steps /\ PendingSteps' = PendingSteps
    BY <1>1, SamePlan DEF PendingSteps
  <1>5. PassesOK'
    BY <1>1, <1>3, <1>4 DEF PassesOK
  <1>6. AnswersOK'
    <2>1. \A u \in Driving' : u \in Driving /\ task'[u] = task[u]
      BY <1>2 DEF Driving
    <2> QED  BY <2>1, <1>1, <1>4 DEF AnswersOK
  <1>7. \A i \in Steps : IsGate(i) /\ Open(i) => Open(i)'
    <2> SUFFICES ASSUME NEW i \in Steps, IsGate(i), Open(i)  PROVE Open(i)'
      OBVIOUS
    <2>1. proposals[i] = "none" /\ plan[i].on \in live' => plan[i].on \in live
      BY DEF Aside
    <2> QED  BY <2>1, <1>1, OpenKept
  <1>8. StepsOK'
    <2>1. \A u \in Tasks, i \in Steps : Active(u)' /\ IsGate(i) /\ i < task'[u].step => Open(i)'
      BY <1>1, <1>3, <1>7 DEF StepsOK
    <2>2. \A i, j \in Steps : IsGate(i) /\ i < j /\ applied'[j] > 0 => Open(i)'
      BY <1>1, <1>7 DEF StepsOK
    <2>3. \A j \in Steps : ~IsGate(j) /\ applied'[j] > 0 /\ IsLast(j) => \A u \in Tasks : ~Behind(u, j)'
      <3>1. \A u \in Tasks : \A j : Behind(u, j)' => Behind(u, j)
        BY <1>3 DEF Behind
      <3> QED  BY <3>1, <1>1 DEF StepsOK
    <2> QED  BY <2>1, <2>2, <2>3, <1>1, SamePlan DEF StepsOK
  <1> QED  BY <1>5, <1>6, <1>8 DEF GateInv

(* A decision answers the only question; a task may go on with the answer. *)
LEMMA DecisionGates ==
  ASSUME BaseInv, OneGate, GateInv, UNCHANGED <<plan, checkpoint>>, NEW S, NEW status, Decides(S, status),
         task' = task \/ \E t \in Tasks, answer \in Answers : Moves(t, NewTask("resume", answer))
  PROVE  GateInv'
  <1>1. TypeOK /\ PassesOK /\ AnswersOK /\ StepsOK /\ GatesOK
    BY DEF BaseInv, GateInv
  <1>2. PICK g \in S : TRUE
    BY DEF Decides
  <1>3. g \in Steps /\ proposals[g] = "pending" /\ IsGate(g)
    BY <1>1 DEF Decides, PendingSteps, GatesOK
  <1>4. /\ \A i \in Steps : proposals'[i] = IF i \in S THEN status[i] ELSE proposals[i]
        /\ \A i \in Steps : i \notin S => applied'[i] = applied[i]
    <2>1. S \in SUBSET PendingSteps /\ status \in [S -> Decided] /\ Decide(S, status)
      BY DEF Decides
    <2>2. \A i \in S : status[i] = "applied" => plan[i].on \in live
      BY DEF Decides
    <2>3. BaseInv /\ UNCHANGED plan
      OBVIOUS
    <2>4. \A i \in Steps : proposals'[i] = IF i \in S THEN status[i] ELSE proposals[i]
      BY ONLY <2>1, <2>2, <2>3, DecisionEffects
    <2>5. \A i \in Steps : i \notin S => applied'[i] = applied[i]
      BY ONLY <2>1, <2>2, <2>3, DecisionEffects
    <2> QED  BY <2>4, <2>5
  <1>5. status[g] \in Decided /\ \A i \in S : i \in Steps /\ IsGate(i) /\ status[i] \in Decided
    BY <1>1 DEF Decides, PendingSteps, GatesOK
  <1>6. \A u \in Tasks : ~Active(u)
    BY <1>1, <1>3 DEF PassesOK, PendingSteps
  <1>7. PendingSteps' = {}
    <2> SUFFICES ASSUME NEW i \in Steps, proposals'[i] = "pending"  PROVE FALSE
      BY SamePlan DEF PendingSteps
    <2>1. i \notin S /\ proposals[i] = "pending"
      BY <1>4, <1>5 DEF Decided
    <2>2. i = g
      BY <2>1, <1>1, <1>3 DEF GatesOK, OneGate
    <2> QED  BY <2>1, <2>2, <1>2
  <1>8. proposals'[g] # "none"
    BY <1>2, <1>3, <1>4, <1>5 DEF Decided
  <1>9. PICK t : /\ \A u \in Tasks : Active(u)' => u = t /\ task'[u].step = 1
                 /\ \A u \in Tasks : task'[u] # NoTask /\ u # t => task'[u] = task[u]
                 /\ t \in Tasks /\ task'[t] # NoTask =>
                      task'[t].answers = checkpoint.answers \/ task'[t] = task[t]
    <2>1. CASE task' = task
      <3>1. \A u \in Tasks : ~Active(u)'
        BY <2>1, <1>6 DEF Active
      <3> QED  BY <2>1, <3>1
    <2>2. CASE \E t \in Tasks, answer \in Answers : Moves(t, NewTask("resume", answer))
      <3>1. PICK t \in Tasks, answer \in Answers : Moves(t, NewTask("resume", answer))
        BY <2>2
      <3>2. PICK k \in TaskRecords : k = NewTask("resume", answer)
        BY NewTaskIs DEF BaseInv, TypeOK
      <3>3. k.step = 1 /\ k.answers = checkpoint.answers
        BY <3>2, NewTaskIs DEF BaseInv, TypeOK
      <3>4. task'[t] = k /\ \A u \in Tasks \ {t} : task'[u] = task[u]
        BY <1>1, <3>1, <3>2, TaskMoves
      <3>5. \A u \in Tasks : Active(u)' => u = t
        <4> SUFFICES ASSUME NEW u \in Tasks, Running(task'[u]), u # t  PROVE FALSE
          BY DEF Active
        <4> QED  BY <3>4, <1>6 DEF Active
      <3> QED  BY <3>3, <3>4, <3>5
    <2> QED  BY <2>1, <2>2
  <1>10. PassesOK'
    BY <1>7, <1>9 DEF PassesOK
  <1>11. AnswersOK'
    <2>1. ASSUME NEW u \in Driving'  PROVE task'[u].answers = <<>>
      <3>1. u \in Tasks /\ task'[u] # NoTask
        BY <2>1 DEF Driving
      <3>2. task'[u] = task[u] \/ task'[u].answers = checkpoint.answers
        BY <3>1, <1>9
      <3>3. task'[u] = task[u] => u \in Driving
        BY <3>1 DEF Driving
      <3> QED  BY <3>2, <3>3, <1>1 DEF AnswersOK
    <2> QED  BY <2>1, <1>1, <1>3, <1>8, SamePlan DEF AnswersOK
  <1>12. StepsOK'
    <2>1. \A i \in Steps : IsGate(i) => ~Open(i)
      BY <1>3 DEF OneGate, Open
    <2>2. \A u \in Tasks, i \in Steps : Active(u)' => ~(i < task'[u].step)
      BY <1>9, <1>1, PlanIsSeq DEF TypeOK
    <2>3. \A j \in Steps : ~IsGate(j) => applied'[j] = applied[j]
      BY <1>4, <1>5
    <2>4. ASSUME NEW i \in Steps, NEW j \in Steps, IsGate(i), i < j, applied'[j] > 0
          PROVE  FALSE
      <3>1. ~IsGate(j)
        BY <1>1, <2>4, PlanIsSeq DEF OneGate, TypeOK
      <3> QED  BY <3>1, <2>1, <2>3, <2>4, <1>1 DEF StepsOK
    <2>5. ASSUME NEW j \in Steps, ~IsGate(j), applied'[j] > 0, IsLast(j)
          PROVE  FALSE
      <3>1. g <= j /\ g # j
        BY <2>5, <1>3 DEF IsLast
      <3>2. g < j
        BY <3>1, <1>1, <1>3, PlanIsSeq DEF TypeOK
      <3> QED  BY <3>2, <2>4, <2>5, <1>3
    <2> QED  BY <2>2, <2>4, <2>5, SamePlan DEF StepsOK
  <1> QED  BY <1>10, <1>11, <1>12 DEF GateInv

----------------------------------------------------------------------------
(* The repeated node recognises what it has done.                          *)

LEMMA RepeatIsRecognised ==
  ASSUME BaseInv, OneGate, StepsOK, NoRework, NEW t \in Tasks, NEW s \in Steps, s = task[t].step,
         Active(t), ~IsGate(s), applied[s] > 0
  PROVE  Recognised(s)
  <1>1. /\ TypeOK /\ Recording /\ Len(changes) \in Nat /\ DOMAIN changes = 1 .. Len(changes)
        /\ \A c \in DOMAIN changes : changes[c].step \in Steps
    BY SeqOfItsElements DEF BaseInv, TypeOK, IsSeq
  <1>2. Steps = 1 .. Len(plan) /\ Len(plan) \in Nat
    BY <1>1, PlanIsSeq DEF TypeOK
  <1>3. PICK c \in DOMAIN changes : changes[c].step = s
    BY <1>1 DEF Recording
  <1>4. CASE plan[s].tool = "create_shot"
    <2>1. AlreadyCreated(s)
      BY <1>3, <1>4 DEF AlreadyCreated, Of
    <2> QED  BY <2>1, <1>4 DEF Recognised
  <1>5. CASE plan[s].tool # "create_shot"
    <2> DEFINE same == {d \in DOMAIN changes : Of(d).tool = plan[s].tool /\ Of(d).on = plan[s].on}
    <2>1. c \in same
      BY <1>3 DEF Of
    <2>2. same \in SUBSET (0 .. Len(changes))
      BY <1>1
    <2>3. PICK m \in same : m = Max(same)
      <3> HIDE DEF same
      <3> QED  BY <2>1, <2>2, <1>1, MaxIsUpper
    <2>4. PICK j \in Steps : j = changes[m].step
      BY <1>1
    <2>5. plan[j].tool = plan[s].tool /\ plan[j].on = plan[s].on /\ applied[j] > 0
      BY <2>4, <1>1 DEF Recording, Of
    <2>6. ~IsGate(j)
      BY <2>5 DEF IsGate
    <2>7. ~IsLast(s)
      <3>1. s <= s
        BY <1>2
      <3> QED  BY <3>1 DEF StepsOK, Behind
    <2>8. PICK g \in Steps : IsGate(g) /\ ~(g <= s)
      BY <2>7 DEF IsLast
    <2>9. s < g
      BY <2>8, <1>2
    <2>10. j < g
      <3>1. CASE g < j
        <4>1. IsLast(j)
          BY <3>1, <2>8, <1>2 DEF IsLast, OneGate
        <4>2. Behind(t, j)
          BY <3>1, <2>9, <1>2 DEF Behind
        <4> QED  BY <4>1, <4>2, <2>5, <2>6 DEF StepsOK
      <3>2. j # g
        BY <2>6, <2>8
      <3> QED  BY <3>1, <3>2, <1>2
    <2>11. plan[j].patch = plan[s].patch /\ plan[j].order = plan[s].order
      BY <2>5, <2>8, <2>9, <2>10, <1>5 DEF NoRework
    <2>12. AlreadyApplied(s)
      <3>1. Of(Max(same)) = plan[j]
        BY <2>3, <2>4 DEF Of
      <3> QED  BY <3>1, <2>1, <2>11 DEF AlreadyApplied
    <2> QED  BY <2>12, <1>5 DEF Recognised
  <1> QED  BY <1>4, <1>5

LEMMA ToolOnce ==
  ASSUME BaseInv, OneGate, GateInv, NoRework, EditsOnce, NEW t \in Tasks, ToolStep(t)
  PROVE  EditsOnce'
  <1>1. TypeOK /\ UNCHANGED plan /\ AtStep(t) /\ ~IsGate(task[t].step) /\ applied \in [Steps -> Nat]
    BY DEF BaseInv, ToolStep, TypeOK
  <1>2. PICK s \in Steps : s = task[t].step
    BY <1>1, ToolMoves
  <1>3. CASE ToolApplies(t)
    <2>1. \A j \in Steps : applied'[j] = IF j = s THEN applied[j] + 1 ELSE applied[j]
      BY <1>1, <1>2, <1>3, ApplyingEffects DEF ToolApplies
    <2>2. ~(applied[s] > 0)
      <3>1. Active(t)
        BY <1>1, ToolMoves
      <3>2. ~Recognised(s)
        BY <1>2, <1>3 DEF ToolApplies
      <3> QED  BY <3>1, <3>2, <1>1, <1>2, RepeatIsRecognised DEF GateInv
    <2>3. applied[s] = 0
      BY <2>2, <1>1
    <2> QED  BY <2>1, <2>3, <1>1, SamePlan DEF EditsOnce
  <1>4. CASE ToolLeaves(t)
    BY <1>1, <1>4, SamePlan DEF EditsOnce, ToolLeaves, Leaves
  <1> QED  BY <1>3, <1>4 DEF ToolStep

LEMMA SameEdits ==
  ASSUME EditsOnce, UNCHANGED plan, \A i \in Steps : ~IsGate(i) => applied'[i] = applied[i]
  PROVE  EditsOnce'
  BY SamePlan DEF EditsOnce

----------------------------------------------------------------------------
(* The theorems.                                                           *)

LEMMA StepCases ==
  ASSUME BaseInv, DirectorNext
  PROVE  /\ UNCHANGED plan
         /\ \/ \E t \in Tasks : \E k : Quiet(t, k)
            \/ \E t \in Tasks : ToolStep(t) \/ Proposes(t) \/ StartRun(t)
            \/ \E t \in Tasks, S \in SUBSET PendingSteps : ResumeRun(t, S)
            \/ \E i \in Steps : DecideProposal(i) \/ ProposalExpires(i)
            \/ Aside
  <1>1. UNCHANGED plan /\ DirectorStep /\ TypeOK
    BY DEF DirectorNext, BaseInv
  <1>2. ASSUME NEW t \in Tasks, Drives(t) \/ NodeRaises(t)
        PROVE  (\E k : Quiet(t, k)) \/ ToolStep(t) \/ Proposes(t)
    <2>1. CASE RunsNode(t) \/ EntersExecute(t) \/ NodeRaises(t)
      BY <2>1, <1>1, NodeSteps
    <2>2. CASE PassesGate(t) \/ FailsAtGate(t)
      BY <2>2, <1>1, GateSteps
    <2>3. CASE LeavesExecute(t) \/ Reviews(t) \/ Returns(t) \/ ReadsRow(t) \/ Finalizes(t)
      BY <2>3, <1>1, EndSteps
    <2>4. CASE UpdatesShot(t) \/ UpdatesScene(t) \/ CreatesShot(t) \/ ReordersShots(t)
      BY <2>4, <1>1, ToolSteps
    <2>5. CASE Proposes(t)
      BY <2>5
    <2> QED  BY <1>2, <2>1, <2>2, <2>3, <2>4, <2>5 DEF Drives
  <1>3. ASSUME \/ \E x \in Touched : UserTouches(x)
               \/ CancelReads \/ CancelCommits \/ UndoStarts \/ UndoesOne \/ Crash
        PROVE  Aside
    <2>1. CASE UndoesOne
      BY <2>1, <1>1, UndoIsAside
    <2>2. CASE \/ \E x \in Touched : UserTouches(x)
               \/ CancelReads \/ CancelCommits \/ UndoStarts \/ Crash
      BY <2>2, <1>1, OthersAreAside
    <2> QED  BY <1>3, <2>1, <2>2
  <1> QED  BY <1>1, <1>2, <1>3 DEF DirectorStep

LEMMA BeginsSafely ==
  ASSUME DirectorInit
  PROVE  DirectorInv
  <1>1. plan \in Plans /\ Len(plan) \in Nat /\ Steps = 1 .. Len(plan)
    BY PlanIsSeq DEF DirectorInit
  <1>2. \A t \in Tasks : task[t] = NoTask /\ ~Active(t)
    BY NoTaskIsIdle DEF DirectorInit, Active
  <1>3. Driving = {}
    BY <1>2 DEF Driving
  <1>4. TypeOK
    <2>1. IsSeq(changes) /\ DOMAIN changes = {}
      BY DEF DirectorInit, IsSeq
    <2>2. checkpoint \in Checkpoints
      BY NodesAre DEF DirectorInit, Checkpoints, Results
    <2>3. undo \in [left : SUBSET DOMAIN changes, of : Nat]
      BY DEF DirectorInit, NoUndo
    <2> QED  BY <2>1, <2>2, <2>3, <1>1 DEF DirectorInit, TypeOK, Statuses, Shots
  <1>5. CancelIsSeen /\ NotBegun
    BY <1>3 DEF DirectorInit, CancelIsSeen, NotBegun
  <1>6. Recording /\ GatesOK /\ EditsOnce
    BY <1>1 DEF DirectorInit, Recording, GatesOK, EditsOnce
  <1>7. PassesOK /\ AnswersOK
    BY <1>2, <1>3 DEF DirectorInit, PassesOK, AnswersOK
  <1>8. StepsOK
    BY <1>2 DEF DirectorInit, StepsOK
  <1> QED  BY <1>4, <1>5, <1>6, <1>7, <1>8 DEF DirectorInv, BaseInv, GateInv

LEMMA StepKeepsBase ==
  ASSUME BaseInv, DirectorNext
  PROVE  BaseInv'
  <1>1. UNCHANGED plan
    BY StepCases
  <1>2. ASSUME NEW t \in Tasks, \E k : Quiet(t, k)  PROVE BaseInv'
    BY <1>2, QuietBase
  <1>3. ASSUME NEW t \in Tasks, ToolStep(t) \/ Proposes(t) \/ StartRun(t)  PROVE BaseInv'
    BY <1>1, <1>3, ToolBase, ProposesBase, StartBase
  <1>4. ASSUME NEW t \in Tasks, NEW S \in SUBSET PendingSteps, ResumeRun(t, S)  PROVE BaseInv'
    BY <1>1, <1>4, ResumeBase
  <1>5. ASSUME NEW i \in Steps, DecideProposal(i) \/ ProposalExpires(i)  PROVE BaseInv'
    BY <1>1, <1>5, SingleDecisionBase
  <1>6. CASE Aside
    BY <1>6, AsideBase
  <1> QED  BY <1>2, <1>3, <1>4, <1>5, <1>6, StepCases

LEMMA StepKeepsGates ==
  ASSUME BaseInv, OneGate, GateInv, DirectorNext
  PROVE  GateInv' /\ (NoRework /\ EditsOnce => EditsOnce')
  <1>1. UNCHANGED plan
    BY StepCases
  <1>2. ASSUME NEW t \in Tasks, \E k : Quiet(t, k)  PROVE GateInv' /\ (EditsOnce => EditsOnce')
    <2>1. UNCHANGED <<plan, applied>>
      BY <1>2 DEF Quiet, world
    <2> QED  BY <1>2, <2>1, QuietGates, SameEdits
  <1>3. ASSUME NEW t \in Tasks, ToolStep(t)  PROVE GateInv' /\ (NoRework /\ EditsOnce => EditsOnce')
    BY <1>3, ToolGates, ToolOnce
  <1>4. ASSUME NEW t \in Tasks, Proposes(t) \/ StartRun(t)  PROVE GateInv' /\ (EditsOnce => EditsOnce')
    <2>1. UNCHANGED applied
      BY <1>4 DEF Proposes, StartRun, world
    <2> QED  BY <1>1, <1>4, <2>1, ProposesGates, StartGates, SameEdits
  <1>5. ASSUME NEW S, NEW status, Decides(S, status)
        PROVE  EditsOnce => EditsOnce'
    <2>1. S \in SUBSET PendingSteps /\ status \in [S -> Decided] /\ Decide(S, status)
      BY <1>5 DEF Decides
    <2>2. \A i \in S : status[i] = "applied" => plan[i].on \in live
      BY <1>5 DEF Decides
    <2>3. \A i \in Steps : i \notin S => applied'[i] = applied[i]
      BY <2>1, <2>2, <1>1, DecisionEffects
    <2>4. \A i \in S : IsGate(i)
      BY <2>1 DEF PendingSteps, BaseInv, GatesOK
    <2> QED  BY <2>3, <2>4, <1>1, SameEdits
  <1>6. ASSUME NEW t \in Tasks, NEW S \in SUBSET PendingSteps, ResumeRun(t, S)
        PROVE  GateInv' /\ (EditsOnce => EditsOnce')
    <2>1. PICK status : Decides(S, status)
      BY <1>6, ResumeDecides
    <2>2. (\E answer \in Answers : Moves(t, NewTask("resume", answer))) /\ UNCHANGED checkpoint
      BY <1>6, ResumeDecides
    <2> QED  BY <1>1, <1>5, <2>1, <2>2, DecisionGates
  <1>7. ASSUME NEW i \in Steps, DecideProposal(i) \/ ProposalExpires(i)
        PROVE  GateInv' /\ (EditsOnce => EditsOnce')
    <2>1. PICK S, status : Decides(S, status)
      BY <1>7, SingleDecision
    <2>2. UNCHANGED <<task, checkpoint>>
      BY <1>7, SingleDecision
    <2> QED  BY <1>1, <1>5, <2>1, <2>2, DecisionGates
  <1>8. CASE Aside
    <2>1. UNCHANGED <<plan, applied>>
      BY <1>8 DEF Aside
    <2> QED  BY <1>8, <2>1, AsideGates, SameEdits
  <1> QED  BY <1>2, <1>3, <1>4, <1>6, <1>7, <1>8, StepCases

LEMMA StutterKeepsAll ==
  ASSUME DirectorInv, UNCHANGED directorVars
  PROVE  DirectorInv'
  <1>1. BaseInv /\ UNCHANGED plan
    BY DEF DirectorInv, directorVars
  <1>2. Aside
    BY <1>1, OthersAreAside
  <1>3. UNCHANGED <<plan, applied>>
    BY <1>2 DEF Aside
  <1>4. BaseInv'
    BY <1>1, <1>2, AsideBase
  <1>5. OneGate => GateInv' /\ (NoRework => EditsOnce')
    BY <1>1, <1>2, <1>3, AsideGates, SameEdits DEF DirectorInv
  <1> QED  BY <1>1, <1>4, <1>5, SamePlan DEF DirectorInv

(* Whatever plans, tasks and interruptions: a task holds what it may, a    *)
(* change set belongs to what was applied, and with one gate there is one  *)
(* pass of the node before the question and one after the answer.          *)
THEOREM DirectorInvariant == DirectorSpec => []DirectorInv
  <1>1. DirectorInit => DirectorInv
    BY BeginsSafely
  <1>2. DirectorInv /\ [DirectorNext]_directorVars => DirectorInv'
    <2> SUFFICES ASSUME DirectorInv, [DirectorNext]_directorVars  PROVE DirectorInv'
      OBVIOUS
    <2>1. CASE DirectorNext
      <3>1. BaseInv /\ BaseInv'
        BY <2>1, StepKeepsBase DEF DirectorInv
      <3>2. UNCHANGED plan
        BY <2>1, <3>1, StepCases
      <3>3. OneGate => GateInv' /\ (NoRework => EditsOnce')
        BY <2>1, <3>1, StepKeepsGates DEF DirectorInv
      <3> QED  BY <3>1, <3>2, <3>3, SamePlan DEF DirectorInv
    <2>2. CASE UNCHANGED directorVars
      BY <2>2, StutterKeepsAll
    <2> QED  BY <2>1, <2>2
  <1> QED  BY <1>1, <1>2, PTL DEF DirectorSpec

(* The statuses of the row and of the proposals, the tasks and the change  *)
(* sets have their types.                                                  *)
THEOREM DirectorTypeCorrect == DirectorSpec => []DirectorTypeOK
  <1>1. DirectorInv => DirectorTypeOK
    <2> SUFFICES ASSUME DirectorInv  PROVE DirectorTypeOK
      OBVIOUS
    <2>1. TypeOK
      BY DEF DirectorInv, BaseInv
    <2>2. \A t \in Driving : task[t].step \in 1 .. Len(plan) + 1
      BY <2>1 DEF TypeOK, Driving, TaskRecords
    <2>3. checkpoint.next \in Range(Nodes)
      BY <2>1 DEF TypeOK, Checkpoints
    <2> QED  BY <2>1, <2>2, <2>3 DEF TypeOK, DirectorTypeOK, Statuses, Decided
  <1> QED  BY <1>1, DirectorInvariant, PTL

(* With one gate, no step behind it takes effect before a human has        *)
(* decided, whatever is repeated, lost or driven twice.                    *)
THEOREM GateIsKept == DirectorSpec => [](OneGate => GateHolds)
  <1>1. DirectorInv => (OneGate => GateHolds)
    BY DEF DirectorInv, GateInv, StepsOK, GateHolds, Open
  <1> QED  BY <1>1, DirectorInvariant, PTL

(* With one gate, and no two differing edits of one target before it, no   *)
(* step takes effect twice though the node is repeated.                    *)
THEOREM NoStepIsRepeated == DirectorSpec => [](OneGate /\ NoRework => StepAppliedOnce)
  <1>1. DirectorInv => (OneGate /\ NoRework => StepAppliedOnce)
    BY DEF DirectorInv, BaseInv, GatesOK, EditsOnce, StepAppliedOnce
  <1> QED  BY <1>1, DirectorInvariant, PTL

(* Once the row says cancelling, no edit of the plan takes effect: for any *)
(* plan, and also after a crash, which forgets the token.                  *)
THEOREM CancelStops == DirectorSpec => CancelStopsEffects
  <1> DEFINE Stops == run = "cancelling" => \A i \in Steps : ~IsGate(i) => applied'[i] = applied[i]
  <1>1. DirectorInv /\ [DirectorNext]_directorVars => Stops
    <2> SUFFICES ASSUME DirectorInv, [DirectorNext]_directorVars, run = "cancelling", NEW i \in Steps, ~IsGate(i)
                 PROVE  applied'[i] = applied[i]
      OBVIOUS
    <2>1. BaseInv
      BY DEF DirectorInv
    <2>2. CASE UNCHANGED directorVars
      BY <2>2 DEF directorVars, world
    <2>3. CASE DirectorNext
      <3>1. UNCHANGED plan
        BY <2>1, <2>3, StepCases
      <3>2. ASSUME NEW t \in Tasks, \E k : Quiet(t, k)  PROVE applied'[i] = applied[i]
        BY <3>2 DEF Quiet, world
      <3>3. ASSUME NEW t \in Tasks  PROVE ~ToolStep(t)
        BY <2>1, ToolMoves DEF BaseInv, CancelIsSeen
      <3>4. ASSUME NEW t \in Tasks, Proposes(t) \/ StartRun(t)  PROVE applied'[i] = applied[i]
        BY <3>4 DEF Proposes, StartRun, world
      <3>5. ASSUME NEW S, NEW status, Decides(S, status)  PROVE applied'[i] = applied[i]
        <4>1. S \in SUBSET PendingSteps /\ status \in [S -> Decided] /\ Decide(S, status)
          BY <3>5 DEF Decides
        <4>2. \A j \in S : status[j] = "applied" => plan[j].on \in live
          BY <3>5 DEF Decides
        <4>3. i \notin S
          BY <4>1, <2>1 DEF PendingSteps, BaseInv, GatesOK
        <4> QED  BY <4>1, <4>2, <4>3, <2>1, <3>1, DecisionEffects
      <3>6. ASSUME NEW t \in Tasks, NEW S \in SUBSET PendingSteps, ResumeRun(t, S)
            PROVE  applied'[i] = applied[i]
        BY <3>5, <3>6, ResumeDecides
      <3>7. ASSUME NEW j \in Steps, DecideProposal(j) \/ ProposalExpires(j)
            PROVE  applied'[i] = applied[i]
        BY <3>5, <3>7, SingleDecision
      <3>8. CASE Aside
        BY <3>8 DEF Aside
      <3> QED  BY <2>1, <2>3, <3>2, <3>3, <3>4, <3>6, <3>7, <3>8, StepCases
    <2> QED  BY <2>2, <2>3
  <1>2. DirectorInv /\ [DirectorNext]_directorVars =>
          [run = "cancelling" => \A i \in Steps : ~IsGate(i) => applied'[i] = applied[i]]_directorVars
    BY <1>1
  <1> QED  BY <1>2, DirectorInvariant, PTL DEF DirectorSpec, CancelStopsEffects

----------------------------------------------------------------------------
(* The undo of a run.                                                      *)

Writers == {"update_shot", "update_scene", "continuity_fix"}
ValueOf(i) == IF plan[i].tool = "continuity_fix" THEN Fixed ELSE plan[i].patch

(* No two steps write the same value to the same target, and at most one   *)
(* reorders the shots.                                                     *)
Undoable ==
  /\ \A i, j \in Steps :
       plan[i].tool \in Writers /\ plan[j].tool \in Writers /\ plan[i].on = plan[j].on /\ i # j
       => ValueOf(i) # ValueOf(j)
  /\ \A i, j \in Steps : plan[i].tool = "reorder_shots" /\ plan[j].tool = "reorder_shots" => i = j

Recorders == Writers \cup {"create_shot", "delete_shot", "reorder_shots"}
Targets == Shots \cup {Scene}

\* The change sets that are not undone, of a tool, and of one target.
Standing == DOMAIN changes \ undone
With(tools) == {c \in Standing : Of(c).tool \in tools}
At(x, tools) == {c \in With(tools) : Of(c).on = x}
Used(tool) == \E c \in DOMAIN changes : Of(c).tool = tool
IsLatest(c, S) == c \in S /\ \A d \in S : d <= c

\* A change set of every step at most, by a tool that records; an undo has listed what stands.
LogOK ==
  /\ \A c \in DOMAIN changes : /\ Of(c).tool \in Recorders
                               /\ Of(c).tool # "reorder_shots" => Of(c).on \in Targets
                               /\ Of(c).tool \in {"continuity_fix", "delete_shot"} => Of(c).on \in Shots
  /\ \A c, d \in DOMAIN changes : c # d => changes[c].step # changes[d].step
  /\ undo.left \cap undone = {} /\ undo.of <= Len(changes) /\ touches \in Nat
  /\ content = [x \in Targets |-> content[x]]

\* Nobody else touches the story; nothing is deleted and renumbered both.
Calm == touches = 0 /\ ~(Used("delete_shot") /\ Used("reorder_shots"))

StoryTypes ==
  /\ num \in [Shots -> Nat]
  /\ \A s \in live \cup Range(FirstShots) : num[s] > 0

\* A shot is deleted by a change set that stands, and there by one that created it.
LifeOK ==
  /\ \A s \in Range(FirstShots) : s \notin live <=> At(s, {"delete_shot"}) # {}
  /\ \A s \in Shots \ Range(FirstShots) : s \in live <=> At(s, {"create_shot"}) # {}
  /\ \A c \in With(Writers), d \in With({"delete_shot"}) : Of(c).on = Of(d).on => c < d

\* The changes of a field are a stack.
Written(S, v) == (S = {} => v = "old") /\ \A c \in S : IsLatest(c, S) => v = ValueOf(changes[c].step)
Below(c, S) == {d \in S : d < c}
StackOK(x) ==
  /\ Written(At(x, Writers), content[x])
  /\ \A c \in At(x, Writers) : Written(Below(c, At(x, Writers)), changes[c].content)
ContentOK == \A x \in Targets : StackOK(x)

\* Who has the number of a deleted shot was created after the deletion.
NumbersOK ==
  ~Used("reorder_shots") =>
    /\ \A s, t \in live : num[s] = num[t] => s = t
    /\ \A s \in Range(FirstShots) \ live, t \in live : num[t] = num[s] =>
         \E e \in At(t, {"create_shot"}) : \A d \in At(s, {"delete_shot"}) : d < e

\* The order, as it was or as it has been recorded.
Sorted(shots) ==
  /\ DOMAIN shots = DOMAIN FirstShots /\ Range(shots) = Range(FirstShots)
  /\ \A i, j \in DOMAIN FirstShots : i < j => Place(shots, FirstShots[i]) < Place(shots, FirstShots[j])
OrderOK ==
  /\ With({"reorder_shots"}) = {} => Increasing(FirstShots)
  /\ \A c \in With({"reorder_shots"}) :
       /\ Range(Of(c).order) = Range(FirstShots) /\ Increasing(Of(c).order) /\ Sorted(changes[c].order)
       /\ \A e \in With({"create_shot"}) : c < e

\* An undo that nothing was recorded after has all left that stands.
PassOK == undo # NoUndo /\ undo.of = Len(changes) => Standing \subseteq undo.left

CalmOK == StoryTypes /\ LifeOK /\ ContentOK /\ NumbersOK /\ OrderOK /\ PassOK
UndoOK == LogOK /\ (Calm => CalmOK)
Revocable == OneGate /\ NoRework /\ Undoable

LEMMA LogFacts ==
  ASSUME TypeOK
  PROVE  /\ Len(changes) \in Nat /\ DOMAIN changes = 1 .. Len(changes)
         /\ Standing \subseteq DOMAIN changes
         /\ \A c \in DOMAIN changes : c \in Nat /\ c < Len(changes) + 1 /\ changes[c].step \in Steps
         /\ \A tools : With(tools) \subseteq Standing
         /\ \A x, tools : At(x, tools) \subseteq With(tools)
  <1>1. Len(changes) \in Nat /\ DOMAIN changes = 1 .. Len(changes)
    BY DEF TypeOK, IsSeq
  <1> QED  BY <1>1 DEF TypeOK, Standing, With, At

\* Among some change sets there is a latest.
LEMMA LatestIs ==
  ASSUME TypeOK, NEW S \in SUBSET DOMAIN changes, S # {}
  PROVE  \E c \in S : IsLatest(c, S)
  <1>1. Len(changes) \in Nat /\ S \in SUBSET (0 .. Len(changes))
    BY LogFacts
  <1>2. Max(S) \in S /\ \A x \in S : Max(S) >= x
    BY <1>1, MaxIsUpper
  <1>3. \A x \in S : x \in Int
    BY <1>1
  <1> QED  BY <1>2, <1>3 DEF IsLatest

LEMMA ScenePlaces ==
  /\ Len(FirstShots) \in Nat /\ DOMAIN FirstShots = 1 .. Len(FirstShots)
  /\ \A i \in DOMAIN FirstShots : FirstShots[i] \in Range(FirstShots)
  /\ \A s \in Range(FirstShots) : \E i \in DOMAIN FirstShots : FirstShots[i] = s
  /\ \A i, j \in DOMAIN FirstShots : FirstShots[i] = FirstShots[j] => i = j
  /\ Range(FirstShots) \subseteq Shots /\ Scene \notin Range(FirstShots)
  BY ShotsAssumption DEF Range, IsInjective, Shots

\* The place of an element of a list.
LEMMA PlaceIn ==
  ASSUME NEW shots, NEW s \in Range(shots)
  PROVE  Place(shots, s) \in DOMAIN shots /\ shots[Place(shots, s)] = s
  BY DEF Range, Place

LEMMA CreatedShots ==
  ASSUME plan \in Plans
  PROVE  /\ Scene \notin Shots
         /\ \A s \in Shots : s \notin Range(FirstShots) =>
              \E i \in Steps : plan[i].tool = "create_shot" /\ plan[i].on = s
         /\ \A i \in Steps : plan[i].tool = "create_shot" =>
              /\ plan[i].on \in Shots \ Range(FirstShots)
              /\ \A j \in Steps \ {i} : plan[j].on # plan[i].on
  BY ShotsAssumption DEF Shots, Steps

LEMMA ShotsAreFinite ==
  ASSUME plan \in Plans
  PROVE  IsFiniteSet(Shots)
  <1>1. IsFiniteSet(1 .. Len(FirstShots)) /\ IsFiniteSet(1 .. Len(plan))
    <2>1. 1 \in Int /\ Len(FirstShots) \in Int /\ Len(plan) \in Int
      BY PlanIsSeq, ScenePlaces
    <2> QED  BY <2>1, FS_Interval
  <1>2. IsFiniteSet(Range(FirstShots))
    <2>1. [i \in 1 .. Len(FirstShots) |-> FirstShots[i]] \in Surjection(1 .. Len(FirstShots), Range(FirstShots))
      BY ScenePlaces DEF Surjection
    <2> QED  BY <1>1, <2>1, FS_Surjection
  <1> DEFINE T == {plan[i].on : i \in Steps}
  <1>3. IsFiniteSet(T)
    <2>1. Steps = 1 .. Len(plan)
      BY PlanIsSeq
    <2>2. [i \in 1 .. Len(plan) |-> plan[i].on] \in Surjection(1 .. Len(plan), T)
      BY <2>1 DEF Surjection
    <2> QED  BY <1>1, <2>2, FS_Surjection
  <1>4. IsFiniteSet(Range(FirstShots) \cup T)
    BY <1>2, <1>3, FS_Union
  <1>5. Shots \in SUBSET (Range(FirstShots) \cup T)
    BY DEF Shots
  <1> QED  BY <1>4, <1>5, FS_Subset

LEMMA LeastOf ==
  ASSUME NEW S \in SUBSET Nat, S # {}
  PROVE  \E m \in S : \A y \in S : m <= y
  <1>1. PICK m \in S : \A y \in S : ~(<<y, m>> \in OpToRel(<, Nat))
    BY NatLessThanWellFounded, WFMin
  <1>2. ASSUME NEW y \in S  PROVE m <= y
    <2>1. y \in Nat /\ m \in Nat
      OBVIOUS
    <2>2. CASE y < m
      <3>1. <<y, m>> \in Nat \X Nat /\ <<y, m>>[1] < <<y, m>>[2]
        BY <2>1, <2>2
      <3>2. <<y, m>> \in OpToRel(<, Nat)
        BY <3>1 DEF OpToRel
      <3> QED  BY <3>2, <1>1
    <2> QED  BY <2>1, <2>2
  <1> QED  BY <1>1, <1>2

LEMMA ListsAreBounded ==
  \A n \in Nat : \A f \in [1 .. n -> Nat] : \E b \in Nat : \A i \in 1 .. n : f[i] <= b
  <1> DEFINE Bad == {n \in Nat : \E f \in [1 .. n -> Nat] : \A b \in Nat : \E i \in 1 .. n : ~(f[i] <= b)}
  <1>1. SUFFICES ASSUME Bad # {}  PROVE FALSE
    OBVIOUS
  <1>2. PICK n \in Bad : \A k \in Bad : n <= k
    BY <1>1, LeastOf
  <1>3. PICK f \in [1 .. n -> Nat] : \A b \in Nat : \E i \in 1 .. n : ~(f[i] <= b)
    BY <1>2
  <1>4. n \in Nat /\ n # 0
    <2>1. PICK i \in 1 .. n : ~(f[i] <= 0)
      BY <1>3
    <2> QED  BY <1>2, <2>1
  <1>5. n - 1 \in Nat /\ n - 1 \notin Bad
    <2>1. n - 1 \in Nat /\ n \in Nat /\ ~(n <= n - 1)
      BY <1>4
    <2> QED  BY <1>2, <2>1
  <1>6. \A h \in [1 .. (n - 1) -> Nat] : \E b \in Nat : \A i \in 1 .. (n - 1) : h[i] <= b
    BY <1>5
  <1> HIDE DEF Bad
  <1> DEFINE g == [i \in 1 .. (n - 1) |-> f[i]]
  <1>7. \A i \in 1 .. (n - 1) : i \in 1 .. n
    BY <1>4
  <1>8. g \in [1 .. (n - 1) -> Nat]
    BY <1>7
  <1>9. PICK b \in Nat : \A i \in 1 .. (n - 1) : g[i] <= b
    BY <1>6, <1>8
  <1>10. f[n] \in Nat /\ b + f[n] \in Nat
    BY <1>4
  <1>11. PICK i \in 1 .. n : ~(f[i] <= b + f[n])
    BY <1>3, <1>10
  <1>12. CASE i = n
    BY <1>10, <1>11, <1>12
  <1>13. CASE i # n
    <2>1. i \in 1 .. (n - 1) /\ f[i] \in Nat
      BY <1>4, <1>13
    <2>2. f[i] <= b
      BY <2>1, <1>9
    <2> QED  BY <2>1, <2>2, <1>10, <1>11
  <1> QED  BY <1>12, <1>13

\* A new shot comes last.
LEMMA LastNumber ==
  ASSUME TypeOK, StoryTypes
  PROVE  /\ 1 + Max({0} \cup {num[t] : t \in live}) \in Nat \ {0}
         /\ \A t \in live : num[t] < 1 + Max({0} \cup {num[u] : u \in live})
  <1>1. IsFiniteSet(live)
    BY ShotsAreFinite, FS_Subset DEF TypeOK
  <1>2. PICK n \in Nat : ExistsBijection(1 .. n, live)
    BY <1>1, FS_NatBijection
  <1>3. PICK g : g \in Bijection(1 .. n, live)
    BY <1>2 DEF ExistsBijection
  <1>4. g \in [1 .. n -> live] /\ \A s \in live : \E i \in 1 .. n : g[i] = s
    BY <1>3 DEF Bijection, Injection, Surjection
  <1> DEFINE h == [i \in 1 .. n |-> num[g[i]]]
  <1>5. h \in [1 .. n -> Nat]
    BY <1>4 DEF TypeOK, StoryTypes
  <1>6. PICK b \in Nat : \A i \in 1 .. n : h[i] <= b
    BY <1>5, ListsAreBounded
  <1> DEFINE S == {0} \cup {num[t] : t \in live}
  <1>7. S \in SUBSET (0 .. b)
    <2>1. ASSUME NEW t \in live  PROVE num[t] \in 0 .. b
      <3>1. PICK i \in 1 .. n : g[i] = t
        BY <1>4
      <3>2. h[i] = num[t] /\ h[i] <= b /\ num[t] \in Nat
        BY <3>1, <1>5, <1>6
      <3> QED  BY <3>2
    <2> QED  BY <2>1
  <1> HIDE DEF h
  <1>8. Max(S) \in S /\ \A x \in S : Max(S) >= x
    <2>1. S # {}
      OBVIOUS
    <2> HIDE DEF S
    <2> QED  BY <1>7, <2>1, MaxIsUpper
  <1>11. \A t \in live : num[t] \in S
    OBVIOUS
  <1> HIDE DEF S
  <1>9. Max(S) \in Nat /\ \A t \in live : num[t] \in Nat /\ Max(S) >= num[t]
    <2>1. Max(S) \in 0 .. b /\ \A y \in S : y \in 0 .. b /\ Max(S) >= y
      BY ONLY <1>7, <1>8
    <2>2. \A y \in 0 .. b : y \in Nat
      OBVIOUS
    <2> QED  BY ONLY <2>1, <2>2, <1>11
  <1>10. 1 + Max(S) \in Nat \ {0} /\ \A t \in live : num[t] < 1 + Max(S)
    BY <1>9
  <1> QED  BY <1>10 DEF S

----------------------------------------------------------------------------
(* What a step does to what can be undone: it records a change, it undoes  *)
(* one, the user touches the story, or all stays as it is.                 *)

Appends(i) ==
  /\ IsSeq(changes') /\ Len(changes') = Len(changes) + 1
  /\ \A c \in 1 .. Len(changes) : changes'[c] = changes[c]
  /\ changes'[Len(changes) + 1] = Recorded(i)
  /\ applied'[i] = applied[i] + 1 /\ UNCHANGED <<plan, undone, undo, touches>>

WritesField(i) ==
  /\ plan[i].tool \in Writers /\ plan[i].on \in live \cup {Scene}
  /\ plan[i].tool = "continuity_fix" => plan[i].on \in live
  /\ content' = [x \in DOMAIN content |-> IF x = plan[i].on THEN ValueOf(i) ELSE content[x]]
  /\ UNCHANGED <<num, live>>
AddsShot(i) ==
  /\ plan[i].tool = "create_shot" /\ live' = live \cup {plan[i].on}
  /\ num' = [num EXCEPT ![plan[i].on] = 1 + Max({0} \cup {num[s] : s \in live})]
  /\ UNCHANGED content
RemovesShot(i) ==
  /\ plan[i].tool = "delete_shot" /\ plan[i].on \in live
  /\ live' = live \ {plan[i].on} /\ UNCHANGED <<content, num>>
Renumbers(i) ==
  /\ plan[i].tool = "reorder_shots" /\ Range(plan[i].order) = live /\ IsInjective(plan[i].order)
  /\ num' = Ordered(plan[i].order) /\ UNCHANGED <<content, live>>

Records(i) == Appends(i) /\ (WritesField(i) \/ AddsShot(i) \/ RemovesShot(i) \/ Renumbers(i))
LeavesStory == UNCHANGED <<plan, changes, undone, story, touches, undo>>
UserStep == (\E x \in Touched : UserTouches(x)) /\ UNCHANGED plan
AsksUndo ==
  /\ UNCHANGED <<plan, changes, undone, story, touches>>
  /\ undo' = NoUndo \/ undo' = [left |-> Standing, of |-> Len(changes)]

LEMMA ConcatNothing ==
  ASSUME NEW s, IsSeq(s), NEW u, IsSeq(u), Len(u) = 0
  PROVE  s \o u = s
  <1>1. /\ IsSeq(s \o u) /\ Len(s \o u) = Len(s) + Len(u)
        /\ \A n \in 1 .. Len(s) : (s \o u)[n] = s[n]
    BY ConcatIsSeq
  <1>2. PICK q : q = s \o u
    OBVIOUS
  <1>3. Len(s) \in Nat /\ Len(q) = Len(s) /\ q = [n \in 1 .. Len(q) |-> q[n]] /\ s = [n \in 1 .. Len(s) |-> s[n]]
    BY <1>1, <1>2 DEF IsSeq
  <1>4. \A n \in 1 .. Len(s) : q[n] = s[n]
    BY <1>1, <1>2
  <1>5. q = s
    BY <1>3, <1>4
  <1> QED  BY <1>2, <1>5

\* With one gate a decision records one change or none.
LEMMA DecisionRecords ==
  ASSUME BaseInv, LogOK, OneGate, UNCHANGED <<plan, undo, touches>>, NEW S, NEW status, Decides(S, status)
  PROVE  LeavesStory \/ \E i \in Steps : Records(i)
  <1>1. /\ S \in SUBSET PendingSteps /\ S # {} /\ status \in [S -> Decided] /\ Decide(S, status)
        /\ \A i \in S : status[i] = "applied" => plan[i].on \in live
        /\ IsSeq(changes) /\ live \subseteq Shots
    BY DEF Decides, BaseInv, TypeOK
  <1>2. PICK i \in S : TRUE
    BY <1>1
  <1>3. i \in Steps /\ S = {i}
    BY <1>1, <1>2 DEF PendingSteps, BaseInv, GatesOK, OneGate
  <1> DEFINE made(tool) == {j \in S : status[j] = "applied" /\ plan[j].tool = tool}
             all == made("delete_shot") \cup made("continuity_fix")
  <1>4. PICK f \in InOrder(all) : changes' = changes \o [n \in DOMAIN f |-> Recorded(f[n])]
    BY <1>1 DEF Decide
  <1>5. /\ content' = [x \in DOMAIN content |->
                        IF x \in {plan[j].on : j \in made("continuity_fix")} THEN Fixed ELSE content[x]]
        /\ live' = live \ {plan[j].on : j \in made("delete_shot")}
        /\ UNCHANGED <<num, undone>>
    BY <1>1 DEF Decide
  <1>6. PICK g : g = [n \in DOMAIN f |-> Recorded(f[n])]
    OBVIOUS
  <1>7. f \in [1 .. Cardinality(all) -> all]
    BY <1>4 DEF InOrder
  <1>10. content = [x \in DOMAIN content |-> content[x]]
    BY DEF LogOK
  <1>8. CASE all = {i}
    <2>1. Cardinality(all) = 1
      BY <1>8, FS_Singleton
    <2>2. g = [n \in 1 .. 1 |-> Recorded(i)]
      <3>1. DOMAIN f = 1 .. 1 /\ \A n \in 1 .. 1 : f[n] = i
        <4> HIDE DEF all
        <4> QED  BY <2>1, <1>7, <1>8
      <3> HIDE DEF all
      <3> QED  BY <3>1, <1>6
    <2>3. IsSeq(g) /\ Len(g) = 1 /\ g[1] = Recorded(i)
      BY <2>2 DEF IsSeq
    <2>4. /\ IsSeq(changes \o g) /\ Len(changes \o g) = Len(changes) + 1
          /\ \A c \in 1 .. Len(changes) : (changes \o g)[c] = changes[c]
          /\ (changes \o g)[Len(changes) + 1] = Recorded(i)
      <3>1. /\ IsSeq(changes \o g) /\ Len(changes \o g) = Len(changes) + Len(g)
            /\ \A c \in 1 .. Len(changes) : (changes \o g)[c] = changes[c]
            /\ \A n \in 1 .. Len(g) : (changes \o g)[Len(changes) + n] = g[n]
        <4>1. IsSeq(changes) /\ IsSeq(g)
          BY <2>3, <1>1
        <4> HIDE DEF all
        <4> QED  BY ONLY <4>1, ConcatIsSeq
      <3>2. 1 \in 1 .. Len(g)
        BY <2>3
      <3>3. (changes \o g)[Len(changes) + 1] = g[1]
        BY <3>1, <3>2
      <3> QED  BY ONLY <3>1, <3>3, <2>3
    <2>9. applied'[i] = applied[i] + 1
      <3>1. status[i] = "applied"
        BY <1>2, <1>8
      <3> QED  BY <3>1, <1>1, <1>3 DEF Decide
    <2>5. Appends(i)
      BY <2>4, <2>9, <1>4, <1>5, <1>6 DEF Appends
    <2>6. status[i] = "applied" /\ plan[i].on \in live /\ plan[i].tool \in {"delete_shot", "continuity_fix"}
      BY <1>1, <1>2, <1>8
    <2>7. CASE plan[i].tool = "delete_shot"
      <3>1. made("delete_shot") = {i} /\ made("continuity_fix") = {}
        BY <2>6, <2>7, <1>3
      <3>2. live' = live \ {plan[i].on} /\ content' = [x \in DOMAIN content |-> content[x]]
        BY <3>1, <1>5
      <3>3. RemovesShot(i)
        BY <3>2, <2>6, <2>7, <1>5, <1>10 DEF RemovesShot
      <3> QED  BY <3>3, <2>5, <1>3 DEF Records
    <2>8. CASE plan[i].tool = "continuity_fix"
      <3>1. made("continuity_fix") = {i} /\ made("delete_shot") = {}
        BY <2>6, <2>8, <1>3
      <3>2. live' = live /\ content' = [x \in DOMAIN content |-> IF x = plan[i].on THEN Fixed ELSE content[x]]
        BY <3>1, <1>5
      <3>3. WritesField(i)
        BY <3>2, <2>6, <2>8, <1>5 DEF WritesField, Writers, ValueOf
      <3> QED  BY <3>3, <2>5, <1>3 DEF Records
    <2> QED  BY <2>6, <2>7, <2>8
  <1>9. CASE all # {i}
    <2>1. all = {} /\ made("delete_shot") = {} /\ made("continuity_fix") = {}
      BY <1>3, <1>9
    <2>2. Cardinality(all) = 0
      BY <2>1, FS_EmptySet
    <2>3. DOMAIN f = 1 .. 0
      <3> HIDE DEF all
      <3> QED  BY <2>2, <1>7
    <2>4. IsSeq(g) /\ Len(g) = 0
      <3>1. g = [n \in 1 .. 0 |-> Recorded(f[n])]
        BY <2>3, <1>6
      <3> QED  BY <3>1 DEF IsSeq
    <2>5. changes' = changes
      BY <2>4, <1>1, <1>4, <1>6, ConcatNothing
    <2>6. content' = content /\ live' = live
      BY <2>1, <1>5, <1>10
    <2> QED  BY <2>5, <2>6, <1>5 DEF LeavesStory, story
  <1> QED  BY <1>8, <1>9

\* A step of the graph, of a gate or of the cancellation.
LEMMA IdleSteps ==
  ASSUME UNCHANGED plan,
         \/ \E t \in Tasks : \/ StartRun(t) \/ RunsNode(t) \/ EntersExecute(t) \/ NodeRaises(t)
                             \/ PassesGate(t) \/ FailsAtGate(t) \/ Proposes(t)
                             \/ LeavesExecute(t) \/ Reviews(t) \/ Returns(t) \/ ReadsRow(t) \/ Finalizes(t)
         \/ CancelReads \/ CancelCommits
  PROVE  LeavesStory
  <1>1. CASE CancelReads \/ CancelCommits
    BY <1>1 DEF CancelReads, CancelCommits, LeavesStory, world, user
  <1>2. ASSUME NEW t \in Tasks, StartRun(t) \/ RunsNode(t) \/ EntersExecute(t) \/ NodeRaises(t)
        PROVE  LeavesStory
    BY <1>2 DEF StartRun, RunsNode, EntersExecute, NodeRaises, LeavesStory, world, user
  <1>3. ASSUME NEW t \in Tasks, PassesGate(t) \/ FailsAtGate(t) \/ Proposes(t)
        PROVE  LeavesStory
    BY <1>3 DEF PassesGate, FailsAtGate, Proposes, LeavesStory, world, user
  <1>4. ASSUME NEW t \in Tasks, LeavesExecute(t) \/ Reviews(t) \/ Returns(t) \/ ReadsRow(t) \/ Finalizes(t)
        PROVE  LeavesStory
    BY <1>4 DEF LeavesExecute, Reviews, Returns, ReadsRow, Finalizes, LeavesStory, world, user
  <1> QED  BY <1>1, <1>2, <1>3, <1>4

\* A tool records its step with what was there before.
LEMMA ToolRecords ==
  ASSUME BaseInv, LogOK, UNCHANGED plan, NEW t \in Tasks,
         UpdatesShot(t) \/ UpdatesScene(t) \/ CreatesShot(t) \/ ReordersShots(t)
  PROVE  LeavesStory \/ \E i \in Steps : Records(i)
  <1>1. PICK tool \in {"update_shot", "update_scene", "create_shot", "reorder_shots"} : Runs(t, tool)
    BY DEF UpdatesShot, UpdatesScene, CreatesShot, ReordersShots
  <1>2. /\ AtStep(t) /\ plan[task[t].step].tool = tool /\ task[t].step \in Steps
        /\ UNCHANGED <<plan, undone, undo, touches>>
    BY <1>1 DEF Runs, user, AtStep
  <1>3. PICK i \in Steps : i = task[t].step
    BY <1>2
  <1>4. CASE UNCHANGED <<story, changes>>
    BY <1>2, <1>4 DEF LeavesStory
  <1>5. ASSUME ~UNCHANGED <<story, changes>>
        PROVE  Applies(t) /\ (WritesField(i) \/ AddsShot(i) \/ Renumbers(i))
    <2>1. CASE UpdatesShot(t)
      <3>1. Applies(t) /\ Patches(i) /\ plan[i].on \in live
        BY <1>3, <1>5, <2>1 DEF UpdatesShot, Skips, Refuses, Leaves
      <3>2. plan[i].tool = "update_shot"
        BY <1>3, <2>1 DEF UpdatesShot, Runs
      <3>3. WritesField(i)
        BY <3>1, <3>2 DEF WritesField, Writers, ValueOf, Patches, LogOK
      <3> QED  BY <3>1, <3>3
    <2>2. CASE UpdatesScene(t)
      <3>1. Applies(t) /\ Patches(i)
        BY <1>3, <1>5, <2>2 DEF UpdatesScene, Skips, Refuses, Leaves
      <3>2. plan[i].tool = "update_scene"
        BY <1>3, <2>2 DEF UpdatesScene, Runs
      <3>3. plan[i].on = Scene
        BY <3>2, ShotsAssumption DEF BaseInv, TypeOK, Steps
      <3>4. WritesField(i)
        BY <3>1, <3>2, <3>3 DEF WritesField, Writers, ValueOf, Patches, LogOK
      <3> QED  BY <3>1, <3>4
    <2>3. CASE CreatesShot(t)
      <3>1. /\ Applies(t) /\ live' = live \cup {plan[i].on} /\ UNCHANGED content
            /\ num' = [num EXCEPT ![plan[i].on] = 1 + Max({0} \cup {num[s] : s \in live})]
        BY <1>3, <1>5, <2>3 DEF CreatesShot, Skips, Leaves
      <3>2. plan[i].tool = "create_shot"
        BY <1>3, <2>3 DEF CreatesShot, Runs
      <3> QED  BY <3>1, <3>2 DEF AddsShot
    <2>4. CASE ReordersShots(t)
      <3>1. /\ Applies(t) /\ Range(plan[i].order) = live /\ IsInjective(plan[i].order)
            /\ num' = Ordered(plan[i].order) /\ UNCHANGED <<content, live>>
        BY <1>3, <1>5, <2>4 DEF ReordersShots, Skips, Refuses, Leaves
      <3>2. plan[i].tool = "reorder_shots"
        BY <1>3, <2>4 DEF ReordersShots, Runs
      <3> QED  BY <3>1, <3>2 DEF Renumbers
    <2> QED  BY <2>1, <2>2, <2>3, <2>4
  <1>6. ASSUME Applies(t)  PROVE Appends(i)
    <2>1. changes' = Append(changes, Recorded(i)) /\ IsSeq(changes)
      BY <1>3, <1>6 DEF Applies, BaseInv, TypeOK
    <2>2. PICK e : e = Recorded(i)
      OBVIOUS
    <2>3. /\ IsSeq(changes') /\ Len(changes') = Len(changes) + 1
          /\ \A c \in 1 .. Len(changes) : changes'[c] = changes[c]
          /\ changes'[Len(changes) + 1] = e
      BY <2>1, <2>2, AppendIsSeq
    <2>4. applied'[i] = applied[i] + 1
      BY <1>3, <1>6 DEF Applies, BaseInv, TypeOK
    <2> QED  BY <2>2, <2>3, <2>4, <1>2 DEF Appends
  <1> QED  BY <1>4, <1>5, <1>6 DEF Records

UndoesNow == UndoesOne /\ UNCHANGED plan

LEMMA UndoCases ==
  ASSUME BaseInv, LogOK, OneGate, DirectorNext
  PROVE  LeavesStory \/ (\E i \in Steps : Records(i)) \/ UserStep \/ AsksUndo \/ UndoesNow
  <1>1. DirectorStep /\ UNCHANGED plan
    BY DEF DirectorNext
  <1>2. ASSUME NEW t \in Tasks, StartRun(t) \/ Drives(t) \/ NodeRaises(t)
        PROVE  LeavesStory \/ \E i \in Steps : Records(i)
    <2>1. CASE UpdatesShot(t) \/ UpdatesScene(t) \/ CreatesShot(t) \/ ReordersShots(t)
      BY <2>1, <1>1, ToolRecords
    <2>2. CASE \/ StartRun(t) \/ RunsNode(t) \/ EntersExecute(t) \/ NodeRaises(t)
               \/ PassesGate(t) \/ FailsAtGate(t) \/ Proposes(t)
               \/ LeavesExecute(t) \/ Reviews(t) \/ Returns(t) \/ ReadsRow(t) \/ Finalizes(t)
      BY <2>2, <1>1, IdleSteps
    <2> QED  BY <1>2, <2>1, <2>2 DEF Drives
  <1>3. ASSUME NEW t \in Tasks, NEW S \in SUBSET PendingSteps, ResumeRun(t, S)
        PROVE  LeavesStory \/ \E i \in Steps : Records(i)
    <2>1. PICK status : Decides(S, status)
      BY <1>3, ResumeDecides
    <2>2. UNCHANGED <<undo, touches>>
      BY <1>3 DEF ResumeRun, user
    <2> QED  BY <2>1, <2>2, <1>1, DecisionRecords
  <1>4. ASSUME NEW i \in Steps, DecideProposal(i) \/ ProposalExpires(i)
        PROVE  LeavesStory \/ \E j \in Steps : Records(j)
    <2>1. PICK S, status : Decides(S, status)
      BY <1>4, SingleDecision
    <2>2. UNCHANGED <<undo, touches>>
      BY <1>4 DEF DecideProposal, ProposalExpires, user
    <2> QED  BY <2>1, <2>2, <1>1, DecisionRecords
  <1>5. CASE CancelReads \/ CancelCommits
    BY <1>1, <1>5, IdleSteps
  <1>6. CASE UndoStarts
    BY <1>1, <1>6 DEF UndoStarts, AsksUndo, Standing
  <1>7. CASE Crash
    BY <1>1, <1>7 DEF Crash, AsksUndo, world
  <1> QED  BY <1>1, <1>2, <1>3, <1>4, <1>5, <1>6, <1>7 DEF DirectorStep, UserStep, UndoesNow

----------------------------------------------------------------------------
(* The change sets before and after a step.                                *)

Fresh(i) == \A c \in DOMAIN changes : changes[c].step # i

Recently(i, new) ==
  /\ DOMAIN changes' = DOMAIN changes \cup {new} /\ new \notin DOMAIN changes
  /\ \A c \in DOMAIN changes : c < new /\ changes'[c] = changes[c] /\ Of(c)' = Of(c)
  /\ changes'[new] = Recorded(i) /\ changes'[new].step = i /\ Of(new)' = plan[i]
  /\ Standing' = Standing \cup {new}
  /\ \A tools : With(tools)' = With(tools) \cup (IF plan[i].tool \in tools THEN {new} ELSE {})
  /\ \A x, tools : At(x, tools)' =
       At(x, tools) \cup (IF plan[i].tool \in tools /\ plan[i].on = x THEN {new} ELSE {})

LEMMA Appended ==
  ASSUME TypeOK, NEW i \in Steps, Appends(i), NEW new, new = Len(changes) + 1
  PROVE  Recently(i, new)
  <1>1. /\ Len(changes) \in Nat /\ DOMAIN changes = 1 .. Len(changes) /\ undone \subseteq DOMAIN changes
        /\ DOMAIN changes' = 1 .. Len(changes')
    BY SeqOfItsElements DEF TypeOK, IsSeq, Appends
  <1>2. /\ Len(changes') = Len(changes) + 1 /\ \A c \in DOMAIN changes : changes'[c] = changes[c]
        /\ changes'[new] = Recorded(i) /\ UNCHANGED <<plan, undone>>
    BY <1>1 DEF Appends
  <1>3. /\ DOMAIN changes' = DOMAIN changes \cup {new} /\ new \notin DOMAIN changes
        /\ \A c \in DOMAIN changes : c < new
    BY <1>1, <1>2
  <1>4. changes'[new].step = i /\ Of(new)' = plan[i] /\ \A c \in DOMAIN changes : Of(c)' = Of(c)
    BY <1>2 DEF Of, Recorded
  <1>5. Standing' = Standing \cup {new}
    BY <1>1, <1>2, <1>3 DEF Standing
  <1>6. Standing \subseteq DOMAIN changes
    BY DEF Standing
  <1>7. ASSUME NEW tools
        PROVE  With(tools)' = With(tools) \cup (IF plan[i].tool \in tools THEN {new} ELSE {})
    BY <1>3, <1>4, <1>5, <1>6 DEF With
  <1>8. ASSUME NEW x, NEW tools
        PROVE  At(x, tools)' =
                 At(x, tools) \cup (IF plan[i].tool \in tools /\ plan[i].on = x THEN {new} ELSE {})
    <2>1. With(tools) \subseteq DOMAIN changes
      BY <1>6 DEF With
    <2> QED  BY <1>3, <1>4, <1>7, <2>1 DEF At
  <1> QED  BY <1>2, <1>3, <1>4, <1>5, <1>7, <1>8 DEF Recently

\* A change set is undone, or none is.
Takes(S) == UNCHANGED <<plan, changes>> /\ undone' = undone \cup S

LEMMA Taken ==
  ASSUME NEW S, Takes(S)
  PROVE  /\ \A c : Of(c)' = Of(c)
         /\ \A tool : Used(tool)' <=> Used(tool)
         /\ Standing' = Standing \ S
         /\ \A tools : With(tools)' = With(tools) \ S
         /\ \A x, tools : At(x, tools)' = At(x, tools) \ S
  <1>1. changes' = changes /\ plan' = plan /\ undone' = undone \cup S
    BY DEF Takes
  <1>2. \A c : Of(c)' = Of(c)
    BY <1>1 DEF Of
  <1>3. \A tool : Used(tool)' <=> Used(tool)
    BY <1>1, <1>2 DEF Used
  <1>4. Standing' = Standing \ S
    BY <1>1 DEF Standing
  <1>5. \A tools : With(tools)' = With(tools) \ S
    BY <1>2, <1>4 DEF With
  <1>6. ASSUME NEW x, NEW tools  PROVE At(x, tools)' = At(x, tools) \ S
    BY <1>2, <1>5 DEF At
  <1> QED  BY <1>2, <1>3, <1>4, <1>5, <1>6

\* What the steps of two change sets can have in common.
LEMMA ChangesDiffer ==
  ASSUME TypeOK, LogOK, Revocable
  PROVE  /\ \A c, d \in DOMAIN changes : Of(c).tool = "delete_shot" /\ Of(d).tool = "delete_shot" => c = d
         /\ \A c, d \in DOMAIN changes : Of(c).tool = "reorder_shots" /\ Of(d).tool = "reorder_shots" => c = d
         /\ \A c, d \in DOMAIN changes : Of(c).tool = "create_shot" /\ Of(d).on = Of(c).on => c = d
         /\ \A c \in DOMAIN changes : Of(c).tool = "create_shot" => Of(c).on \in Shots \ Range(FirstShots)
         /\ \A c \in DOMAIN changes : Of(c).tool # "create_shot" /\ Of(c).on \in Shots =>
                                      Of(c).on \in Range(FirstShots)
         /\ \A c, d \in DOMAIN changes :
              Of(c).tool \in Writers /\ Of(d).tool \in Writers /\ Of(c).on = Of(d).on /\ c # d =>
                ValueOf(changes[c].step) # ValueOf(changes[d].step)
  <1>1. plan \in Plans /\ \A c \in DOMAIN changes : changes[c].step \in Steps
    BY DEF TypeOK
  <1>2. \A c, d \in DOMAIN changes : changes[c].step = changes[d].step => c = d
    BY DEF LogOK
  <1>3. OneGate /\ Undoable
    BY DEF Revocable
  <1>4. \A i \in Steps : plan[i].tool = "delete_shot" => IsGate(i)
    BY DEF IsGate, Gates
  <1>5. \A c, d \in DOMAIN changes : Of(c).tool = "delete_shot" /\ Of(d).tool = "delete_shot" => c = d
    BY <1>1, <1>2, <1>3, <1>4 DEF Of, OneGate
  <1>6. \A c, d \in DOMAIN changes : Of(c).tool = "reorder_shots" /\ Of(d).tool = "reorder_shots" => c = d
    BY <1>1, <1>2, <1>3 DEF Of, Undoable
  <1>7. /\ \A s \in Shots : s \notin Range(FirstShots) =>
              \E i \in Steps : plan[i].tool = "create_shot" /\ plan[i].on = s
        /\ \A i \in Steps : plan[i].tool = "create_shot" =>
              /\ plan[i].on \in Shots \ Range(FirstShots)
              /\ \A j \in Steps \ {i} : plan[j].on # plan[i].on
    BY <1>1, CreatedShots
  <1>8. \A c, d \in DOMAIN changes : Of(c).tool = "create_shot" /\ Of(d).on = Of(c).on => c = d
    BY <1>1, <1>2, <1>7 DEF Of
  <1>9. \A c \in DOMAIN changes : Of(c).tool = "create_shot" => Of(c).on \in Shots \ Range(FirstShots)
    BY <1>1, <1>7 DEF Of
  <1>10. ASSUME NEW c \in DOMAIN changes, Of(c).tool # "create_shot", Of(c).on \in Shots
         PROVE  Of(c).on \in Range(FirstShots)
    BY <1>1, <1>7, <1>10 DEF Of
  <1>11. \A c, d \in DOMAIN changes :
           Of(c).tool \in Writers /\ Of(d).tool \in Writers /\ Of(c).on = Of(d).on /\ c # d =>
             ValueOf(changes[c].step) # ValueOf(changes[d].step)
    BY <1>1, <1>2, <1>3 DEF Of, Undoable
  <1> QED  BY <1>5, <1>6, <1>8, <1>9, <1>10, <1>11

\* The step that is recorded is another one than those of the change sets.
LEMMA NewDiffers ==
  ASSUME TypeOK, Revocable, NEW i \in Steps, Fresh(i)
  PROVE  /\ plan[i].tool = "delete_shot" => ~Used("delete_shot")
         /\ plan[i].tool = "reorder_shots" => ~Used("reorder_shots")
         /\ plan[i].tool = "create_shot" => /\ plan[i].on \in Shots \ Range(FirstShots)
                                            /\ \A c \in DOMAIN changes : Of(c).on # plan[i].on
         /\ plan[i].tool # "create_shot" /\ plan[i].on \in Shots =>
              /\ plan[i].on \in Range(FirstShots)
              /\ \A c \in DOMAIN changes : Of(c).on = plan[i].on => Of(c).tool # "create_shot"
  <1>1. plan \in Plans /\ \A c \in DOMAIN changes : changes[c].step \in Steps \ {i}
    BY DEF TypeOK, Fresh
  <1>2. OneGate /\ Undoable
    BY DEF Revocable
  <1>3. \A j \in Steps : plan[j].tool = "delete_shot" => IsGate(j)
    BY DEF IsGate, Gates
  <1>4. plan[i].tool = "delete_shot" => ~Used("delete_shot")
    BY <1>1, <1>2, <1>3 DEF Of, OneGate, Used
  <1>5. plan[i].tool = "reorder_shots" => ~Used("reorder_shots")
    BY <1>1, <1>2 DEF Of, Undoable, Used
  <1>6. /\ \A s \in Shots : s \notin Range(FirstShots) =>
              \E j \in Steps : plan[j].tool = "create_shot" /\ plan[j].on = s
        /\ \A j \in Steps : plan[j].tool = "create_shot" =>
              /\ plan[j].on \in Shots \ Range(FirstShots)
              /\ \A k \in Steps \ {j} : plan[k].on # plan[j].on
    BY <1>1, CreatedShots
  <1>7. plan[i].tool = "create_shot" => /\ plan[i].on \in Shots \ Range(FirstShots)
                                        /\ \A c \in DOMAIN changes : Of(c).on # plan[i].on
    BY <1>1, <1>6 DEF Of
  <1>8. plan[i].tool # "create_shot" /\ plan[i].on \in Shots =>
          /\ plan[i].on \in Range(FirstShots)
          /\ \A c \in DOMAIN changes : Of(c).on = plan[i].on => Of(c).tool # "create_shot"
    BY <1>1, <1>6 DEF Of
  <1> QED  BY <1>4, <1>5, <1>7, <1>8

----------------------------------------------------------------------------
(* A change is recorded.                                                   *)

LEMMA AppendUses ==
  ASSUME TypeOK, LogOK, NEW i \in Steps, Appends(i)
  PROVE  /\ \A tool : Used(tool)' <=> Used(tool) \/ plan[i].tool = tool
         /\ Calm' => Calm /\ ~(Used("delete_shot")' /\ Used("reorder_shots")')
  <1>1. PICK new : new = Len(changes) + 1
    OBVIOUS
  <1>2. /\ DOMAIN changes' = DOMAIN changes \cup {new}
        /\ \A c \in DOMAIN changes : Of(c)' = Of(c)
        /\ Of(new)' = plan[i]
    <2>1. Recently(i, new)
      BY <1>1, Appended
    <2> QED  BY <2>1 DEF Recently
  <1>3. \A tool : Used(tool)' <=> Used(tool) \/ plan[i].tool = tool
    BY <1>2 DEF Used
  <1>4. touches' = touches
    BY DEF Appends
  <1> QED  BY <1>3, <1>4 DEF Calm

LEMMA RecordKinds ==
  ASSUME NEW i, Records(i)
  PROVE  /\ plan[i].tool \in Writers => WritesField(i)
         /\ plan[i].tool = "create_shot" => AddsShot(i)
         /\ plan[i].tool = "delete_shot" => RemovesShot(i)
         /\ plan[i].tool = "reorder_shots" => Renumbers(i)
         /\ plan[i].tool \in Recorders
  BY DEF Records, WritesField, AddsShot, RemovesShot, Renumbers, Writers, Recorders

LEMMA RecordKeepsLog ==
  ASSUME TypeOK, LogOK, Revocable, NEW i \in Steps, Records(i), Fresh(i)
  PROVE  LogOK'
  <1>1. PICK new : new = Len(changes) + 1
    OBVIOUS
  <1>0. Appends(i)
    BY DEF Records
  <1>2. /\ DOMAIN changes' = DOMAIN changes \cup {new} /\ new \notin DOMAIN changes
        /\ \A c \in DOMAIN changes : changes'[c] = changes[c] /\ Of(c)' = Of(c)
        /\ Of(new)' = plan[i] /\ changes'[new].step = i
    <2>1. Recently(i, new)
      BY <1>0, <1>1, Appended
    <2> QED  BY <2>1 DEF Recently
  <1>3. UNCHANGED <<plan, undone, undo, touches>> /\ Len(changes') = Len(changes) + 1
    BY <1>0 DEF Appends
  <1>4. Shots' = Shots /\ Targets' = Targets /\ live \subseteq Shots
    BY <1>3, SamePlan DEF Targets, TypeOK
  <1>5. plan[i].tool = "create_shot" => plan[i].on \in Shots
    BY NewDiffers
  <1>6. /\ plan[i].tool \in Recorders
        /\ plan[i].tool # "reorder_shots" => plan[i].on \in Targets
        /\ plan[i].tool \in {"continuity_fix", "delete_shot"} => plan[i].on \in Shots
    <2>1. CASE WritesField(i)
      BY <2>1, <1>4, RecordKinds DEF WritesField, Targets, Writers
    <2>2. CASE AddsShot(i)
      BY <2>2, <1>5, RecordKinds DEF AddsShot, Targets
    <2>3. CASE RemovesShot(i)
      BY <2>3, <1>4, RecordKinds DEF RemovesShot, Targets
    <2>4. CASE Renumbers(i)
      BY <2>4, RecordKinds DEF Renumbers
    <2> QED  BY <2>1, <2>2, <2>3, <2>4 DEF Records
  <1>7. /\ \A c \in DOMAIN changes : /\ Of(c).tool \in Recorders
                                     /\ Of(c).tool # "reorder_shots" => Of(c).on \in Targets
                                     /\ Of(c).tool \in {"continuity_fix", "delete_shot"} => Of(c).on \in Shots
        /\ \A c, d \in DOMAIN changes : c # d => changes[c].step # changes[d].step
        /\ undo.left \cap undone = {} /\ undo.of <= Len(changes) /\ touches \in Nat
        /\ content = [x \in Targets |-> content[x]]
    BY DEF LogOK
  <1>8. \A c \in DOMAIN changes' : /\ Of(c)'.tool \in Recorders
                                   /\ Of(c)'.tool # "reorder_shots" => Of(c)'.on \in Targets
                                   /\ Of(c)'.tool \in {"continuity_fix", "delete_shot"} => Of(c)'.on \in Shots
    BY <1>2, <1>6, <1>7
  <1>9. \A c, d \in DOMAIN changes' : c # d => changes'[c].step # changes'[d].step
    BY <1>2, <1>7 DEF Fresh
  <1>10. undo'.left \cap undone' = {} /\ undo'.of <= Len(changes') /\ touches' \in Nat
    BY <1>3, <1>7 DEF TypeOK, IsSeq
  <1>11. content' = [x \in Targets |-> content'[x]]
    BY <1>7 DEF Records, WritesField, AddsShot, RemovesShot, Renumbers
  <1>12. \A c : Of(c).tool' = Of(c)'.tool /\ Of(c).on' = Of(c)'.on
    OBVIOUS
  <1> QED  BY <1>4, <1>8, <1>9, <1>10, <1>11 DEF LogOK

LEMMA RecordKeepsTypes ==
  ASSUME TypeOK, StoryTypes, Revocable, NEW i \in Steps, Records(i), Fresh(i)
  PROVE  StoryTypes'
  <1>1. Shots' = Shots /\ live \subseteq Shots /\ num \in [Shots -> Nat]
        /\ \A s \in live \cup Range(FirstShots) : num[s] > 0
    BY SamePlan DEF Records, Appends, TypeOK, StoryTypes
  <1>2. CASE WritesField(i) \/ RemovesShot(i)
    BY <1>1, <1>2 DEF WritesField, RemovesShot, StoryTypes
  <1>3. CASE AddsShot(i)
    <2>1. PICK n : n = 1 + Max({0} \cup {num[s] : s \in live})
      OBVIOUS
    <2>2. n \in Nat \ {0}
      BY <2>1, LastNumber
    <2>3. num' = [num EXCEPT ![plan[i].on] = n] /\ live' = live \cup {plan[i].on}
      BY <2>1, <1>3 DEF AddsShot
    <2>4. plan[i].on \in Shots
      BY <1>3, NewDiffers DEF AddsShot
    <2>5. num' \in [Shots -> Nat] /\ \A s \in Shots : num'[s] = IF s = plan[i].on THEN n ELSE num[s]
      BY <2>2, <2>3, <1>1
    <2>6. \A s \in live' \cup Range(FirstShots) : s \in Shots /\ num'[s] > 0
      BY <2>2, <2>3, <2>4, <2>5, <1>1, ScenePlaces
    <2> QED  BY <2>5, <2>6, <1>1 DEF StoryTypes
  <1>4. CASE Renumbers(i)
    <2>1. DOMAIN plan[i].order = 1 .. Len(plan[i].order) /\ Len(plan[i].order) \in Nat
      BY ShotsAssumption DEF TypeOK, Steps
    <2>2. \A s \in Range(plan[i].order) : Place(plan[i].order, s) \in Nat \ {0}
      BY <2>1, PlaceIn
    <2>3. num' = [s \in Shots |-> IF s \in Range(plan[i].order) THEN Place(plan[i].order, s) ELSE num[s]]
      BY <1>4 DEF Renumbers, Ordered
    <2>4. \A s \in Shots : num'[s] \in Nat /\ (num[s] > 0 => num'[s] > 0)
      BY <2>2, <2>3, <1>1
    <2>5. live' = live /\ \A s \in live \cup Range(FirstShots) : s \in Shots
      BY <1>1, <1>4, ScenePlaces DEF Renumbers
    <2> QED  BY <2>3, <2>4, <2>5, <1>1 DEF StoryTypes
  <1> QED  BY <1>2, <1>3, <1>4 DEF Records

LEMMA RecordKeepsLife ==
  ASSUME TypeOK, LogOK, Revocable, LifeOK, NEW i \in Steps, Records(i), Fresh(i)
  PROVE  LifeOK'
  <1>1. PICK new : new = Len(changes) + 1
    OBVIOUS
  <1>0. Appends(i)
    BY DEF Records
  <1>2. /\ \A c \in DOMAIN changes : c < new /\ Of(c)' = Of(c)
        /\ Of(new)' = plan[i]
        /\ \A tools : With(tools)' = With(tools) \cup (IF plan[i].tool \in tools THEN {new} ELSE {})
        /\ \A x, tools : At(x, tools)' =
             At(x, tools) \cup (IF plan[i].tool \in tools /\ plan[i].on = x THEN {new} ELSE {})
    <2>1. Recently(i, new)
      BY <1>0, <1>1, Appended
    <2> QED  BY <2>1 DEF Recently
  <1>3. Shots' = Shots /\ live \subseteq Shots
    BY <1>0, SamePlan DEF Appends, TypeOK
  <1>4. /\ plan[i].tool = "create_shot" => plan[i].on \in Shots \ Range(FirstShots)
        /\ plan[i].tool # "create_shot" /\ plan[i].on \in Shots => plan[i].on \in Range(FirstShots)
    BY NewDiffers
  <1>5. live' = IF plan[i].tool = "create_shot" THEN live \cup {plan[i].on}
                ELSE IF plan[i].tool = "delete_shot" THEN live \ {plan[i].on} ELSE live
    BY DEF Records, WritesField, AddsShot, RemovesShot, Renumbers, Writers
  <1>6. plan[i].tool = "delete_shot" => plan[i].on \in live
    BY RecordKinds DEF RemovesShot
  <1>7. /\ \A s \in Range(FirstShots) : s \notin live <=> At(s, {"delete_shot"}) # {}
        /\ \A s \in Shots \ Range(FirstShots) : s \in live <=> At(s, {"create_shot"}) # {}
        /\ \A c \in With(Writers), d \in With({"delete_shot"}) : Of(c).on = Of(d).on => c < d
    BY DEF LifeOK
  <1>8. ASSUME NEW s \in Range(FirstShots)
        PROVE  s \notin live' <=> At(s, {"delete_shot"})' # {}
    <2>1. At(s, {"delete_shot"})' =
            At(s, {"delete_shot"}) \cup (IF plan[i].tool = "delete_shot" /\ plan[i].on = s THEN {new} ELSE {})
      BY <1>2
    <2>2. s \notin live <=> At(s, {"delete_shot"}) # {}
      BY <1>7
    <2> QED  BY <2>1, <2>2, <1>4, <1>5
  <1>9. ASSUME NEW s \in Shots \ Range(FirstShots)
        PROVE  s \in live' <=> At(s, {"create_shot"})' # {}
    <2>1. At(s, {"create_shot"})' =
            At(s, {"create_shot"}) \cup (IF plan[i].tool = "create_shot" /\ plan[i].on = s THEN {new} ELSE {})
      BY <1>2
    <2>2. s \in live <=> At(s, {"create_shot"}) # {}
      BY <1>7
    <2> QED  BY <2>1, <2>2, <1>3, <1>4, <1>5, <1>6
  <1>10. ASSUME NEW c \in With(Writers)', NEW d \in With({"delete_shot"})', (Of(c).on = Of(d).on)'
         PROVE  c < d
    <2>1. /\ With(Writers)' = With(Writers) \cup (IF plan[i].tool \in Writers THEN {new} ELSE {})
          /\ With({"delete_shot"})' = With({"delete_shot"}) \cup (IF plan[i].tool = "delete_shot" THEN {new} ELSE {})
      BY <1>2
    <2>2. With(Writers) \subseteq DOMAIN changes /\ With({"delete_shot"}) \subseteq DOMAIN changes
      BY LogFacts
    <2>3. CASE c \in With(Writers) /\ d \in With({"delete_shot"})
      BY <2>2, <2>3, <1>2, <1>7, <1>10
    <2>4. CASE d = new /\ c \in With(Writers)
      BY <2>2, <2>4, <1>2
    <2>5. CASE c = new /\ plan[i].tool \in Writers /\ d \in With({"delete_shot"})
      <3>1. Of(d).on = plan[i].on /\ d \in Standing /\ Of(d).tool = "delete_shot" /\ d \in DOMAIN changes
        BY <2>2, <2>5, <1>2, <1>10 DEF With
      <3>2. Of(d).on \in Range(FirstShots)
        BY <3>1, ChangesDiffer DEF LogOK
      <3>3. d \in At(Of(d).on, {"delete_shot"})
        BY <2>5 DEF At
      <3>4. Of(d).on \notin live /\ Of(d).on # Scene
        BY <3>2, <3>3, <1>7, ScenePlaces
      <3>5. plan[i].on \in live \cup {Scene}
        BY <2>5, RecordKinds DEF WritesField
      <3> QED  BY <3>1, <3>4, <3>5
    <2>6. plan[i].tool \in Writers => plan[i].tool # "delete_shot"
      BY DEF Writers
    <2> QED  BY <1>10, <2>1, <2>3, <2>4, <2>5, <2>6
  <1> QED  BY <1>3, <1>8, <1>9, <1>10 DEF LifeOK

LEMMA WrittenKept ==
  ASSUME UNCHANGED plan, NEW S, \A c \in S : changes'[c] = changes[c], NEW v, Written(S, v)
  PROVE  Written(S, v)'
  <1>1. \A i : ValueOf(i)' = ValueOf(i)
    BY DEF ValueOf
  <1> QED  BY <1>1 DEF Written

LEMMA StackMade ==
  ASSUME NEW x, NEW S, NEW v, At(x, Writers)' = S, content'[x] = v, Written(S, v)',
         \A c \in S : \A u : u = changes'[c].content => Written(Below(c, S), u)'
  PROVE  StackOK(x)'
  <1>1. Written(At(x, Writers), content[x])'
    BY DEF Written
  <1>2. ASSUME NEW c \in S  PROVE Written(Below(c, At(x, Writers)), changes[c].content)'
    <2>1. PICK u : u = changes'[c].content
      OBVIOUS
    <2>2. Written(Below(c, S), u)'
      BY <2>1
    <2>3. Below(c, At(x, Writers))' = Below(c, S)
      BY DEF Below
    <2> QED  BY <2>1, <2>2, <2>3 DEF Written
  <1> QED  BY <1>1, <1>2 DEF StackOK

LEMMA RecordKeepsContent ==
  ASSUME TypeOK, LogOK, StoryTypes, ContentOK, NEW i \in Steps, Records(i)
  PROVE  ContentOK'
  <1>1. PICK new : new = Len(changes) + 1
    OBVIOUS
  <1>2. Appends(i) /\ UNCHANGED plan
    BY DEF Records, Appends
  <1>3. Recently(i, new)
    BY <1>1, <1>2, Appended
  <1>4. Targets' = Targets
    BY <1>2, SamePlan DEF Targets
  <1>5. ASSUME NEW x \in Targets  PROVE StackOK(x)'
    <2>1. PICK A : A = At(x, Writers)
      OBVIOUS
    <2>2. PICK v : v = content[x]
      OBVIOUS
    <2>3. Written(A, v) /\ \A c \in A : Written(Below(c, A), changes[c].content)
      BY <2>1, <2>2 DEF ContentOK, StackOK
    <2>4. A \subseteq DOMAIN changes /\ \A c \in A : changes'[c] = changes[c] /\ c < new /\ c \in Nat
      <3>1. \A c \in DOMAIN changes : changes'[c] = changes[c] /\ c < new
        BY <1>3 DEF Recently
      <3>2. A \subseteq DOMAIN changes /\ \A c \in DOMAIN changes : c \in Nat
        BY <2>1, LogFacts
      <3> QED  BY <3>1, <3>2
    <2>5. Written(A, v)'
      BY <1>2, <2>3, <2>4, WrittenKept
    <2>6. ASSUME NEW c \in A, NEW u, u = changes'[c].content  PROVE Written(Below(c, A), u)'
      <3>1. PICK S : S = Below(c, A)
        OBVIOUS
      <3>2. \A d \in S : changes'[d] = changes[d]
        BY <2>4, <3>1 DEF Below
      <3>3. u = changes[c].content
        BY <2>4, <2>6
      <3>4. Written(S, u)
        BY <2>3, <3>1, <3>3
      <3>5. Written(S, u)'
        BY <1>2, <3>2, <3>4, WrittenKept
      <3> QED  BY <3>1, <3>5
    <2>7. CASE plan[i].tool \in Writers /\ plan[i].on = x
      <3>1. At(x, Writers)' = A \cup {new}
        BY <1>3, <2>1, <2>7 DEF Recently
      <3>2. content'[x] = ValueOf(i)
        <4>1. WritesField(i)
          BY <2>7, RecordKinds
        <4>2. x \in DOMAIN content
          BY DEF LogOK
        <4> QED  BY <4>1, <4>2, <2>7 DEF WritesField
      <3>3. changes'[new].step = i /\ changes'[new].content = v
        <4>1. changes'[new].step = i /\ changes'[new] = Recorded(i)
          BY <1>3 DEF Recently
        <4>2. plan[i].on = Scene \/ num[plan[i].on] > 0
          BY <2>7, RecordKinds DEF WritesField, StoryTypes
        <4> QED  BY <4>1, <4>2, <2>2, <2>7 DEF Recorded
      <3>4. new \in Nat
        BY <1>1 DEF TypeOK, IsSeq
      <3> DEFINE B == A \cup {new}
      <3>5. ValueOf(changes[new].step)' = ValueOf(i)
        BY <3>3, <1>2 DEF ValueOf
      <3>6. B # {} /\ \A c \in B : IsLatest(c, B) => c = new
        <4>1. ASSUME NEW c \in A, IsLatest(c, B)  PROVE FALSE
          <5>1. new <= c /\ c < new /\ c \in Nat
            BY <2>4, <4>1 DEF IsLatest
          <5> QED  BY <5>1, <3>4
        <4> QED  BY <4>1
      <3>7. Below(new, B) = A /\ \A c \in A : Below(c, B) = Below(c, A)
        BY <2>4, <3>4 DEF Below
      <3> HIDE DEF B
      <3>9. ASSUME NEW c \in B, NEW u, u = changes'[c].content  PROVE Written(Below(c, B), u)'
        <4>1. CASE c = new
          <5>1. Below(c, B) = A /\ u = v
            BY <4>1, <3>3, <3>7, <3>9
          <5> QED  BY <5>1, <2>5
        <4>2. CASE c \in A
          <5>1. Below(c, B) = Below(c, A) /\ Written(Below(c, A), u)'
            BY <4>2, <3>7, <3>9, <2>6
          <5> QED  BY <5>1
        <4> QED  BY <4>1, <4>2 DEF B
      <3>10. At(x, Writers)' = B
        BY <3>1 DEF B
      <3>11. PICK w : w = ValueOf(i)
        OBVIOUS
      <3>12. content'[x] = w /\ Written(B, w)'
        BY <3>2, <3>5, <3>6, <3>11, <1>2 DEF Written, ValueOf
      <3> QED  BY <3>9, <3>10, <3>12, StackMade
    <2>8. CASE ~(plan[i].tool \in Writers /\ plan[i].on = x)
      <3>1. At(x, Writers)' = A
        BY <1>3, <2>1, <2>8 DEF Recently
      <3>2. content'[x] = v
        <4>1. x \in DOMAIN content
          BY DEF LogOK
        <4> QED  BY <4>1, <2>2, <2>8 DEF Records, WritesField, AddsShot, RemovesShot, Renumbers
      <3> QED  BY <3>1, <3>2, <2>5, <2>6, StackMade
    <2> QED  BY <2>7, <2>8
  <1> QED  BY <1>4, <1>5 DEF ContentOK

LEMMA RecordKeepsNumbers ==
  ASSUME TypeOK, LogOK, Revocable, StoryTypes, LifeOK, NumbersOK, NEW i \in Steps, Records(i), Fresh(i)
  PROVE  NumbersOK'
  <1>1. PICK new : new = Len(changes) + 1
    OBVIOUS
  <1>2. Appends(i) /\ Recently(i, new)
    BY <1>1, Appended DEF Records
  <1>3. SUFFICES ASSUME ~Used("reorder_shots")'
                 PROVE  /\ \A s, t \in live' : num'[s] = num'[t] => s = t
                        /\ \A s \in Range(FirstShots) \ live', t \in live' : num'[t] = num'[s] =>
                             \E e \in At(t, {"create_shot"})' : \A d \in At(s, {"delete_shot"})' : d < e
    BY DEF NumbersOK
  <1>4. ~Used("reorder_shots") /\ plan[i].tool # "reorder_shots"
    BY <1>2, <1>3, AppendUses
  <1>5. /\ \A s, t \in live : num[s] = num[t] => s = t
        /\ \A s \in Range(FirstShots) \ live, t \in live : num[t] = num[s] =>
             \E e \in At(t, {"create_shot"}) : \A d \in At(s, {"delete_shot"}) : d < e
    BY <1>4 DEF NumbersOK
  <1>6. /\ live \subseteq Shots /\ num \in [Shots -> Nat] /\ Range(FirstShots) \subseteq Shots
    BY ScenePlaces DEF TypeOK, StoryTypes
  <1>7. \A s : At(s, {"create_shot"}) \subseteq DOMAIN changes /\ At(s, {"delete_shot"}) \subseteq DOMAIN changes
    BY LogFacts
  <1>8. CASE WritesField(i)
    <2>1. /\ \A s : At(s, {"create_shot"})' = At(s, {"create_shot"})
          /\ \A s : At(s, {"delete_shot"})' = At(s, {"delete_shot"})
      BY <1>2, <1>8 DEF Recently, WritesField, Writers
    <2> QED  BY <2>1, <1>5, <1>8 DEF WritesField
  <1>9. CASE AddsShot(i)
    <2>1. PICK x : x = plan[i].on
      OBVIOUS
    <2>2. PICK n : n = 1 + Max({0} \cup {num[s] : s \in live})
      OBVIOUS
    <2>3. /\ x \in Shots \ Range(FirstShots) /\ num' = [num EXCEPT ![x] = n] /\ live' = live \cup {x}
      BY <1>9, <2>1, <2>2, NewDiffers DEF AddsShot
    <2>4. n \in Nat /\ \A t \in live : num[t] < n
      BY <2>2, LastNumber
    <2>5. x \notin live
      <3>1. \A c \in DOMAIN changes : Of(c).on # x
        BY <1>9, <2>1, NewDiffers DEF AddsShot
      <3>2. At(x, {"create_shot"}) = {}
        BY <3>1, <1>7 DEF At
      <3> QED  BY <3>2, <2>3 DEF LifeOK
    <2>6. /\ num'[x] = n /\ \A s \in Shots \ {x} : num'[s] = num[s] /\ num[s] \in Nat
      BY <2>3, <1>6
    <2>7. \A t \in live : num'[t] = num[t] /\ num'[t] # num'[x]
      BY <2>4, <2>5, <2>6, <1>6
    <2>8. \A s, t \in live' : num'[s] = num'[t] => s = t
      BY <2>3, <2>7, <1>5
    <2>9. ASSUME NEW s \in Range(FirstShots) \ live', NEW t \in live', num'[t] = num'[s]
          PROVE  \E e \in At(t, {"create_shot"})' : \A d \in At(s, {"delete_shot"})' : d < e
      <3>1. s \in Range(FirstShots) \ live /\ num'[s] = num[s]
        BY <2>3, <2>6, <1>6
      <3>2. At(s, {"delete_shot"})' = At(s, {"delete_shot"})
        BY <1>2, <1>9 DEF Recently, AddsShot
      <3>3. CASE t = x
        <4>1. At(t, {"create_shot"})' = At(t, {"create_shot"}) \cup {new}
          BY <1>2, <1>9, <2>1, <3>3 DEF Recently, AddsShot
        <4>2. \A d \in At(s, {"delete_shot"}) : d < new
          BY <1>2, <1>7 DEF Recently
        <4> QED  BY <4>1, <4>2, <3>2
      <3>4. CASE t # x
        <4>1. At(t, {"create_shot"})' = At(t, {"create_shot"})
          BY <1>2, <2>1, <3>4 DEF Recently
        <4>2. t \in live /\ num[t] = num[s]
          BY <2>3, <2>7, <2>9, <3>1, <3>4
        <4> QED  BY <4>1, <4>2, <3>1, <3>2, <1>5
      <3> QED  BY <3>3, <3>4
    <2> QED  BY <2>8, <2>9
  <1>10. CASE RemovesShot(i)
    <2>1. PICK x : x = plan[i].on
      OBVIOUS
    <2>2. x \in live /\ live' = live \ {x} /\ num' = num
      BY <1>10, <2>1 DEF RemovesShot
    <2>3. ASSUME NEW s \in Range(FirstShots) \ live', NEW t \in live', num'[t] = num'[s]
          PROVE  \E e \in At(t, {"create_shot"})' : \A d \in At(s, {"delete_shot"})' : d < e
      <3>1. t \in live /\ t # x /\ num[t] = num[s]
        BY <2>2, <2>3
      <3>2. s # x
        BY <3>1, <2>2, <1>5
      <3>3. s \in Range(FirstShots) \ live
        BY <3>2, <2>2
      <3>4. At(s, {"delete_shot"})' = At(s, {"delete_shot"}) /\ At(t, {"create_shot"})' = At(t, {"create_shot"})
        BY <1>2, <1>10, <2>1, <3>2 DEF Recently, RemovesShot
      <3> QED  BY <3>1, <3>3, <3>4, <1>5
    <2> QED  BY <2>2, <2>3, <1>5
  <1> QED  BY <1>4, <1>8, <1>9, <1>10 DEF Records, Renumbers

\* Before the shots get an order, they are as they were.
LEMMA OrderedShots ==
  ASSUME TypeOK, LogOK, LifeOK, ~Used("delete_shot")
  PROVE  /\ Range(FirstShots) \subseteq live
         /\ live \subseteq Range(FirstShots) <=> With({"create_shot"}) = {}
  <1>1. ASSUME NEW s \in Range(FirstShots)  PROVE s \in live
    <2>1. At(s, {"delete_shot"}) = {}
      <3>1. \A c \in At(s, {"delete_shot"}) : c \in DOMAIN changes /\ Of(c).tool = "delete_shot"
        BY LogFacts DEF At, With
      <3> QED  BY <3>1 DEF Used
    <2> QED  BY <2>1 DEF LifeOK
  <1>2. ASSUME NEW s \in live, s \notin Range(FirstShots)  PROVE With({"create_shot"}) # {}
    <2>1. s \in Shots \ Range(FirstShots)
      BY <1>2 DEF TypeOK
    <2>2. At(s, {"create_shot"}) # {}
      BY <2>1 DEF LifeOK
    <2> QED  BY <2>2 DEF At
  <1>3. ASSUME NEW c \in With({"create_shot"})  PROVE \E s \in live : s \notin Range(FirstShots)
    <2>1. c \in DOMAIN changes /\ Of(c).tool = "create_shot"
      BY <1>3, LogFacts DEF With
    <2>2. Of(c).on \in Shots \ Range(FirstShots)
      <3>1. plan \in Plans /\ changes[c].step \in Steps
        BY <2>1 DEF TypeOK
      <3> QED  BY <2>1, <3>1, CreatedShots DEF Of
    <2>3. c \in At(Of(c).on, {"create_shot"})
      BY <1>3 DEF At
    <2> QED  BY <2>2, <2>3 DEF LifeOK
  <1> QED  BY <1>1, <1>2, <1>3

\* What is recorded as the order of the shots is their order.
LEMMA OrderIsSorted ==
  ASSUME live = Range(FirstShots), Increasing(FirstShots), num \in [Shots -> Nat]
  PROVE  Sorted(Order)
  <1>1. /\ Len(FirstShots) \in Nat /\ DOMAIN FirstShots = 1 .. Len(FirstShots)
        /\ \A k, l \in DOMAIN FirstShots : FirstShots[k] = FirstShots[l] => k = l
        /\ \A k \in DOMAIN FirstShots : FirstShots[k] \in live
        /\ \A s \in live : \E k \in DOMAIN FirstShots : FirstShots[k] = s
    BY ScenePlaces
  <1> DEFINE n == Len(FirstShots)
             shots == [k \in 1 .. n |-> FirstShots[k]]
  <1>2. Cardinality(live) = n
    <2>1. shots \in Bijection(1 .. n, live)
      <3>1. /\ shots \in [1 .. n -> live] /\ \A k \in 1 .. n : shots[k] = FirstShots[k]
        BY <1>1
      <3>2. \A k, l \in 1 .. n : shots[k] = shots[l] => k = l
        BY <3>1, <1>1
      <3>3. \A s \in live : \E k \in 1 .. n : shots[k] = s
        BY <3>1, <1>1
      <3> HIDE DEF shots
      <3>4. shots \in Injection(1 .. n, live)
        BY <3>1, <3>2 DEF Injection, IsInjective
      <3>5. shots \in Surjection(1 .. n, live)
        BY <3>1, <3>3 DEF Surjection
      <3> QED  BY <3>4, <3>5 DEF Bijection
    <2>2. IsFiniteSet(1 .. n) /\ Cardinality(1 .. n) = n
      <3>1. 1 \in Int /\ n \in Int /\ n \in Nat
        BY <1>1
      <3>2. IsFiniteSet(1 .. n) /\ Cardinality(1 .. n) = IF 1 > n THEN 0 ELSE n - 1 + 1
        BY <3>1, FS_Interval
      <3> QED  BY <3>1, <3>2
    <2> HIDE DEF shots
    <2>3. ExistsBijection(1 .. n, live)
      BY <2>1 DEF ExistsBijection
    <2> QED  BY <2>2, <2>3, FS_Bijection
  <1>3. shots \in [1 .. Cardinality(live) -> live]
    BY <1>1, <1>2
  <1>4. IsOrder(shots)
    BY <1>1 DEF IsOrder, Increasing, Range
  <1> HIDE DEF shots
  <1>5. PICK o : o = Order
    OBVIOUS
  <1>6. o \in [1 .. Cardinality(live) -> live] /\ IsOrder(o)
    BY <1>3, <1>4, <1>5 DEF Order
  <1>7. DOMAIN o = 1 .. n /\ Range(o) = live /\ Increasing(o)
    BY <1>2, <1>6 DEF IsOrder
  <1>8. ASSUME NEW k \in DOMAIN FirstShots, NEW l \in DOMAIN FirstShots, k < l
        PROVE  Place(o, FirstShots[k]) < Place(o, FirstShots[l])
    <2>1. PICK a, b : a = Place(o, FirstShots[k]) /\ b = Place(o, FirstShots[l])
      OBVIOUS
    <2>2. a \in 1 .. n /\ b \in 1 .. n /\ o[a] = FirstShots[k] /\ o[b] = FirstShots[l]
      BY <2>1, <1>1, <1>7, PlaceIn
    <2>3. num[o[a]] < num[o[b]] /\ num[o[a]] \in Nat /\ num[o[b]] \in Nat
      <3>1. o[a] \in Shots /\ o[b] \in Shots
        BY <2>2, ScenePlaces
      <3>2. num[FirstShots[k]] < num[FirstShots[l]]
        BY <1>8 DEF Increasing
      <3> QED  BY <3>1, <3>2, <2>2
    <2>4. a # b /\ ~(b < a)
      BY <2>2, <2>3, <1>7 DEF Increasing
    <2> QED  BY <2>1, <2>2, <2>4, <1>1
  <1> QED  BY <1>1, <1>5, <1>7, <1>8 DEF Sorted

\* An order that has been given to shots, each of them once.
LEMMA GivenOrder ==
  ASSUME NEW shots, NEW n \in Nat, DOMAIN shots = 1 .. n, IsInjective(shots), Range(shots) \subseteq Shots,
         num' = Ordered(shots)
  PROVE  Increasing(shots)'
  <1>1. \A k \in DOMAIN shots : shots[k] \in Range(shots) /\ Place(shots, shots[k]) = k
    BY DEF Range, Place, IsInjective
  <1>2. \A k \in DOMAIN shots : num'[shots[k]] = k
    BY <1>1 DEF Ordered
  <1> QED  BY <1>2 DEF Increasing

LEMMA RecordKeepsOrder ==
  ASSUME TypeOK, LogOK, Revocable, StoryTypes, LifeOK, OrderOK, NEW i \in Steps, Records(i), Fresh(i), Calm'
  PROVE  OrderOK'
  <1>1. PICK new : new = Len(changes) + 1
    OBVIOUS
  <1>2. Appends(i) /\ Recently(i, new)
    BY <1>1, Appended DEF Records
  <1>3. /\ With({"reorder_shots"})' = With({"reorder_shots"}) \cup
               (IF plan[i].tool \in {"reorder_shots"} THEN {new} ELSE {})
        /\ With({"create_shot"})' = With({"create_shot"}) \cup
               (IF plan[i].tool \in {"create_shot"} THEN {new} ELSE {})
    BY <1>2 DEF Recently
  <1>4. /\ \A c \in With({"reorder_shots"}) \cup With({"create_shot"}) :
             c < new /\ changes'[c] = changes[c] /\ Of(c)' = Of(c)
        /\ Range(FirstShots) \subseteq Shots
    BY <1>2, LogFacts, ScenePlaces DEF Recently
  <1>5. CASE plan[i].tool # "reorder_shots"
    <2>1. \A s \in Range(FirstShots) : num'[s] = num[s]
      <3>1. CASE AddsShot(i)
        <4>1. plan[i].on \notin Range(FirstShots)
          BY <3>1, NewDiffers DEF AddsShot
        <4>2. PICK n : num' = [num EXCEPT ![plan[i].on] = n]
          BY <3>1 DEF AddsShot
        <4> QED  BY <4>1, <4>2, <1>4 DEF StoryTypes
      <3> QED  BY <3>1, <1>5 DEF Records, WritesField, RemovesShot, Renumbers
    <2>2. ASSUME NEW shots, Range(shots) \subseteq Range(FirstShots), Increasing(shots)
          PROVE  Increasing(shots)'
      <3>1. \A k \in DOMAIN shots : shots[k] \in Range(FirstShots)
        BY <2>2 DEF Range
      <3> QED  BY <2>1, <2>2, <3>1 DEF Increasing
    <2>3. With({"reorder_shots"})' = With({"reorder_shots"})
      BY <1>3, <1>5
    <2>4. With({"reorder_shots"})' = {} => Increasing(FirstShots)'
      BY <2>2, <2>3 DEF OrderOK
    <2>5. ASSUME NEW c \in With({"reorder_shots"})
          PROVE  /\ (Range(Of(c).order) = Range(FirstShots) /\ Increasing(Of(c).order))'
                 /\ Sorted(changes[c].order)'
                 /\ \A e \in With({"create_shot"})' : c < e
      <3>1. /\ Range(Of(c).order) = Range(FirstShots) /\ Increasing(Of(c).order)
            /\ Sorted(changes[c].order) /\ \A e \in With({"create_shot"}) : c < e
        BY DEF OrderOK
      <3>2. PICK shots : shots = Of(c).order
        OBVIOUS
      <3>3. Increasing(shots)'
        BY <3>1, <3>2, <2>2
      <3>4. Of(c)' = Of(c) /\ changes'[c] = changes[c] /\ c < new
        BY <1>4
      <3>5. (Range(Of(c).order) = Range(FirstShots) /\ Increasing(Of(c).order))'
        BY <3>1, <3>2, <3>3, <3>4 DEF Increasing
      <3>6. Sorted(changes[c].order)'
        BY <3>1, <3>4
      <3> QED  BY <3>1, <3>4, <3>5, <3>6, <1>3
    <2> QED  BY <2>3, <2>4, <2>5 DEF OrderOK
  <1>6. CASE plan[i].tool = "reorder_shots"
    <2>1. ~Used("reorder_shots") /\ ~Used("delete_shot")
      BY <1>2, <1>6, NewDiffers, AppendUses
    <2>2. With({"reorder_shots"}) = {}
      <3>1. \A c \in With({"reorder_shots"}) : c \in DOMAIN changes /\ Of(c).tool = "reorder_shots"
        BY LogFacts DEF With
      <3> QED  BY <2>1, <3>1 DEF Used
    <2>3. PICK shots : shots = plan[i].order
      OBVIOUS
    <2>4. Range(shots) = live /\ IsInjective(shots) /\ num' = Ordered(shots)
      BY <1>6, <2>3, RecordKinds DEF Renumbers
    <2>5. live = Range(FirstShots) /\ With({"create_shot"}) = {}
      <3>1. live \subseteq Range(FirstShots)
        <4>1. \A j \in Steps : plan[j].tool = "create_shot" => plan[j].on \notin live
          BY <2>3, <2>4, ShotsAssumption DEF TypeOK, Steps
        <4>2. live \subseteq Shots /\ plan \in Plans
          BY DEF TypeOK
        <4> QED  BY <4>1, <4>2, CreatedShots
      <3> QED  BY <3>1, <2>1, OrderedShots
    <2>6. Increasing(shots)'
      <3>1. Len(shots) \in Nat /\ DOMAIN shots = 1 .. Len(shots)
        BY <2>3, ShotsAssumption DEF TypeOK, Steps
      <3> QED  BY <3>1, <2>4, <2>5, ScenePlaces, GivenOrder
    <2>7. Sorted(Order)
      BY <2>2, <2>5, OrderIsSorted DEF OrderOK, StoryTypes
    <2>8. changes'[new].order = Order /\ Of(new)' = plan[i]
      BY <1>2 DEF Recently, Recorded
    <2>9. With({"reorder_shots"})' = {new} /\ With({"create_shot"})' = {}
      BY <1>3, <1>6, <2>2, <2>5
    <2>10. (Range(Of(new).order) = Range(FirstShots) /\ Increasing(Of(new).order))'
      BY <2>3, <2>4, <2>5, <2>6, <2>8 DEF Increasing
    <2>11. Sorted(changes[new].order)'
      BY <2>7, <2>8
    <2> QED  BY <2>9, <2>10, <2>11 DEF OrderOK
  <1> QED  BY <1>5, <1>6

----------------------------------------------------------------------------
(* A change is undone, or stands in conflict with what came after it.      *)

TakesBack(c) ==
  \/ Of(c).tool \in Writers /\ UndoesPatch(c)
  \/ Of(c).tool \in {"create_shot", "delete_shot"} /\ UndoesLifecycle(c)
  \/ Of(c).tool = "reorder_shots" /\ UndoesOrder(c)

UndoStep(c) ==
  /\ c \in Standing /\ IsLatest(c, undo.left) /\ touches' = touches
  /\ undo' = IF undo.left = {c} THEN NoUndo ELSE [undo EXCEPT !.left = @ \ {c}]
  /\ \/ Takes({c}) /\ TakesBack(c)
     \/ Takes({}) /\ Conflicts(c) /\ UNCHANGED story

LEMMA UndoTakes ==
  ASSUME TypeOK, LogOK, UndoesNow
  PROVE  \E c \in undo.left : UndoStep(c)
  <1>1. undo.left # {} /\ undo.left \subseteq DOMAIN changes /\ undo.left \cap undone = {} /\ UNCHANGED plan
    BY DEF TypeOK, LogOK, UndoesNow, UndoesOne
  <1>2. Len(changes) \in Nat /\ DOMAIN changes = 1 .. Len(changes)
    BY LogFacts
  <1>3. PICK c \in undo.left : c = Newest(undo.left) /\ \A d \in undo.left : c >= d
    <2>1. undo.left \in SUBSET (0 .. Len(changes))
      BY <1>1, <1>2
    <2>2. Max(undo.left) \in undo.left /\ \A d \in undo.left : Max(undo.left) >= d
      BY <2>1, <1>1, <1>2, MaxIsUpper
    <2> QED  BY <2>2 DEF Newest
  <1>4. c \in Standing /\ IsLatest(c, undo.left)
    <2>1. \A d \in undo.left : d \in Nat
      BY <1>1, <1>2
    <2> QED  BY <2>1, <1>1, <1>3 DEF Standing, IsLatest
  <1>5. /\ undo' = IF undo.left = {c} THEN NoUndo ELSE [undo EXCEPT !.left = @ \ {c}]
        /\ Undoes(c) \/ (Conflicts(c) /\ UNCHANGED <<story, undone>>)
        /\ UNCHANGED <<changes, touches>>
    BY <1>3 DEF UndoesNow, UndoesOne
  <1>6. Undoes(c) => Takes({c}) /\ TakesBack(c)
    BY <1>1, <1>5 DEF Undoes, Takes, TakesBack, Writers
  <1>7. UNCHANGED undone => Takes({})
    BY <1>1, <1>5 DEF Takes
  <1> QED  BY <1>4, <1>5, <1>6, <1>7 DEF UndoStep

LEMMA NothingTaken ==
  ASSUME UNCHANGED <<plan, changes, undone, story>>
  PROVE  /\ StoryTypes => StoryTypes'
         /\ LifeOK => LifeOK'
         /\ ContentOK => ContentOK'
         /\ NumbersOK => NumbersOK'
         /\ OrderOK => OrderOK'
         /\ Standing' = Standing
         /\ \A tool : Used(tool)' <=> Used(tool)
  <1>1. UNCHANGED <<content, num, live>> /\ Shots' = Shots /\ Targets' = Targets
    BY SamePlan DEF story, Targets
  <1>2. /\ \A c : Of(c)' = Of(c)
        /\ \A tool : Used(tool)' <=> Used(tool)
        /\ Standing' = Standing
        /\ \A tools : With(tools)' = With(tools)
        /\ \A x, tools : At(x, tools)' = At(x, tools)
    <2>1. Takes({})
      BY DEF Takes
    <2>2. /\ \A c : Of(c)' = Of(c)
          /\ \A tool : Used(tool)' <=> Used(tool)
          /\ Standing' = Standing \ {}
          /\ \A tools : With(tools)' = With(tools) \ {}
          /\ \A x, tools : At(x, tools)' = At(x, tools) \ {}
      BY <2>1, Taken
    <2>3. \A S : S \ {} = S
      OBVIOUS
    <2> QED  BY ONLY <2>2, <2>3
  <1>3. StoryTypes => StoryTypes'
    BY <1>1 DEF StoryTypes
  <1>4. LifeOK => LifeOK'
    BY <1>1, <1>2 DEF LifeOK
  <1>5. ContentOK => ContentOK'
    BY <1>1, <1>2 DEF ContentOK, StackOK, Written, Below, ValueOf
  <1>6. NumbersOK => NumbersOK'
    BY <1>1, <1>2 DEF NumbersOK
  <1>7. OrderOK => OrderOK'
    BY <1>1, <1>2 DEF OrderOK, Increasing, Sorted
  <1> QED  BY <1>2, <1>3, <1>4, <1>5, <1>6, <1>7

LEMMA UndoKeepsLog ==
  ASSUME TypeOK, LogOK, NEW c \in undo.left, UndoStep(c)
  PROVE  LogOK'
  <1>1. /\ UNCHANGED <<plan, changes, touches>> /\ undone' \subseteq undone \cup {c}
        /\ undo' = IF undo.left = {c} THEN NoUndo ELSE [undo EXCEPT !.left = @ \ {c}]
    BY DEF UndoStep, Takes
  <1>2. \A d : Of(d)' = Of(d)
    BY <1>1 DEF Of
  <1>3. Shots' = Shots /\ Targets' = Targets
    BY <1>1, SamePlan DEF Targets
  <1>4. undo'.left \cap undone' = {} /\ undo'.of <= Len(changes)
    <2>1. undo \in [left : SUBSET DOMAIN changes, of : Nat] /\ 0 <= Len(changes)
      BY DEF TypeOK, IsSeq
    <2>2. undo'.left \subseteq undo.left \ {c} /\ undo'.of \in {0, undo.of}
      BY <1>1, <2>1 DEF NoUndo
    <2> QED  BY <1>1, <2>1, <2>2 DEF LogOK
  <1>5. content' = [x \in Targets |-> content'[x]]
    BY DEF LogOK, UndoStep, TakesBack, UndoesPatch, UndoesLifecycle, UndoesOrder, story
  <1> QED  BY <1>1, <1>2, <1>3, <1>4, <1>5 DEF LogOK

LEMMA UndoKeepsTypes ==
  ASSUME TypeOK, LogOK, Revocable, StoryTypes, NEW c \in Standing, Takes({c}), TakesBack(c),
         Of(c).tool = "reorder_shots" => Sorted(changes[c].order)
  PROVE  StoryTypes'
  <1>1. Shots' = Shots /\ live \subseteq Shots /\ num \in [Shots -> Nat]
        /\ \A s \in live \cup Range(FirstShots) : num[s] > 0
    BY SamePlan DEF Takes, TypeOK, StoryTypes
  <1>2. CASE UndoesPatch(c)
    BY <1>1, <1>2 DEF UndoesPatch, StoryTypes
  <1>3. CASE UndoesLifecycle(c)
    <2>1. Of(c).tool = "delete_shot" => Of(c).on \in Range(FirstShots)
      BY ChangesDiffer, LogFacts DEF LogOK
    <2> QED  BY <1>1, <1>3, <2>1 DEF UndoesLifecycle, StoryTypes
  <1>4. CASE UndoesOrder(c) /\ Of(c).tool = "reorder_shots"
    <2>1. PICK shots : shots = changes[c].order
      OBVIOUS
    <2>2. DOMAIN shots = 1 .. Len(FirstShots)
      BY <1>4, <2>1, ScenePlaces DEF Sorted
    <2>3. \A s \in Range(shots) : Place(shots, s) \in Nat \ {0}
      BY <2>2, PlaceIn, ScenePlaces
    <2>4. num' = [s \in Shots |-> IF s \in Range(shots) THEN Place(shots, s) ELSE num[s]] /\ live' = live
      BY <1>4, <2>1 DEF UndoesOrder, Ordered
    <2>5. \A s \in Shots : num'[s] \in Nat /\ (num[s] > 0 => num'[s] > 0)
      BY <2>3, <2>4, <1>1
    <2> QED  BY <2>4, <2>5, <1>1, ScenePlaces DEF StoryTypes
  <1> QED  BY <1>2, <1>3, <1>4 DEF TakesBack

LEMMA UndoKeepsLife ==
  ASSUME TypeOK, LogOK, Revocable, LifeOK, NEW c \in Standing, Takes({c}), TakesBack(c)
  PROVE  LifeOK'
  <1>1. /\ \A d : Of(d)' = Of(d)
        /\ \A tools : With(tools)' = With(tools) \ {c}
        /\ \A x, tools : At(x, tools)' = At(x, tools) \ {c}
    BY Taken
  <1>2. Shots' = Shots /\ live \subseteq Shots /\ c \in DOMAIN changes
    BY SamePlan, LogFacts DEF Takes, TypeOK
  <1>3. live' = IF Of(c).tool = "create_shot" THEN live \ {Of(c).on}
                ELSE IF Of(c).tool = "delete_shot" THEN live \cup {Of(c).on} ELSE live
    BY DEF TakesBack, UndoesPatch, UndoesLifecycle, UndoesOrder, Writers
  <1>4. /\ Of(c).tool = "create_shot" => Of(c).on \in Shots \ Range(FirstShots)
        /\ Of(c).tool = "delete_shot" => Of(c).on \in Range(FirstShots)
    BY <1>2, ChangesDiffer DEF LogOK
  <1>5. ASSUME NEW s \in Range(FirstShots)
        PROVE  s \notin live' <=> At(s, {"delete_shot"})' # {}
    <2>1. At(s, {"delete_shot"})' = At(s, {"delete_shot"}) \ {c} /\ (s \notin live <=> At(s, {"delete_shot"}) # {})
      BY <1>1 DEF LifeOK
    <2>2. CASE Of(c).tool = "delete_shot"
      <3>1. \A d \in At(s, {"delete_shot"}) : d = c /\ Of(c).on = s
        <4>1. \A d \in At(s, {"delete_shot"}) : d \in DOMAIN changes /\ Of(d).tool = "delete_shot" /\ Of(d).on = s
          BY LogFacts DEF At, With
        <4> QED  BY <4>1, <1>2, <2>2, ChangesDiffer
      <3>2. Of(c).on = s => c \in At(s, {"delete_shot"})
        BY <2>2 DEF At, With
      <3> QED  BY <3>1, <3>2, <2>1, <2>2, <1>3
    <2>3. CASE Of(c).tool # "delete_shot"
      <3>1. c \notin At(s, {"delete_shot"})
        BY <2>3 DEF At, With
      <3>2. s \in live' <=> s \in live
        BY <2>3, <1>3, <1>4
      <3> QED  BY <3>1, <3>2, <2>1
    <2> QED  BY <2>2, <2>3
  <1>6. ASSUME NEW s \in Shots \ Range(FirstShots)
        PROVE  s \in live' <=> At(s, {"create_shot"})' # {}
    <2>1. At(s, {"create_shot"})' = At(s, {"create_shot"}) \ {c} /\ (s \in live <=> At(s, {"create_shot"}) # {})
      BY <1>1 DEF LifeOK
    <2>2. CASE Of(c).tool = "create_shot" /\ Of(c).on = s
      <3>1. \A d \in At(s, {"create_shot"}) : d = c
        <4>1. \A d \in At(s, {"create_shot"}) : d \in DOMAIN changes /\ Of(d).on = s
          BY LogFacts DEF At
        <4> QED  BY <4>1, <1>2, <2>2, ChangesDiffer
      <3> QED  BY <3>1, <2>1, <2>2, <1>3
    <2>3. CASE ~(Of(c).tool = "create_shot" /\ Of(c).on = s)
      <3>1. c \notin At(s, {"create_shot"})
        BY <2>3 DEF At, With
      <3>2. s \in live' <=> s \in live
        BY <2>3, <1>3, <1>4
      <3> QED  BY <3>1, <3>2, <2>1
    <2> QED  BY <2>2, <2>3
  <1>7. ASSUME NEW d \in With(Writers)', NEW e \in With({"delete_shot"})', (Of(d).on = Of(e).on)'
        PROVE  d < e
    <2>1. d \in With(Writers) /\ e \in With({"delete_shot"}) /\ Of(d).on = Of(e).on
      BY <1>1, <1>7
    <2> QED  BY <2>1 DEF LifeOK
  <1> QED  BY <1>2, <1>5, <1>6, <1>7 DEF LifeOK

LEMMA UndoKeepsContent ==
  ASSUME TypeOK, LogOK, Revocable, ContentOK, NEW c \in Standing, Takes({c}), TakesBack(c)
  PROVE  ContentOK'
  <1>1. UNCHANGED <<plan, changes>> /\ Targets' = Targets /\ c \in DOMAIN changes
    BY SamePlan, LogFacts DEF Takes, Targets
  <1>2. ASSUME NEW x \in Targets  PROVE StackOK(x)'
    <2>1. PICK A : A = At(x, Writers)
      OBVIOUS
    <2>2. PICK v : v = content[x]
      OBVIOUS
    <2>3. Written(A, v) /\ \A d \in A : Written(Below(d, A), changes[d].content)
      BY <2>1, <2>2 DEF ContentOK, StackOK
    <2>4. A \subseteq DOMAIN changes /\ (\A d \in A : d \in Nat) /\ x \in DOMAIN content
      <3>1. A \subseteq DOMAIN changes /\ \A d \in DOMAIN changes : d \in Nat
        BY <2>1, LogFacts
      <3> QED  BY <3>1 DEF LogOK
    <2>5. At(x, Writers)' = A \ {c}
      BY <2>1, Taken
    <2>6. CASE c \in A
      <3>1. Of(c).tool \in Writers /\ Of(c).on = x /\ c \in Nat
        BY <2>1, <2>4, <2>6 DEF At, With
      <3>2. v = ValueOf(changes[c].step) /\ content' = [content EXCEPT ![x] = changes[c].content]
        <4>1. UndoesPatch(c)
          BY <3>1 DEF TakesBack, Writers
        <4> QED  BY <4>1, <3>1, <2>2 DEF UndoesPatch, ValueOf, Of
      <3>3. IsLatest(c, A)
        <4>1. PICK d \in A : IsLatest(d, A)
          BY <2>4, <2>6, LatestIs
        <4>2. v = ValueOf(changes[d].step)
          BY <2>3, <4>1 DEF Written
        <4>3. Of(d).tool \in Writers /\ Of(d).on = x
          BY <2>1, <4>1 DEF At, With
        <4>4. d = c
          BY <3>1, <3>2, <4>2, <4>3, <1>1, <2>4, ChangesDiffer
        <4> QED  BY <4>1, <4>4
      <3>4. A \ {c} = Below(c, A)
        <4>1. \A d \in A : d <= c /\ d \in Nat
          BY <3>3, <2>4 DEF IsLatest
        <4> QED  BY <4>1, <3>1 DEF Below
      <3>5. PICK S : S = A \ {c}
        OBVIOUS
      <3>6. PICK w : w = changes[c].content
        OBVIOUS
      <3>7. Written(S, w)'
        <4>1. Written(S, w)
          BY <3>4, <3>5, <3>6, <2>3, <2>6
        <4> QED  BY <4>1, <1>1, WrittenKept
      <3>8. content'[x] = w
        BY <3>2, <3>6, <2>4
      <3>9. ASSUME NEW d \in S, NEW u, u = changes'[d].content  PROVE Written(Below(d, S), u)'
        <4>1. PICK T : T = Below(d, S)
          OBVIOUS
        <4>2. T = Below(d, A)
          <5>1. ~(c < d)
            BY <3>1, <3>4, <3>5, <2>4 DEF Below
          <5> QED  BY <5>1, <4>1, <3>5 DEF Below
        <4>3. Written(T, u)
          BY <4>2, <3>9, <3>5, <2>3, <1>1
        <4>4. Written(T, u)'
          BY <4>3, <1>1, WrittenKept
        <4> QED  BY <4>1, <4>4
      <3> QED  BY <3>5, <3>7, <3>8, <3>9, <2>5, StackMade
    <2>7. CASE c \notin A
      <3>1. At(x, Writers)' = A
        BY <2>5, <2>7
      <3>2. content'[x] = v
        <4>1. CASE Of(c).tool \in Writers
          <5>1. Of(c).on # x
            BY <4>1, <2>1, <2>7 DEF At, With
          <5>2. UndoesPatch(c)
            BY <4>1 DEF TakesBack, Writers
          <5> QED  BY <5>1, <5>2, <2>2, <2>4 DEF UndoesPatch
        <4>2. CASE Of(c).tool \notin Writers
          BY <4>2, <2>2 DEF TakesBack, UndoesLifecycle, UndoesOrder
        <4> QED  BY <4>1, <4>2
      <3>3. Written(A, v)'
        BY <2>3, <1>1, WrittenKept
      <3>4. ASSUME NEW d \in A, NEW u, u = changes'[d].content  PROVE Written(Below(d, A), u)'
        <4>1. PICK T : T = Below(d, A)
          OBVIOUS
        <4>2. Written(T, u)
          BY <4>1, <3>4, <2>3, <1>1
        <4>3. Written(T, u)'
          BY <4>2, <1>1, WrittenKept
        <4> QED  BY <4>1, <4>3
      <3> QED  BY <3>1, <3>2, <3>3, <3>4, StackMade
    <2> QED  BY <2>6, <2>7
  <1> QED  BY <1>1, <1>2 DEF ContentOK

LEMMA UndoKeepsNumbers ==
  ASSUME TypeOK, LogOK, Revocable, LifeOK, NumbersOK, NEW c \in Standing, Takes({c}), TakesBack(c)
  PROVE  NumbersOK'
  <1>1. SUFFICES ASSUME ~Used("reorder_shots")'
                 PROVE  /\ \A s, t \in live' : num'[s] = num'[t] => s = t
                        /\ \A s \in Range(FirstShots) \ live', t \in live' : num'[t] = num'[s] =>
                             \E e \in At(t, {"create_shot"})' : \A d \in At(s, {"delete_shot"})' : d < e
    BY DEF NumbersOK
  <1>2. /\ ~Used("reorder_shots") /\ \A x, tools : At(x, tools)' = At(x, tools) \ {c}
        /\ c \in DOMAIN changes
    BY <1>1, Taken, LogFacts
  <1>3. /\ \A s, t \in live : num[s] = num[t] => s = t
        /\ \A s \in Range(FirstShots) \ live, t \in live : num[t] = num[s] =>
             \E e \in At(t, {"create_shot"}) : \A d \in At(s, {"delete_shot"}) : d < e
    BY <1>2 DEF NumbersOK
  <1>4. Of(c).tool # "reorder_shots"
    BY <1>2 DEF Used
  <1>5. CASE Of(c).tool \in Writers
    <2>1. num' = num /\ live' = live
      BY <1>5 DEF TakesBack, UndoesPatch, Writers
    <2>2. \A x : At(x, {"create_shot"})' = At(x, {"create_shot"}) /\ At(x, {"delete_shot"})' = At(x, {"delete_shot"})
      <3>1. \A x : c \notin At(x, {"create_shot"}) /\ c \notin At(x, {"delete_shot"})
        BY <1>5 DEF At, With, Writers
      <3> QED  BY <3>1, <1>2
    <2> QED  BY <2>1, <2>2, <1>3
  <1>6. CASE Of(c).tool = "create_shot"
    <2>1. PICK x : x = Of(c).on
      OBVIOUS
    <2>2. num' = num /\ live' = live \ {x} /\ x \notin Range(FirstShots)
      BY <1>2, <1>6, <2>1, ChangesDiffer DEF TakesBack, UndoesLifecycle, Writers
    <2>3. ASSUME NEW s \in Range(FirstShots) \ live', NEW t \in live', num'[t] = num'[s]
          PROVE  \E e \in At(t, {"create_shot"})' : \A d \in At(s, {"delete_shot"})' : d < e
      <3>1. s \in Range(FirstShots) \ live /\ t \in live /\ num[t] = num[s] /\ t # x
        BY <2>2, <2>3
      <3>2. PICK e \in At(t, {"create_shot"}) : \A d \in At(s, {"delete_shot"}) : d < e
        BY <3>1, <1>3
      <3>3. e # c
        BY <2>1, <3>1 DEF At
      <3>4. e \in At(t, {"create_shot"})' /\ At(s, {"delete_shot"})' \subseteq At(s, {"delete_shot"})
        BY <3>3, <1>2
      <3> QED  BY <3>2, <3>4
    <2> QED  BY <2>2, <2>3, <1>3
  <1>7. CASE Of(c).tool = "delete_shot"
    <2>1. PICK x : x = Of(c).on
      OBVIOUS
    <2>2. num' = num /\ live' = live \cup {x} /\ \A t \in live : num[t] # num[x]
      BY <1>7, <2>1 DEF TakesBack, UndoesLifecycle, Writers
    <2>3. \A s \in Range(FirstShots) : s \in live'
      <3>1. ASSUME NEW s \in Range(FirstShots), s \notin live  PROVE s = x
        <4>1. At(s, {"delete_shot"}) # {}
          BY <3>1 DEF LifeOK
        <4>2. PICK d \in At(s, {"delete_shot"}) : TRUE
          BY <4>1
        <4>3. d \in DOMAIN changes /\ Of(d).tool = "delete_shot" /\ Of(d).on = s
          BY <4>2, LogFacts DEF At, With
        <4> QED  BY <4>3, <1>2, <1>7, <2>1, ChangesDiffer
      <3> QED  BY <3>1, <2>2
    <2> QED  BY <2>2, <2>3, <1>3
  <1> QED  BY <1>4, <1>5, <1>6, <1>7 DEF TakesBack

LEMMA UndoKeepsOrder ==
  ASSUME TypeOK, LogOK, Revocable, OrderOK, NEW c \in Standing, Takes({c}), TakesBack(c)
  PROVE  OrderOK'
  <1>1. /\ \A d : Of(d)' = Of(d) /\ UNCHANGED changes
        /\ With({"reorder_shots"})' = With({"reorder_shots"}) \ {c}
        /\ With({"create_shot"})' = With({"create_shot"}) \ {c}
        /\ c \in DOMAIN changes
    BY Taken, LogFacts DEF Takes
  <1>2. CASE Of(c).tool # "reorder_shots"
    <2>1. num' = num
      BY <1>2 DEF TakesBack, UndoesPatch, UndoesLifecycle
    <2>2. With({"reorder_shots"})' = With({"reorder_shots"})
      <3>1. c \notin With({"reorder_shots"})
        BY <1>2 DEF With
      <3> QED  BY <3>1, <1>1
    <2> QED  BY <2>1, <2>2, <1>1 DEF OrderOK, Increasing, Sorted
  <1>3. CASE Of(c).tool = "reorder_shots"
    <2>1. c \in With({"reorder_shots"}) /\ \A d \in With({"reorder_shots"}) : d = c
      <3>1. \A d \in With({"reorder_shots"}) : d \in DOMAIN changes /\ Of(d).tool = "reorder_shots"
        BY LogFacts DEF With
      <3> QED  BY <3>1, <1>1, <1>3, ChangesDiffer DEF With
    <2>2. With({"reorder_shots"})' = {}
      BY <2>1, <1>1
    <2>3. PICK shots : shots = changes[c].order
      OBVIOUS
    <2>4. Sorted(shots) /\ num' = Ordered(shots)
      BY <1>3, <2>1, <2>3 DEF OrderOK, TakesBack, UndoesOrder, Writers
    <2>5. \A k \in DOMAIN FirstShots : num'[FirstShots[k]] = Place(shots, FirstShots[k])
      <3>1. \A k \in DOMAIN FirstShots : FirstShots[k] \in Range(shots) /\ FirstShots[k] \in Shots
        BY <2>4, ScenePlaces DEF Sorted
      <3> QED  BY <3>1, <2>4 DEF Ordered
    <2>6. Increasing(FirstShots)'
      BY <2>4, <2>5 DEF Increasing, Sorted
    <2> QED  BY <2>2, <2>6 DEF OrderOK
  <1> QED  BY <1>2, <1>3

\* The newest change that stands is in conflict with nothing.
LEMMA NewestIsFree ==
  ASSUME TypeOK, LogOK, Revocable, Calm, CalmOK, NEW c \in Standing, IsLatest(c, Standing)
  PROVE  ~Conflicts(c)
  <1>1. c \in DOMAIN changes /\ c \in Nat /\ \A d \in Standing : d <= c /\ d \in Nat
    BY LogFacts DEF IsLatest
  <1>2. StoryTypes /\ LifeOK /\ ContentOK /\ NumbersOK /\ OrderOK
    BY DEF CalmOK
  <1>3. \A tools : With(tools) \subseteq Standing
    BY LogFacts
  <1>4. \A x, tools : At(x, tools) \subseteq Standing
    BY LogFacts
  <1>5. CASE Of(c).tool = "create_shot"
    <2>1. Of(c).on \in Shots \ Range(FirstShots) /\ c \in At(Of(c).on, {"create_shot"})
      BY <1>1, <1>5, ChangesDiffer DEF At, With
    <2>2. Of(c).on \in live
      BY <2>1, <1>2 DEF LifeOK
    <2> QED  BY <2>2, <1>5 DEF Conflicts
  <1>6. CASE Of(c).tool = "delete_shot"
    <2>1. PICK x : x = Of(c).on
      OBVIOUS
    <2>2. x \in Range(FirstShots) /\ c \in At(x, {"delete_shot"})
      BY <1>1, <1>6, <2>1, ChangesDiffer DEF At, With, LogOK
    <2>3. x \notin live
      BY <2>2, <1>2 DEF LifeOK
    <2>4. ~Used("reorder_shots")
      BY <1>1, <1>6 DEF Calm, Used
    <2>5. ASSUME NEW s \in live, num[s] = num[x]  PROVE FALSE
      <3>1. PICK e \in At(s, {"create_shot"}) : \A d \in At(x, {"delete_shot"}) : d < e
        BY <2>2, <2>3, <2>4, <2>5, <1>2 DEF NumbersOK
      <3>2. c < e /\ e <= c /\ e \in Nat
        BY <3>1, <2>2, <1>1, <1>4
      <3> QED  BY <3>2, <1>1
    <2> QED  BY <2>1, <2>3, <2>5, <1>6 DEF Conflicts
  <1>7. CASE Of(c).tool = "reorder_shots"
    <2>1. /\ c \in With({"reorder_shots"})
          /\ Range(Of(c).order) = Range(FirstShots) /\ Increasing(Of(c).order)
          /\ Range(changes[c].order) = Range(FirstShots)
          /\ \A e \in With({"create_shot"}) : c < e
      BY <1>2, <1>7 DEF OrderOK, With, Sorted
    <2>2. With({"create_shot"}) = {}
      <3>1. ASSUME NEW e \in With({"create_shot"})  PROVE FALSE
        <4>1. c < e /\ e <= c /\ e \in Nat
          BY <2>1, <1>1, <1>3
        <4> QED  BY <4>1, <1>1
      <3> QED  BY <3>1
    <2>3. ~Used("delete_shot")
      BY <1>1, <1>7 DEF Calm, Used
    <2>4. live = Range(FirstShots)
      BY <2>2, <2>3, <1>2, OrderedShots
    <2> QED  BY <2>1, <2>4, <1>7 DEF Conflicts, IsOrder
  <1>8. CASE Of(c).tool \in Writers
    <2>1. PICK x : x = Of(c).on
      OBVIOUS
    <2>2. c \in At(x, Writers) /\ c \in With(Writers) /\ x \in Targets
      BY <1>1, <1>8, <2>1 DEF At, With, LogOK, Writers
    <2>3. content[x] = ValueOf(changes[c].step)
      <3>1. IsLatest(c, At(x, Writers))
        BY <2>2, <1>1, <1>4 DEF IsLatest
      <3> QED  BY <3>1, <2>2, <1>2 DEF ContentOK, StackOK, Written
    <2>4. x \in Shots => x \in live
      <3>1. SUFFICES ASSUME x \in Shots, x \notin live  PROVE FALSE
        OBVIOUS
      <3>2. x \in Range(FirstShots)
        BY <3>1, <2>1, <1>1, <1>8, ChangesDiffer DEF Writers
      <3>3. At(x, {"delete_shot"}) # {}
        BY <3>1, <3>2, <1>2 DEF LifeOK
      <3>4. PICK d \in At(x, {"delete_shot"}) : TRUE
        BY <3>3
      <3>5. d \in With({"delete_shot"}) /\ Of(d).on = x /\ d \in Standing
        BY <3>4, <1>4 DEF At
      <3>6. c < d /\ d <= c /\ d \in Nat
        BY <3>5, <2>1, <2>2, <1>1, <1>2 DEF LifeOK
      <3> QED  BY <3>6, <1>1
    <2>5. Of(c).tool = "continuity_fix" => x \in Shots
      BY <1>1, <2>1 DEF LogOK
    <2>6. x \in live \cup {Scene}
      BY <2>2, <2>4 DEF Targets
    <2>7. ValueOf(changes[c].step) = IF Of(c).tool = "continuity_fix" THEN Fixed ELSE Of(c).patch
      BY DEF ValueOf, Of
    <2> QED  BY <2>1, <2>3, <2>4, <2>5, <2>6, <2>7, <1>8 DEF Conflicts, Writers
  <1> QED  BY <1>1, <1>5, <1>6, <1>7, <1>8 DEF LogOK, Recorders

----------------------------------------------------------------------------
(* Every step keeps what an undo relies on.                                *)

LEMMA PassKept ==
  ASSUME TypeOK, LogOK, Revocable, Calm, CalmOK, NEW c \in undo.left, UndoStep(c)
  PROVE  PassOK'
  <1>1. SUFFICES ASSUME undo' # NoUndo, undo'.of = Len(changes)  PROVE Standing' \subseteq undo'.left
    <2>1. changes' = changes
      BY DEF UndoStep, Takes
    <2> QED  BY <1>1, <2>1 DEF PassOK
  <1>2. undo \in [left : SUBSET DOMAIN changes, of : Nat]
    BY DEF TypeOK
  <1>3. undo'.left = undo.left \ {c} /\ undo'.of = undo.of /\ undo # NoUndo
    BY <1>1, <1>2 DEF UndoStep, NoUndo
  <1>4. Standing \subseteq undo.left
    BY <1>1, <1>3 DEF CalmOK, PassOK
  <1>5. c \in Standing /\ IsLatest(c, Standing)
    BY <1>4 DEF UndoStep, IsLatest
  <1>6. ~Conflicts(c)
    BY <1>5, NewestIsFree
  <1>7. Takes({c})
    BY <1>6 DEF UndoStep
  <1>8. Standing' = Standing \ {c}
    BY <1>7, Taken
  <1> QED  BY <1>3, <1>4, <1>8

LEMMA UndoKeepsAll ==
  ASSUME TypeOK, LogOK, Revocable, Calm => CalmOK, NEW c \in undo.left, UndoStep(c), Calm'
  PROVE  CalmOK'
  <1>1. \A tool : Used(tool)' <=> Used(tool)
    <2>1. PICK S : Takes(S)
      BY DEF UndoStep
    <2> QED  BY <2>1, Taken
  <1>2. Calm /\ CalmOK /\ c \in Standing
    BY <1>1 DEF Calm, UndoStep
  <1>3. PassOK'
    BY <1>2, PassKept
  <1>4. CASE Takes({c}) /\ TakesBack(c)
    <2>1. Of(c).tool = "reorder_shots" => Sorted(changes[c].order)
      BY <1>2 DEF CalmOK, OrderOK, With
    <2>2. StoryTypes'
      BY <1>2, <1>4, <2>1, UndoKeepsTypes DEF CalmOK
    <2>3. LifeOK'
      BY <1>2, <1>4, UndoKeepsLife DEF CalmOK
    <2>4. ContentOK'
      BY <1>2, <1>4, UndoKeepsContent DEF CalmOK
    <2>5. NumbersOK'
      BY <1>2, <1>4, UndoKeepsNumbers DEF CalmOK
    <2>6. OrderOK'
      BY <1>2, <1>4, UndoKeepsOrder DEF CalmOK
    <2> QED  BY <1>3, <2>2, <2>3, <2>4, <2>5, <2>6 DEF CalmOK
  <1>5. CASE Takes({}) /\ UNCHANGED story
    BY <1>2, <1>3, <1>5, NothingTaken DEF Takes, CalmOK
  <1> QED  BY <1>4, <1>5 DEF UndoStep

LEMMA RecordKeepsAll ==
  ASSUME TypeOK, LogOK, Revocable, Calm => CalmOK, NEW i \in Steps, Records(i), Fresh(i), Calm'
  PROVE  CalmOK'
  <1>1. Appends(i)
    BY DEF Records
  <1>2. Calm /\ CalmOK
    BY <1>1, AppendUses
  <1>3. StoryTypes /\ LifeOK /\ ContentOK /\ NumbersOK /\ OrderOK
    BY <1>2 DEF CalmOK
  <1>4. StoryTypes'
    BY <1>3, RecordKeepsTypes
  <1>5. LifeOK'
    BY <1>3, RecordKeepsLife
  <1>6. ContentOK'
    BY <1>3, RecordKeepsContent
  <1>7. NumbersOK'
    BY <1>3, RecordKeepsNumbers
  <1>8. OrderOK'
    BY <1>3, RecordKeepsOrder
  <1>9. PassOK'
    <2>1. undo' = undo /\ Len(changes') = Len(changes) + 1 /\ undo.of <= Len(changes)
      BY <1>1 DEF Appends, LogOK
    <2>2. undo.of \in Nat /\ Len(changes) \in Nat
      BY DEF TypeOK, IsSeq
    <2>3. undo'.of # Len(changes')
      BY <2>1, <2>2
    <2> QED  BY <2>3 DEF PassOK
  <1> QED  BY <1>4, <1>5, <1>6, <1>7, <1>8, <1>9 DEF CalmOK

LEMMA SameLog ==
  ASSUME LogOK, UNCHANGED <<plan, changes, undone>>, undo'.left \cap undone = {}, undo'.of <= Len(changes),
         touches' \in Nat, content' = [x \in Targets |-> content'[x]]
  PROVE  LogOK'
  <1>1. Shots' = Shots /\ Targets' = Targets /\ \A c : Of(c)' = Of(c)
    BY SamePlan DEF Targets, Of
  <1> QED  BY <1>1 DEF LogOK

LEMMA UserKeepsLog ==
  ASSUME LogOK, UserStep
  PROVE  LogOK' /\ ~Calm'
  <1>1. PICK x \in Touched : UserTouches(x)
    BY DEF UserStep
  <1>2. /\ UNCHANGED <<plan, changes, undone, undo>> /\ touches' = touches + 1
        /\ content' = content \/ content' = [content EXCEPT ![x] = "user"]
    BY <1>1 DEF UserTouches, UserStep
  <1>3. touches \in Nat /\ content = [y \in Targets |-> content[y]]
    BY DEF LogOK
  <1>4. content' = [y \in Targets |-> content'[y]]
    BY <1>2, <1>3
  <1>5. LogOK'
    BY <1>2, <1>3, <1>4, SameLog DEF LogOK
  <1>6. touches' # 0
    BY <1>2, <1>3
  <1> QED  BY <1>5, <1>6 DEF Calm

LEMMA OthersKeepAll ==
  ASSUME TypeOK, LogOK, Calm => CalmOK, LeavesStory \/ AsksUndo
  PROVE  LogOK' /\ (Calm' => CalmOK')
  <1>1. /\ UNCHANGED <<plan, changes, undone, story, touches>>
        /\ undo' \in {undo, NoUndo, [left |-> Standing, of |-> Len(changes)]}
    BY DEF LeavesStory, AsksUndo
  <1>2. Standing \cap undone = {} /\ Len(changes) \in Nat
    BY DEF Standing, TypeOK, IsSeq
  <1>3. LogOK'
    <2>1. content' = content
      BY <1>1 DEF story
    <2>2. undo'.left \cap undone = {} /\ undo'.of <= Len(changes)
      BY <1>1, <1>2 DEF LogOK, NoUndo
    <2> QED  BY <1>1, <2>1, <2>2, SameLog DEF LogOK
  <1>4. ASSUME Calm'  PROVE CalmOK'
    <2>1. Standing' = Standing /\ \A tool : Used(tool)' <=> Used(tool)
      BY <1>1, NothingTaken
    <2>2. Calm /\ CalmOK
      BY <1>1, <1>4, <2>1 DEF Calm
    <2>3. PassOK'
      BY <1>1, <2>1, <2>2 DEF CalmOK, PassOK
    <2> QED  BY <1>1, <2>2, <2>3, NothingTaken DEF CalmOK
  <1> QED  BY <1>3, <1>4

LEMMA StepKeepsUndo ==
  ASSUME BaseInv, Revocable, UndoOK, DirectorNext, \A i \in Steps : applied'[i] <= 1
  PROVE  UndoOK'
  <1>1. TypeOK /\ Recording /\ LogOK /\ (Calm => CalmOK) /\ OneGate
    BY DEF BaseInv, UndoOK, Revocable
  <1>2. CASE LeavesStory \/ AsksUndo
    BY <1>1, <1>2, OthersKeepAll DEF UndoOK
  <1>3. CASE UserStep
    BY <1>1, <1>3, UserKeepsLog DEF UndoOK
  <1>4. ASSUME NEW i \in Steps, Records(i)  PROVE UndoOK'
    <2>1. Fresh(i)
      <3>1. applied[i] \in Nat /\ applied'[i] = applied[i] + 1 /\ applied'[i] <= 1
        BY <1>1, <1>4 DEF TypeOK, Records, Appends
      <3>2. ~(applied[i] > 0)
        BY <3>1
      <3> QED  BY <3>2, <1>1 DEF Recording, Fresh
    <2>2. LogOK'
      BY <1>1, <1>4, <2>1, RecordKeepsLog
    <2>3. Calm' => CalmOK'
      BY <1>1, <1>4, <2>1, RecordKeepsAll
    <2> QED  BY <2>2, <2>3 DEF UndoOK
  <1>5. CASE UndoesNow
    <2>1. PICK c \in undo.left : UndoStep(c)
      BY <1>1, <1>5, UndoTakes
    <2>2. LogOK'
      BY <1>1, <2>1, UndoKeepsLog
    <2>3. Calm' => CalmOK'
      BY <1>1, <2>1, UndoKeepsAll
    <2> QED  BY <2>2, <2>3 DEF UndoOK
  <1> QED  BY <1>1, <1>2, <1>3, <1>4, <1>5, UndoCases

LEMMA NothingToUndo ==
  ASSUME DirectorInit
  PROVE  UndoOK
  <1>1. changes = <<>> /\ undone = {} /\ undo = NoUndo /\ touches = 0 /\ live = Range(FirstShots) /\ plan \in Plans
    BY DEF DirectorInit
  <1>2. DOMAIN changes = {} /\ Len(changes) = 0
    BY <1>1
  <1>3. Standing = {} /\ (\A tools : With(tools) = {}) /\ \A x, tools : At(x, tools) = {}
    BY <1>2 DEF Standing, With, At
  <1>4. /\ content = [x \in Targets |-> "old"]
        /\ num = [s \in Shots |-> IF s \in Range(FirstShots) THEN Place(FirstShots, s) ELSE 0]
    BY DEF DirectorInit, Targets
  <1>5. LogOK
    BY <1>1, <1>2, <1>4 DEF LogOK, NoUndo
  <1>6. \A s \in Range(FirstShots) : Place(FirstShots, s) \in Nat \ {0}
    BY PlaceIn, ScenePlaces
  <1>7. \A k \in DOMAIN FirstShots : Place(FirstShots, FirstShots[k]) = k /\ num[FirstShots[k]] = k
    <2>1. \A k \in DOMAIN FirstShots : Place(FirstShots, FirstShots[k]) = k
      BY PlaceIn, ScenePlaces
    <2> QED  BY <2>1, <1>4, ScenePlaces
  <1>8. StoryTypes
    BY <1>1, <1>4, <1>6, ScenePlaces DEF StoryTypes
  <1>9. LifeOK
    BY <1>1, <1>3 DEF LifeOK
  <1>10. ContentOK
    <2>1. ASSUME NEW x \in Targets  PROVE StackOK(x)
      BY <1>3, <1>4 DEF StackOK, Written
    <2> QED  BY <2>1 DEF ContentOK
  <1>11. NumbersOK
    <2>1. \A s \in live : \E k \in DOMAIN FirstShots : FirstShots[k] = s /\ num[s] = k
      BY <1>1, <1>7, ScenePlaces
    <2>2. \A s, t \in live : num[s] = num[t] => s = t
      BY <2>1
    <2>3. Range(FirstShots) \ live = {}
      BY <1>1
    <2> QED  BY <2>2, <2>3 DEF NumbersOK
  <1>12. OrderOK
    <2>1. Increasing(FirstShots)
      BY <1>7 DEF Increasing
    <2> QED  BY <2>1, <1>3 DEF OrderOK
  <1>13. PassOK
    BY <1>1 DEF PassOK
  <1> QED  BY <1>5, <1>8, <1>9, <1>10, <1>11, <1>12, <1>13 DEF UndoOK, CalmOK

----------------------------------------------------------------------------

LEMMA RevocableKept ==
  ASSUME UNCHANGED plan
  PROVE  Revocable' <=> Revocable
  BY SamePlan DEF Revocable, Undoable, ValueOf, Steps, OneGate, NoRework, IsGate

UndoInv == Revocable => UndoOK

LEMMA UndoInvKept ==
  ASSUME UndoInv, DirectorInv, DirectorInv', [DirectorNext]_directorVars
  PROVE  UndoInv'
  <1>1. CASE DirectorNext
    <2>1. UNCHANGED plan
      BY <1>1 DEF DirectorNext
    <2>2. ASSUME Revocable'  PROVE UndoOK'
      <3>1. Revocable /\ Revocable' /\ Steps' = Steps
        BY <2>1, <2>2, RevocableKept, SamePlan
      <3>2. OneGate' /\ NoRework'
        BY <3>1 DEF Revocable
      <3>3. EditsOnce' /\ GatesOK'
        BY <3>2 DEF DirectorInv, BaseInv
      <3>4. \A i \in Steps : applied'[i] <= 1
        BY <3>1, <3>3 DEF EditsOnce, GatesOK
      <3> QED  BY <1>1, <3>1, <3>4, StepKeepsUndo DEF UndoInv, DirectorInv
    <2> QED  BY <2>2 DEF UndoInv
  <1>2. CASE UNCHANGED directorVars
    <2>1. UNCHANGED plan /\ LeavesStory
      BY <1>2 DEF directorVars, LeavesStory, world, user
    <2>2. ASSUME Revocable'  PROVE UndoOK'
      <3>1. Revocable
        BY <2>1, <2>2, RevocableKept
      <3> QED  BY <2>1, <3>1, OthersKeepAll DEF UndoInv, UndoOK, DirectorInv, BaseInv
    <2> QED  BY <2>2 DEF UndoInv
  <1> QED  BY <1>1, <1>2

(* While nobody else touches the story, the change sets that stand tell    *)
(* what the run has made of it: which shots are there, what each field     *)
(* was before, and which number a deleted shot had.                        *)
THEOREM UndoInvariant == DirectorSpec => [](Revocable => UndoOK)
  <1>1. DirectorInit => UndoInv
    BY NothingToUndo DEF UndoInv
  <1>2. UndoInv /\ DirectorInv /\ DirectorInv' /\ [DirectorNext]_directorVars => UndoInv'
    BY UndoInvKept
  <1>3. DirectorSpec => []UndoInv
    BY <1>1, <1>2, DirectorInvariant, PTL DEF DirectorSpec
  <1>4. UndoInv <=> (Revocable => UndoOK)
    BY DEF UndoInv
  <1> QED  BY <1>3, <1>4, PTL

\* The last step of an undo, and what it restores.
Restored == (\A x \in live \cup {Scene} : content[x] = "old") /\ IsOrder(FirstShots)
LastUndo ==
  /\ UndoesOne /\ undo' = NoUndo /\ undo.of = Len(changes) /\ touches = 0
  /\ ~({"delete_shot", "reorder_shots"} \subseteq {Of(c).tool : c \in DOMAIN changes})

LEMMA NothingStandsAfter ==
  ASSUME TypeOK, LogOK, Revocable, Calm, CalmOK, NEW c \in undo.left, UndoStep(c),
         undo.of = Len(changes), undo' = NoUndo
  PROVE  Standing' = {}
  <1>1. undo # NoUndo
    BY DEF NoUndo
  <1>2. Standing \subseteq undo.left
    BY <1>1 DEF CalmOK, PassOK
  <1>3. undo.left \subseteq {c}
    <2>1. CASE undo.left # {c}
      <3>1. undo' = [undo EXCEPT !.left = @ \ {c}] /\ undo \in [left : SUBSET DOMAIN changes, of : Nat]
        BY <2>1 DEF UndoStep, TypeOK
      <3>2. undo'.left = undo.left \ {c} /\ undo'.left = {}
        BY <3>1 DEF NoUndo
      <3> QED  BY <3>2
    <2> QED  BY <2>1
  <1>4. c \in Standing /\ IsLatest(c, Standing)
    BY <1>2 DEF UndoStep, IsLatest
  <1>5. ~Conflicts(c)
    BY <1>4, NewestIsFree
  <1>6. Takes({c})
    BY <1>5 DEF UndoStep
  <1>7. Standing' = Standing \ {c}
    BY <1>6, Taken
  <1> QED  BY <1>2, <1>3, <1>7

Cleared == TypeOK /\ CalmOK /\ Standing = {}

LEMMA NothingStands ==
  ASSUME Cleared
  PROVE  Restored
  <1>0. TypeOK /\ CalmOK /\ Standing = {}
    BY DEF Cleared
  <1>1. (\A tools : With(tools) = {}) /\ \A x, tools : At(x, tools) = {}
    BY <1>0 DEF With, At
  <1>2. live = Range(FirstShots)
    <2>1. /\ \A s \in Range(FirstShots) : s \in live
          /\ \A s \in Shots \ Range(FirstShots) : s \notin live
      BY <1>0, <1>1 DEF CalmOK, LifeOK
    <2> QED  BY <1>0, <2>1, ScenePlaces DEF TypeOK
  <1>3. \A x \in Targets : content[x] = "old"
    BY <1>0, <1>1 DEF CalmOK, ContentOK, StackOK, Written
  <1>4. Increasing(FirstShots)
    BY <1>0, <1>1 DEF CalmOK, OrderOK
  <1> QED  BY <1>2, <1>3, <1>4, ScenePlaces DEF Restored, IsOrder, Targets

LEMMA LastUndoRestores ==
  ASSUME DirectorInv, DirectorInv', UndoInv, UndoInv', Revocable, [DirectorNext]_directorVars, LastUndo
  PROVE  Cleared'
  <1>1. BaseInv /\ TypeOK /\ LogOK /\ (Calm => CalmOK) /\ TypeOK'
    BY DEF DirectorInv, BaseInv, UndoInv, UndoOK
  <1>2. UndoesNow
    <2>1. UNCHANGED plan
      BY DEF DirectorNext, directorVars
    <2> QED  BY <2>1 DEF UndoesNow, LastUndo
  <1>3. PICK c \in undo.left : UndoStep(c)
    BY <1>1, <1>2, UndoTakes
  <1>4. Calm
    BY DEF LastUndo, Calm, Used
  <1>5. Standing' = {}
    BY <1>1, <1>3, <1>4, NothingStandsAfter DEF LastUndo
  <1>6. Calm'
    <2>1. PICK S : Takes(S)
      BY <1>3 DEF UndoStep
    <2>2. \A tool : Used(tool)' <=> Used(tool)
      BY <2>1, Taken
    <2>3. touches' = touches
      BY <1>3 DEF UndoStep
    <2> QED  BY <1>4, <2>2, <2>3 DEF Calm
  <1>7. LogOK' /\ CalmOK'
    <2>1. Revocable'
      BY <1>2, RevocableKept DEF UndoesNow
    <2> QED  BY <2>1, <1>6 DEF UndoInv, UndoOK
  <1> QED  BY <1>1, <1>5, <1>7 DEF Cleared

(* Undoing a run takes back all of it, whichever tools it used and however *)
(* often it was resumed, or was undone before: for every plan with one     *)
(* gate whose edits differ and that reorders once, if nobody else has      *)
(* touched the story and nothing was applied since the undo began.         *)
THEOREM UndoRestores == DirectorSpec /\ Revocable => UndoRestoresAll
  <1>1. DirectorInv /\ DirectorInv' /\ UndoInv /\ UndoInv' /\ Revocable /\ [DirectorNext]_directorVars =>
          (LastUndo => Cleared')
    BY LastUndoRestores
  <1>2. Revocable /\ [DirectorNext]_directorVars => Revocable'
    <2>1. [DirectorNext]_directorVars => UNCHANGED plan
      BY DEF DirectorNext, directorVars
    <2> QED  BY <2>1, RevocableKept
  <1>3. DirectorSpec => []UndoInv
    <2>1. UndoInv <=> (Revocable => UndoOK)
      BY DEF UndoInv
    <2> QED  BY <2>1, UndoInvariant, PTL
  <1>4. Cleared => Restored
    BY NothingStands
  <1>5. [LastUndo => Restored']_directorVars =>
          [/\ UndoesOne /\ undo' = NoUndo
           /\ undo.of = Len(changes) /\ touches = 0
           /\ ~({"delete_shot", "reorder_shots"} \subseteq {Of(c).tool : c \in DOMAIN changes})
           => /\ \A x \in live' \cup {Scene} : content'[x] = "old"
              /\ IsOrder(FirstShots)']_directorVars
    BY DEF LastUndo, Restored
  <1> QED  BY <1>1, <1>2, <1>3, <1>4, <1>5, DirectorInvariant, PTL DEF DirectorSpec, UndoRestoresAll

=============================================================================
