----------------------------- MODULE JobScheduler -----------------------------
(***************************************************************************)
(* Batch jobs: a job with one task per shot, a relation of dependencies    *)
(* between the tasks, the scheduler pass that creates generations for the  *)
(* tasks that are ready and reflects the ends of those generations on the  *)
(* tasks, and the endpoints that pause, resume, cancel and retry the job.  *)
(*                                                                         *)
(* advance_job runs on the event loop and does not await: nothing else on  *)
(* the loop (the generation worker, the cancel endpoint) runs during a     *)
(* pass.  Pause, resume and retry are plain functions served by threads:   *)
(* they load the job and its tasks, and commit what they changed, at any   *)
(* moment of a pass.  Every session keeps the rows it has loaded and       *)
(* writes back the columns it changed (autoflush and expire_on_commit are  *)
(* off), so a commit may overwrite what another session wrote since.       *)
(*                                                                         *)
(* What the generation queue does with a row is abstracted to the contract *)
(* GenerationQueue implements, with the statuses the scheduler can see.    *)
(***************************************************************************)
EXTENDS Integers, FiniteSets

CONSTANTS
  NumTasks,    \* tasks are 1..NumTasks, in the order of a pass
  Deps,        \* Deps[t]: the tasks t depends on
  NumGen,      \* bound: generations ever created for the shots of the job
  Threads,     \* threads that serve pause, resume and retry
  MaxCalls,    \* bound: calls of pause, resume and retry
  MaxAborts    \* bound: passes that die, of an exception or with the process

Tasks == 1..NumTasks
Gens  == 1..NumGen
NoGen == 0

TaskTerminal == {"completed", "failed", "skipped", "dependency_failed", "cancelled"}
TaskBlocked  == TaskTerminal \ {"completed"}
TaskStatus   == {"queued", "running"} \cup TaskTerminal
JobStatus    == {"created", "queued", "running", "paused", "completed", "failed", "cancelled"}
InFlight     == {"queued", "running", "cancelling"}
GenStatus    == {"absent"} \cup InFlight \cup {"completed", "failed", "cancelled"}

\* validate_dependencies: tasks depend on tasks of the job, and none on itself through
\* others (in every set of tasks one depends on nothing in the set).
ValidDependencies(deps) ==
  /\ deps \in [Tasks -> SUBSET Tasks]
  /\ \A S \in SUBSET Tasks \ {{}} : \E t \in S : deps[t] \cap S = {}

ASSUME JobAssumption ==
  /\ NumTasks \in Nat \ {0}
  /\ NumGen \in Nat
  /\ ValidDependencies(Deps)
  /\ MaxCalls \in Nat
  /\ MaxAborts \in Nat

JobAllowed ==
       {<<"created", "queued">>}
  \cup ({"queued"} \X {"running", "paused", "cancelled"})
  \cup ({"running"} \X {"paused", "cancelled", "completed", "failed"})
  \cup ({"paused"} \X {"queued", "cancelled"})
  \cup ({"completed", "failed"} \X {"queued"})

TaskAllowed ==
       ({"queued"} \X {"running", "completed", "failed", "cancelled", "dependency_failed",
                       "skipped"})
  \cup ({"running"} \X {"completed", "failed", "cancelled"})
  \cup (TaskTerminal \X {"queued"})

VARIABLES
  db,       \* the columns status of the job, status and generation_id of its tasks
  gens,     \* generations.status, for the rows of the shots of this job
  shot,     \* the task whose shot the row belongs to
  made,     \* rows created so far
  hint,     \* the in-memory cancel hints of the worker
  pass,     \* the scheduler pass: its session and the next task
  call,     \* the operation each thread is serving, and its session
  calls, aborts, \* counters of bounded events
  met       \* history: a retry of the job has met another request for it

queue == <<gens, shot, made, hint>>
vars  == <<db, queue, pass, call, calls, aborts, met>>

\* The rows of a job as a session sees them.
Columns == [job : JobStatus, task : [Tasks -> TaskStatus], link : [Tasks -> Gens \cup {NoGen}]]

\* pc: what the pass does next; seen: the rows as the session holds them; base: the
\* values the database had when the session last read or wrote them.
Pass(pc, seen, base, next) == [pc |-> pc, seen |-> seen, base |-> base, next |-> next]
Call(op, pc, seen, base)   == [op |-> op, pc |-> pc, seen |-> seen, base |-> base]

\* create_scene_job: a queued job with a queued task per live shot.
NewJob ==
  [job |-> "queued", task |-> [t \in Tasks |-> "queued"], link |-> [t \in Tasks |-> NoGen]]

NoPass == Pass("idle", NewJob, NewJob, 1)
NoCall == Call("none", "idle", NewJob, NewJob)

Init ==
  /\ db = NewJob
  /\ gens = [g \in Gens |-> "absent"]
  /\ shot = [g \in Gens |-> 1]
  /\ made = 0
  /\ hint = {}
  /\ pass = NoPass
  /\ call = [h \in Threads |-> NoCall]
  /\ calls = 0
  /\ aborts = 0
  /\ met = FALSE

\* A mutated form: every column of a loaded row is written.
FlushMutant(old, seen, base) == seen

\* UPDATE of the columns a session has changed.
Flush(old, seen, base) ==
  [job  |-> IF seen.job # base.job THEN seen.job ELSE old.job,
   task |-> [t \in Tasks |-> IF seen.task[t] # base.task[t] THEN seen.task[t] ELSE old.task[t]],
   link |-> [t \in Tasks |-> IF seen.link[t] # base.link[t] THEN seen.link[t] ELSE old.link[t]]]

-----------------------------------------------------------------------------
(* The scheduler pass.                                                     *)

\* session.get(Job): only queued and running jobs advance, as "running".
PassLoadsJob ==
  /\ pass.pc = "idle"
  /\ db.job \in {"queued", "running"}
  /\ pass' = Pass("loading", [db EXCEPT !.job = "running"], db, 1)
  /\ UNCHANGED <<db, queue, call, calls, aborts, met>>

\* The tasks, in another SELECT.
PassLoadsTasks ==
  /\ pass.pc = "loading"
  /\ pass' = Pass("tasks", [db EXCEPT !.job = pass.seen.job],
                           [db EXCEPT !.job = pass.base.job], 1)
  /\ UNCHANGED <<db, queue, call, calls, aborts, met>>

\* What a pass makes of a task, from what its session has seen of the others.
Ended(seen, t)   == seen.task[t] \in TaskTerminal
Blocked(seen, t) == \E d \in Deps[t] : seen.task[d] \in TaskBlocked
Waiting(seen, t) == \E d \in Deps[t] : seen.task[d] # "completed"

\* The status a task takes from its generation; queued, retrying and cancelling
\* rows leave it as it is.
Reflected(st, gst) ==
  CASE gst \in {"completed", "failed", "cancelled", "running"} -> gst
    [] OTHER -> st

InFlightFor(t) == {g \in Gens : shot[g] = t /\ gens[g] \in InFlight}

Advance(seen, base) == pass' = Pass("tasks", seen, base, pass.next + 1)

\* A task that needs no new row: it has ended, is blocked or waits for a
\* dependency, or reflects the status of its row.
PassReflects ==
  LET t == pass.next
      seen == pass.seen
      now == IF Ended(seen, t) THEN seen.task[t]
             ELSE IF Blocked(seen, t) THEN "dependency_failed"
             ELSE IF Waiting(seen, t) \/ seen.link[t] = NoGen THEN seen.task[t]
             ELSE Reflected(seen.task[t], gens[seen.link[t]]) IN
  /\ pass.pc = "tasks"
  /\ t \in Tasks
  /\ Ended(seen, t) \/ Waiting(seen, t) \/ seen.link[t] # NoGen
  /\ Advance([seen EXCEPT !.task[t] = now], pass.base)
  /\ UNCHANGED <<db, queue, call, calls, aborts, met>>

\* The idempotency guard of create_generation.
IsFree(t) == InFlightFor(t) = {}

\* The next task is ready and has no row.
NeedsRow(t) ==
  /\ pass.pc = "tasks"
  /\ t \in Tasks
  /\ ~Ended(pass.seen, t)
  /\ ~Waiting(pass.seen, t)
  /\ pass.seen.link[t] = NoGen

\* create_generation succeeds.  It shares the session of the pass, so its commit
\* writes everything the pass has changed so far; the link to the new row is
\* changed after it, and waits for the next commit.
PassCreates ==
  LET t == pass.next
      g == made + 1 IN
  /\ NeedsRow(t)
  /\ IsFree(t)
  /\ g \in Gens
  /\ gens' = [gens EXCEPT ![g] = "queued"]
  /\ shot' = [shot EXCEPT ![g] = t]
  /\ made' = g
  /\ db' = Flush(db, pass.seen, pass.base)
  /\ Advance([pass.seen EXCEPT !.link[t] = g], pass.seen)
  /\ UNCHANGED <<hint, call, calls, aborts, met>>

\* A mutated form: the refused task is tried again for ever.
PassIsRefusedMutant ==
  /\ NeedsRow(pass.next)
  /\ Advance(pass.seen, pass.base)
  /\ UNCHANGED <<db, queue, call, calls, aborts, met>>

\* create_generation refuses: the shot has a row in flight (409), or lacks a
\* prompt or a workflow.  The task fails, the pass goes on.
PassIsRefused ==
  /\ NeedsRow(pass.next)
  /\ Advance([pass.seen EXCEPT !.task[pass.next] = "failed"], pass.base)
  /\ UNCHANGED <<db, queue, call, calls, aborts, met>>

\* A mutated form: a job without queued tasks is done.
AllEndedMutant(seen) == \A t \in Tasks : seen.task[t] # "queued"

AllEnded(seen) == \A t \in Tasks : Ended(seen, t)

\* The last commit: the job is completed when all its tasks have ended.
PassEnds ==
  LET seen == [pass.seen EXCEPT !.job =
                 IF AllEnded(pass.seen) THEN "completed" ELSE @] IN
  /\ pass.pc = "tasks"
  /\ pass.next \notin Tasks
  /\ db' = Flush(db, seen, pass.base)
  /\ pass' = NoPass
  /\ UNCHANGED <<queue, call, calls, aborts, met>>

\* A statement raises (the database is locked) or create_generation raises what
\* is not a StudioError: the session is closed, scheduler_loop logs and polls on.
PassAborts ==
  /\ pass.pc # "idle"
  /\ aborts < MaxAborts
  /\ aborts' = aborts + 1
  /\ pass' = NoPass
  /\ UNCHANGED <<db, queue, call, calls, met>>

-----------------------------------------------------------------------------
(* The endpoints.                                                          *)

\* The statuses in which an operation does not answer 409.
Accepts(op) ==
  CASE op = "pause"  -> {"queued", "running"}
    [] op = "resume" -> {"paused"}
    [] op = "retry"  -> {"completed", "failed"}

\* A task that retry_job puts back: not a success.
Reopened(seen) == {t \in Tasks : seen.task[t] \in TaskBlocked}

\* A mutated form: retry clears the rows of all tasks.
RelinkedMutant(seen) == [t \in Tasks |-> NoGen]

Relinked(seen) == [t \in Tasks |-> IF t \in Reopened(seen) THEN NoGen ELSE seen.link[t]]

Outcome(op, seen) ==
  CASE op = "pause"  -> [seen EXCEPT !.job = "paused"]
    [] op = "resume" -> [seen EXCEPT !.job = "queued"]
    [] op = "retry"  ->
         [job  |-> "queued",
          task |-> [t \in Tasks |-> IF t \in Reopened(seen) THEN "queued" ELSE seen.task[t]],
          link |-> Relinked(seen)]

\* pause_job, resume_job, retry_job: load the job, check the transition.
CallLoadsJob(h, op) ==
  /\ call[h].pc = "idle"
  /\ db.job \in Accepts(op)
  /\ calls < MaxCalls
  /\ calls' = calls + 1
  /\ call' = [call EXCEPT ![h] = Call(op, IF op = "retry" THEN "tasks" ELSE "commit",
                                     Outcome(op, db), db)]
  /\ met' = (met \/ \E k \in Threads \ {h} :
                      call[k].pc # "idle" /\ (op = "retry" \/ call[k].op = "retry"))
  /\ UNCHANGED <<db, queue, pass, aborts>>

\* retry_job: load the tasks, in another SELECT.
CallLoadsTasks(h) ==
  LET base == [db EXCEPT !.job = call[h].base.job] IN
  /\ call[h].pc = "tasks"
  /\ call' = [call EXCEPT ![h] = Call("retry", "commit", Outcome("retry", base), base)]
  /\ UNCHANGED <<db, queue, pass, calls, aborts, met>>

CallCommits(h) ==
  /\ call[h].pc = "commit"
  /\ db' = Flush(db, call[h].seen, call[h].base)
  /\ call' = [call EXCEPT ![h] = NoCall]
  /\ UNCHANGED <<queue, pass, calls, aborts, met>>

\* cancel_job and its endpoint, on the event loop: the open tasks end, and the
\* worker gets a hint for each of their rows.
CancelJob ==
  LET open == {t \in Tasks : db.task[t] \notin TaskTerminal} IN
  /\ pass.pc = "idle"
  /\ db.job \in {"queued", "running", "paused"}
  /\ db' = [db EXCEPT !.job = "cancelled",
                      !.task = [t \in Tasks |-> IF t \in open THEN "cancelled" ELSE @[t]]]
  /\ hint' = hint \cup ({db.link[t] : t \in open} \ {NoGen})
  /\ UNCHANGED <<gens, shot, made, pass, call, calls, aborts, met>>

-----------------------------------------------------------------------------
(* The generation queue, between passes.                                   *)

Moves(g, from, to) ==
  /\ pass.pc = "idle"
  /\ gens[g] \in from
  /\ gens' = [gens EXCEPT ![g] = to]
  /\ UNCHANGED <<db, shot, made, pass, call, calls, aborts, met>>

\* The worker claims a row; a retry or a recovered lease puts it back to wait.
Claimed(g)  == Moves(g, {"queued"}, "running") /\ UNCHANGED hint
Requeued(g) == Moves(g, {"running"}, "queued") /\ UNCHANGED hint

\* Output is registered only for a row without a cancel hint.
Delivered(g) == g \notin hint /\ Moves(g, {"running"}, "completed") /\ UNCHANGED hint

\* A failure, or an interrupted row.
Failed(g) == Moves(g, {"running"}, "failed") /\ UNCHANGED hint

\* A hinted or cancelling row whose provider answers.
Stopped(g) ==
  /\ g \in hint \/ gens[g] = "cancelling"
  /\ Moves(g, {"running", "cancelling"}, "cancelled")
  /\ hint' = hint \ {g}

\* The cancel endpoint of the row itself.
UserStops(g) ==
  /\ \/ Moves(g, {"queued"}, "cancelled")
     \/ Moves(g, {"running"}, "cancelling")
  /\ hint' = hint \cup {g}

\* A generation created for the shot outside the job.  Its thread has counted the
\* rows in flight some time before it inserts (GenerationQueue): the count may
\* be out of date, also with respect to a row that a pass has created since.
UserGenerates(t) ==
  /\ made + 1 \in Gens
  /\ gens' = [gens EXCEPT ![made + 1] = "queued"]
  /\ shot' = [shot EXCEPT ![made + 1] = t]
  /\ made' = made + 1
  /\ UNCHANGED <<db, hint, pass, call, calls, aborts, met>>

\* The process dies and is started again: sessions, requests and hints are gone.
Restart ==
  /\ aborts < MaxAborts
  /\ aborts' = aborts + 1
  /\ pass' = NoPass
  /\ call' = [h \in Threads |-> NoCall]
  /\ hint' = {}
  /\ UNCHANGED <<db, gens, shot, made, calls, met>>

-----------------------------------------------------------------------------

PassSteps ==
  \/ PassLoadsJob
  \/ PassLoadsTasks
  \/ PassReflects
  \/ PassCreates
  \/ PassIsRefused
  \/ PassEnds

RowEnds(g) == Delivered(g) \/ Failed(g) \/ Stopped(g)

Next ==
  \/ PassSteps
  \/ PassAborts
  \/ \E h \in Threads : (\E op \in {"pause", "resume", "retry"} : CallLoadsJob(h, op)) \/ CallLoadsTasks(h) \/ CallCommits(h)
  \/ CancelJob
  \/ \E g \in Gens : Claimed(g) \/ Requeued(g) \/ RowEnds(g) \/ UserStops(g)
  \/ \E t \in Tasks : UserGenerates(t)
  \/ Restart

Spec == Init /\ [][Next]_vars

(***************************************************************************)
(* Fairness: scheduler_loop keeps polling, requests commit, and the queue  *)
(* claims the rows and ends them (GenerationQueue, EveryRowFinishes: a row *)
(* that is requeued again and again is ended at last by its budget).       *)
(***************************************************************************)
Fairness ==
  /\ WF_vars(PassSteps)
  /\ \A h \in Threads : WF_vars(CallLoadsTasks(h) \/ CallCommits(h))
  /\ \A g \in Gens : SF_vars(Claimed(g)) /\ SF_vars(RowEnds(g))

FairSpec == Spec /\ Fairness

-----------------------------------------------------------------------------
(* Properties *)

TypeOK ==
  /\ db \in Columns
  /\ gens \in [Gens -> GenStatus]
  /\ shot \in [Gens -> Tasks]
  /\ made \in 0..NumGen
  /\ hint \subseteq Gens
  /\ pass \in [pc : {"idle", "loading", "tasks"}, seen : Columns, base : Columns,
               next : 1..(NumTasks + 1)]
  /\ call \in [Threads -> [op : {"none", "pause", "resume", "retry"},
                           pc : {"idle", "tasks", "commit"}, seen : Columns, base : Columns]]
  /\ calls \in 0..MaxCalls
  /\ aborts \in 0..MaxAborts

\* SAFETY.  A task is completed by the output of its own shot, never by that of
\* another row or by a row that ended otherwise; unless a retry has met another request
\* for the job, whose session then writes back what it loaded before.
CompletedByItsRow ==
  ~met => \A t \in Tasks : db.task[t] = "completed" =>
    /\ db.link[t] # NoGen
    /\ gens[db.link[t]] = "completed"
    /\ shot[db.link[t]] = t

\* SAFETY.  A job that has ended leaves no task open, which nothing would drive, unless a
\* retry has met another request for the job.
EndedJobHasNoOpenTask ==
  ~met /\ db.job \in {"completed", "cancelled"} => \A t \in Tasks : db.task[t] \in TaskTerminal

\* ACTION.  Completed tasks stay completed, also through a retry of the job, as long as
\* it has not met another request for the job.
CompletedTasksStay ==
  [][~met' => \A t \in Tasks : db.task[t] = "completed" => db'.task[t] = "completed"]_vars

\* LIVENESS.  A job that is queued or running is completed, unless it is paused
\* or cancelled; a failed or blocked task does not hold it up.
JobSettles == db.job \in {"queued", "running"} ~> db.job \in {"completed", "paused", "cancelled"}
=============================================================================
