---------------------- MODULE SchedulerAndTreeProofs -----------------------
(***************************************************************************)
(* Proofs about JobScheduler and about StoryTree, for any tasks, rows of   *)
(* the tree, request threads and bounds.                                   *)
(*                                                                         *)
(* JobScheduler: a session writes back what it has changed since it        *)
(* loaded; what makes this harmless is that nobody but the pass, a retry   *)
(* and a cancel touches tasks, and that these do not overlap.              *)
(*                                                                         *)
(* StoryTree: while requests do not overlap, every deleted row was removed *)
(* by a call on itself or together with the row above it, no two calls     *)
(* removed rows at the same time, and rows that are live or were removed   *)
(* together do not share a number; this is what makes a restore find       *)
(* exactly the rows of its delete and never run into the unique index.     *)
(***************************************************************************)
EXTENDS JobScheduler, StoryTree, FiniteSetTheorems, WellFoundedInduction, TLAPS

USE JobAssumption

\* The rows a session names are rows of the shot of the task.
LinksOK(x) ==
  \A t \in Tasks : x.link[t] # NoGen => x.link[t] <= made /\ shot[x.link[t]] = t

\* A completed task has its output.
OutputsOK(x) ==
  \A t \in Tasks : x.task[t] = "completed" => x.link[t] # NoGen /\ gens[x.link[t]] = "completed"

RowsOK == \A g \in Gens : (gens[g] = "absent") = (g > made)

Active(h) == call[h].pc # "idle"
Retrying(h) == Active(h) /\ call[h].op = "retry"

SameTasks(x, y) == x.task = y.task /\ x.link = y.link

\* A retry is alone, with a job that has ended: nothing changes under it.
RetryOK(h) ==
  Retrying(h) =>
    /\ \A k \in Threads : Active(k) => k = h
    /\ pass.pc = "idle" /\ db.job \in {"completed", "failed"}
    /\ call[h].base.job = db.job
    /\ call[h].pc = "commit" => call[h].base = db /\ call[h].seen = Outcome("retry", db)

\* A pause or a resume changes the status of the job only.
CallOK(h) ==
  /\ call[h].pc = "tasks" => call[h].op = "retry"
  /\ Active(h) => call[h].op # "none"
  /\ Active(h) /\ ~Retrying(h) =>
       SameTasks(call[h].seen, call[h].base) /\ call[h].seen.job \in {"paused", "queued"}

CallsOK == \A h \in Threads : CallOK(h) /\ RetryOK(h)

\* A pass holds the tasks as they are, but for what it has changed itself; it
\* changes no task that has ended.
PassOK ==
  /\ pass.pc # "idle" =>
       db.job \in {"queued", "running", "paused"} /\ pass.seen.job = "running"
  /\ pass.pc = "tasks" =>
       /\ SameTasks(pass.base, db)
       /\ LinksOK(pass.seen) /\ OutputsOK(pass.seen)
       /\ \A t \in Tasks : Ended(pass.base, t) => pass.seen.task[t] = pass.base.task[t]

SafeOK == ~met => CallsOK /\ PassOK /\ OutputsOK(db) /\ EndedJobHasNoOpenTask

SessionsLink ==
  /\ LinksOK(db) /\ LinksOK(pass.seen)
  /\ \A h \in Threads : LinksOK(call[h].seen)

JobInv == TypeOK /\ met \in BOOLEAN /\ RowsOK /\ SessionsLink /\ SafeOK

-----------------------------------------------------------------------------
(* Rows in a session.                                                      *)

LEMMA ColumnFacts ==
  ASSUME NEW x \in Columns
  PROVE  /\ x.job \in JobStatus /\ x.task \in [Tasks -> TaskStatus] /\ x.link \in [Tasks -> Gens \cup {NoGen}]
         /\ \A j \in JobStatus : [x EXCEPT !.job = j] \in Columns
         /\ \A j : [x EXCEPT !.job = j].job = j /\ SameTasks([x EXCEPT !.job = j], x)
  BY DEF Columns, SameTasks

LEMMA FlushFacts ==
  ASSUME NEW old \in Columns, NEW seen \in Columns, NEW base \in Columns
  PROVE  /\ Flush(old, seen, base) \in Columns
         /\ Flush(old, seen, base).job = IF seen.job # base.job THEN seen.job ELSE old.job
         /\ \A t \in Tasks : Flush(old, seen, base).link[t] \in {old.link[t], seen.link[t]}
         /\ SameTasks(base, old) => SameTasks(Flush(old, seen, base), seen)
         /\ SameTasks(seen, base) => SameTasks(Flush(old, seen, base), old)
  <1> PICK f : f = Flush(old, seen, base)
    OBVIOUS
  <1>1. /\ f.job = (IF seen.job # base.job THEN seen.job ELSE old.job)
        /\ f.task = [t \in Tasks |-> IF seen.task[t] # base.task[t] THEN seen.task[t] ELSE old.task[t]]
        /\ f.link = [t \in Tasks |-> IF seen.link[t] # base.link[t] THEN seen.link[t] ELSE old.link[t]]
        /\ f = [job |-> f.job, task |-> f.task, link |-> f.link]
    BY DEF Flush
  <1>2. f \in Columns
    BY <1>1 DEF Columns
  <1>3. SameTasks(base, old) => f.task = seen.task /\ f.link = seen.link
    BY <1>1, ColumnFacts DEF SameTasks
  <1>4. SameTasks(seen, base) => f.task = old.task /\ f.link = old.link
    BY <1>1, ColumnFacts DEF SameTasks
  <1>5. \A t \in Tasks : f.link[t] \in {old.link[t], seen.link[t]}
    BY <1>1
  <1> QED  BY <1>1, <1>2, <1>3, <1>4, <1>5 DEF SameTasks

LEMMA FlushLinks ==
  ASSUME NEW old \in Columns, NEW seen \in Columns, NEW base \in Columns, LinksOK(old), LinksOK(seen)
  PROVE  LinksOK(Flush(old, seen, base))
  BY FlushFacts DEF LinksOK

\* What is said of tasks and links depends on tasks and links only.
LEMMA SameFacts ==
  ASSUME NEW x, NEW y, SameTasks(x, y)
  PROVE  /\ LinksOK(x) <=> LinksOK(y)
         /\ OutputsOK(x) <=> OutputsOK(y)
         /\ \A t : Ended(x, t) <=> Ended(y, t)
  BY DEF SameTasks, LinksOK, OutputsOK, Ended

\* A session of a new pass or call.
LEMMA NewJobFacts ==
  /\ NewJob \in Columns /\ LinksOK(NewJob) /\ OutputsOK(NewJob)
  /\ NewJob.job = "queued" /\ \A t \in Tasks : NewJob.task[t] = "queued"
  /\ NoPass.pc = "idle" /\ NoPass.seen = NewJob
  /\ NoCall.pc = "idle" /\ NoCall.seen = NewJob
  BY DEF NewJob, Columns, JobStatus, TaskStatus, LinksOK, OutputsOK, NoPass, NoCall, Pass, Call, NoGen

LEMMA OutcomeFacts ==
  ASSUME NEW x \in Columns, NEW op \in {"pause", "resume", "retry"}
  PROVE  /\ Outcome(op, x) \in Columns
         /\ LinksOK(x) => LinksOK(Outcome(op, x))
         /\ op # "retry" => SameTasks(Outcome(op, x), x) /\ Outcome(op, x).job \in {"paused", "queued"}
  <1>1. CASE op \in {"pause", "resume"}
    <2>1. Outcome(op, x) = [x EXCEPT !.job = IF op = "pause" THEN "paused" ELSE "queued"]
      BY <1>1 DEF Outcome
    <2> PICK j : j = IF op = "pause" THEN "paused" ELSE "queued"
      OBVIOUS
    <2>2. Outcome(op, x) = [x EXCEPT !.job = j] /\ j \in {"paused", "queued"} /\ j \in JobStatus
      BY <2>1 DEF JobStatus
    <2> PICK y : y = [x EXCEPT !.job = j]
      OBVIOUS
    <2>3. y \in Columns /\ SameTasks(y, x) /\ y.job = j
      BY <2>2, ColumnFacts
    <2>4. Outcome(op, x) = y
      BY <2>2
    <2> QED  BY <1>1, <2>2, <2>3, <2>4, SameFacts
  <1>2. CASE op = "retry"
    <2> PICK y : y = Outcome("retry", x)
      OBVIOUS
    <2>1. y = [job  |-> "queued",
               task |-> [t \in Tasks |-> IF t \in Reopened(x) THEN "queued" ELSE x.task[t]],
               link |-> Relinked(x)]
      BY DEF Outcome
    <2>2. y.link = [t \in Tasks |-> IF t \in Reopened(x) THEN NoGen ELSE x.link[t]]
      BY <2>1 DEF Relinked
    <2>3. y.task \in [Tasks -> TaskStatus] /\ y.link \in [Tasks -> Gens \cup {NoGen}]
      BY <2>1, <2>2, ColumnFacts DEF TaskStatus
    <2>4. y \in Columns
      BY <2>1, <2>3 DEF Columns, JobStatus
    <2>5. LinksOK(x) => LinksOK(y)
      BY <2>2 DEF LinksOK
    <2> QED  BY <1>2, <2>4, <2>5
  <1> QED  BY <1>1, <1>2

\* A retry keeps completed tasks and their outputs.
LEMMA RetryFacts ==
  ASSUME NEW x \in Columns
  PROVE  /\ Outcome("retry", x).job = "queued"
         /\ \A t \in Tasks : /\ x.task[t] = "completed" => Outcome("retry", x).task[t] = "completed"
                             /\ Outcome("retry", x).task[t] = "completed" => x.task[t] = "completed"
                                  /\ Outcome("retry", x).link[t] = x.link[t]
  BY DEF Outcome, Relinked, Reopened, TaskBlocked

-----------------------------------------------------------------------------
(* Sessions that nobody disturbs.                                          *)

LEMMA NoRetry ==
  ASSUME JobInv, ~met, pass.pc # "idle" \/ db.job \in {"queued", "running", "paused"}
  PROVE  \A h \in Threads : ~Retrying(h)
  BY DEF JobInv, SafeOK, CallsOK, RetryOK

LEMMA CallsStay ==
  ASSUME JobInv, ~met, call' = call, UNCHANGED <<db, pass>> \/ \A h \in Threads : ~Retrying(h)
  PROVE  CallsOK'
  <1>1. \A h : (Active(h)' <=> Active(h)) /\ (Retrying(h)' <=> Retrying(h))
    BY DEF Active, Retrying
  <1>2. \A h \in Threads : CallOK(h) /\ RetryOK(h)
    BY DEF JobInv, SafeOK, CallsOK
  <1>3. \A h \in Threads : CallOK(h)'
    BY <1>1, <1>2 DEF CallOK
  <1>4. \A h \in Threads : RetryOK(h)'
    BY <1>1, <1>2 DEF RetryOK
  <1> QED  BY <1>3, <1>4 DEF CallsOK

LEMMA PassStays ==
  ASSUME JobInv, ~met, pass' = pass, shot' = shot, made' = made, gens' = gens, SameTasks(db', db),
         pass.pc # "idle" => db'.job \in {"queued", "running", "paused"}
  PROVE  PassOK'
  BY DEF JobInv, SafeOK, PassOK, SameTasks, LinksOK, OutputsOK, Ended

-----------------------------------------------------------------------------
(* Steps of a pass on its session.                                         *)

PassRecord == [pc : {"idle", "loading", "tasks"}, seen : Columns, base : Columns, next : 1..(NumTasks + 1)]

LEMMA PassFacts ==
  /\ NoPass \in PassRecord
  /\ \A pc \in {"loading", "tasks"}, seen \in Columns, base \in Columns, next \in 1..(NumTasks + 1) :
       /\ Pass(pc, seen, base, next) \in PassRecord
       /\ Pass(pc, seen, base, next).pc = pc /\ Pass(pc, seen, base, next).seen = seen
       /\ Pass(pc, seen, base, next).base = base
  BY NewJobFacts DEF NoPass, Pass, PassRecord

LEMMA PassStep ==
  ASSUME JobInv, UNCHANGED <<db, queue, call, calls, met>>, aborts' \in 0..MaxAborts,
         NEW p \in PassRecord, pass' = p, LinksOK(p.seen),
         ~met => (\A h \in Threads : ~Retrying(h)) /\ PassOK'
  PROVE  JobInv'
  <1>1. TypeOK' /\ met' \in BOOLEAN
    BY DEF JobInv, TypeOK, PassRecord, queue
  <1>2. RowsOK'
    BY DEF JobInv, RowsOK, queue
  <1>3. SessionsLink'
    BY DEF JobInv, SessionsLink, LinksOK, queue
  <1>4. SafeOK'
    <2> SUFFICES ASSUME ~met  PROVE CallsOK' /\ PassOK' /\ OutputsOK(db)' /\ EndedJobHasNoOpenTask'
      BY DEF SafeOK
    <2>1. CallsOK'
      BY CallsStay
    <2>2. OutputsOK(db)' /\ EndedJobHasNoOpenTask'
      BY DEF JobInv, SafeOK, OutputsOK, EndedJobHasNoOpenTask, queue
    <2> QED  BY <2>1, <2>2
  <1> QED  BY <1>1, <1>2, <1>3, <1>4 DEF JobInv

LEMMA PassTypes ==
  ASSUME JobInv
  PROVE  /\ db \in Columns /\ LinksOK(db)
         /\ pass \in PassRecord /\ pass.seen \in Columns /\ pass.base \in Columns /\ LinksOK(pass.seen)
         /\ pass.next \in Nat
         /\ aborts \in 0..MaxAborts
  BY DEF JobInv, TypeOK, SessionsLink, PassRecord

LEMMA SessionOK ==
  ASSUME NEW x, NEW y, pass'.seen = x, pass'.base = y, UNCHANGED <<db, gens, shot, made>>,
         db.job \in {"queued", "running", "paused"}, x.job = "running",
         SameTasks(y, db), LinksOK(x), OutputsOK(x),
         \A t \in Tasks : Ended(y, t) => x.task[t] = y.task[t]
  PROVE  PassOK'
  <1>1. SameTasks(pass.base, db)'
    BY DEF SameTasks
  <1>2. LinksOK(pass.seen)' /\ OutputsOK(pass.seen)'
    BY DEF LinksOK, OutputsOK
  <1>3. \A t \in Tasks : Ended(pass.base, t)' => pass'.seen.task[t] = pass'.base.task[t]
    BY DEF Ended
  <1>4. db'.job \in {"queued", "running", "paused"} /\ pass'.seen.job = "running"
    OBVIOUS
  <1> QED  BY <1>1, <1>2, <1>3, <1>4 DEF PassOK

LEMMA PassLoadsJobOK ==
  ASSUME JobInv, PassLoadsJob
  PROVE  JobInv'
  <1> PICK x, p : x = [db EXCEPT !.job = "running"] /\ p = Pass("loading", x, db, 1)
    OBVIOUS
  <1>1. x \in Columns /\ SameTasks(x, db) /\ x.job = "running"
    BY PassTypes, ColumnFacts DEF JobStatus
  <1>2. 1 \in 1..(NumTasks + 1)
    OBVIOUS
  <1>3. p \in PassRecord /\ p.pc = "loading" /\ p.seen = x
    BY <1>1, <1>2, PassTypes, PassFacts
  <1>4. LinksOK(x)
    BY <1>1, PassTypes, SameFacts
  <1>5. pass' = p /\ db.job \in {"queued", "running"} /\ UNCHANGED <<db, queue, call, calls, aborts, met>>
    BY DEF PassLoadsJob
  <1>6. ~met => (\A h \in Threads : ~Retrying(h)) /\ PassOK'
    BY <1>1, <1>3, <1>5, NoRetry DEF PassOK
  <1> QED  BY <1>3, <1>4, <1>5, <1>6, PassTypes, PassStep

LEMMA PassLoadsTasksOK ==
  ASSUME JobInv, PassLoadsTasks
  PROVE  JobInv'
  <1> PICK x, y, p : x = [db EXCEPT !.job = pass.seen.job] /\ y = [db EXCEPT !.job = pass.base.job] /\ p = Pass("tasks", x, y, 1)
    OBVIOUS
  <1>1. x \in Columns /\ SameTasks(x, db) /\ x.job = pass.seen.job /\ y \in Columns /\ SameTasks(y, db)
    BY PassTypes, ColumnFacts
  <1>2. 1 \in 1..(NumTasks + 1)
    OBVIOUS
  <1>3. p \in PassRecord /\ p.pc = "tasks" /\ p.seen = x /\ p.base = y
    BY <1>1, <1>2, PassFacts
  <1>4. LinksOK(x)
    BY <1>1, PassTypes, SameFacts
  <1>5. pass' = p /\ pass.pc = "loading" /\ UNCHANGED <<db, queue, call, calls, aborts, met>>
    BY DEF PassLoadsTasks
  <1>6. ~met => (\A h \in Threads : ~Retrying(h)) /\ PassOK'
    <2> SUFFICES ASSUME ~met  PROVE (\A h \in Threads : ~Retrying(h)) /\ PassOK'
      OBVIOUS
    <2>1. \A h \in Threads : ~Retrying(h)
      BY <1>5, NoRetry
    <2>2. db.job \in {"queued", "running", "paused"} /\ x.job = "running"
      BY <1>1, <1>5 DEF JobInv, SafeOK, PassOK
    <2>3. OutputsOK(x)
      BY <1>1, SameFacts DEF JobInv, SafeOK
    <2>4. SameTasks(y, db) /\ \A t \in Tasks : Ended(y, t) => x.task[t] = y.task[t]
      BY <1>1 DEF SameTasks
    <2>5. PassOK'
      <3>1. pass'.seen = x /\ pass'.base = y /\ UNCHANGED <<db, gens, shot, made>>
        BY <1>3, <1>5 DEF queue
      <3> QED  BY ONLY <3>1, <1>4, <2>2, <2>3, <2>4, SessionOK
    <2> QED  BY <2>1, <2>5
  <1> QED  BY <1>3, <1>4, <1>5, <1>6, PassTypes, PassStep

\* A step of the pass on one task that has not ended.
LEMMA PassChanges ==
  ASSUME JobInv, pass.pc = "tasks", pass.next \in Tasks, NEW st \in TaskStatus,
         Advance([pass.seen EXCEPT !.task[pass.next] = st], pass.base),
         Ended(pass.seen, pass.next) => st = pass.seen.task[pass.next],
         st = "completed" => \/ pass.seen.task[pass.next] = "completed"
                             \/ pass.seen.link[pass.next] # NoGen /\ gens[pass.seen.link[pass.next]] = "completed",
         UNCHANGED <<db, queue, call, calls, aborts, met>>
  PROVE  JobInv'
  <1> PICK x, p : x = [pass.seen EXCEPT !.task[pass.next] = st] /\ p = Pass("tasks", x, pass.base, pass.next + 1)
    OBVIOUS
  <1>1. /\ x \in Columns /\ x.job = pass.seen.job /\ x.link = pass.seen.link
        /\ x.task[pass.next] = st
        /\ \A t \in Tasks : t # pass.next => x.task[t] = pass.seen.task[t]
    BY PassTypes DEF Columns
  <1>2. pass.next + 1 \in 1..(NumTasks + 1)
    BY DEF Tasks
  <1>3. p \in PassRecord /\ p.pc = "tasks" /\ p.seen = x /\ p.base = pass.base
    BY <1>1, <1>2, PassTypes, PassFacts
  <1>4. LinksOK(x)
    BY <1>1, PassTypes DEF LinksOK
  <1>5. pass' = p
    BY DEF Advance
  <1>6. ~met => (\A h \in Threads : ~Retrying(h)) /\ PassOK'
    <2> SUFFICES ASSUME ~met  PROVE (\A h \in Threads : ~Retrying(h)) /\ PassOK'
      OBVIOUS
    <2>1. \A h \in Threads : ~Retrying(h)
      BY NoRetry
    <2>2. PassOK
      BY DEF JobInv, SafeOK
    <2>3. OutputsOK(x)
      BY <1>1, <2>2 DEF PassOK, OutputsOK
    <2>4. \A t \in Tasks : Ended(pass.base, t) => x.task[t] = pass.base.task[t]
      BY <1>1, <2>2 DEF PassOK, Ended
    <2>5. PassOK'
      <3>1. pass'.seen = x /\ pass'.base = pass.base /\ UNCHANGED <<db, gens, shot, made>>
        BY <1>3, <1>5 DEF queue
      <3>2. x.job = "running" /\ db.job \in {"queued", "running", "paused"} /\ SameTasks(pass.base, db)
        BY <1>1, <2>2 DEF PassOK
      <3> PICK y : y = pass.base
        OBVIOUS
      <3>3. pass'.base = y /\ SameTasks(y, db) /\ \A t \in Tasks : Ended(y, t) => x.task[t] = y.task[t]
        BY <3>1, <3>2, <2>4
      <3> QED  BY ONLY <3>1, <3>2, <3>3, <1>4, <2>3, SessionOK
    <2> QED  BY <2>1, <2>5
  <1> QED  BY <1>3, <1>4, <1>5, <1>6, PassTypes, PassStep

LEMMA PassReflectsOK ==
  ASSUME JobInv, PassReflects
  PROVE  JobInv'
  <1> PICK t, seen, now :
        /\ t = pass.next /\ seen = pass.seen
        /\ now = IF Ended(seen, t) THEN seen.task[t]
                 ELSE IF Blocked(seen, t) THEN "dependency_failed"
                 ELSE IF Waiting(seen, t) \/ seen.link[t] = NoGen THEN seen.task[t]
                 ELSE Reflected(seen.task[t], gens[seen.link[t]])
    OBVIOUS
  <1>1. /\ pass.pc = "tasks" /\ t \in Tasks
        /\ Advance([seen EXCEPT !.task[t] = now], pass.base)
        /\ UNCHANGED <<db, queue, call, calls, aborts, met>>
    BY DEF PassReflects
  <1>2. seen.task[t] \in TaskStatus
    BY <1>1, PassTypes, ColumnFacts
  <1>3. now \in TaskStatus
    BY <1>2 DEF Reflected, TaskStatus, TaskTerminal
  <1>4. Ended(seen, t) => now = seen.task[t]
    OBVIOUS
  <1>5. now = "completed" => seen.task[t] = "completed" \/ (seen.link[t] # NoGen /\ gens[seen.link[t]] = "completed")
    BY DEF Reflected
  <1> QED  BY <1>1, <1>3, <1>4, <1>5, PassChanges

LEMMA PassIsRefusedOK ==
  ASSUME JobInv, PassIsRefused
  PROVE  JobInv'
  <1>1. "failed" \in TaskStatus
    BY DEF TaskStatus, TaskTerminal
  <1> QED  BY <1>1, PassChanges DEF PassIsRefused, NeedsRow

LEMMA PassAbortsOK ==
  ASSUME JobInv, PassAborts
  PROVE  JobInv'
  <1>1. aborts' \in 0..MaxAborts
    BY PassTypes DEF PassAborts
  <1>2. ~met => (\A h \in Threads : ~Retrying(h)) /\ PassOK'
    BY NoRetry, NewJobFacts DEF PassAborts, PassOK
  <1> QED  BY <1>1, <1>2, NewJobFacts, PassFacts, PassStep DEF PassAborts

-----------------------------------------------------------------------------
(* A pass that commits.                                                    *)

Stays == \A t \in Tasks : db.task[t] = "completed" => db'.task[t] = "completed"

\* A new row is no output yet and is linked to nothing.
LEMMA RowIsAdded ==
  ASSUME JobInv, NEW t \in Tasks, made + 1 \in Gens,
         gens' = [gens EXCEPT ![made + 1] = "queued"], shot' = [shot EXCEPT ![made + 1] = t], made' = made + 1
  PROVE  /\ gens' \in [Gens -> GenStatus] /\ shot' \in [Gens -> Tasks] /\ made' \in 0..NumGen
         /\ RowsOK' /\ shot'[made + 1] = t /\ gens'[made + 1] = "queued"
         /\ \A x \in Columns : LinksOK(x) => LinksOK(x)' /\ (OutputsOK(x) => OutputsOK(x)')
  <1>1. made \in Nat /\ gens \in [Gens -> GenStatus] /\ shot \in [Gens -> Tasks]
    BY DEF JobInv, TypeOK
  <1>2. gens' \in [Gens -> GenStatus] /\ shot' \in [Gens -> Tasks] /\ made' \in 0..NumGen
    BY <1>1 DEF GenStatus, InFlight, Gens
  <1>3. /\ shot'[made + 1] = t /\ gens'[made + 1] = "queued"
        /\ \A g \in Gens : g # made + 1 => shot'[g] = shot[g] /\ gens'[g] = gens[g]
    BY <1>1
  <1>4. RowsOK'
    BY <1>1, <1>3 DEF JobInv, RowsOK, Gens
  <1>5. ASSUME NEW x \in Columns, LinksOK(x)  PROVE LinksOK(x)' /\ (OutputsOK(x) => OutputsOK(x)')
    <2>1. \A u \in Tasks : x.link[u] # NoGen => x.link[u] \in Gens /\ x.link[u] <= made /\ x.link[u] # made + 1
      BY <1>1, <1>5, ColumnFacts DEF LinksOK, NoGen, Gens
    <2>2. LinksOK(x)'
      BY <1>1, <1>3, <1>5, <2>1 DEF LinksOK, Gens
    <2>3. OutputsOK(x) => OutputsOK(x)'
      BY <1>3, <2>1 DEF OutputsOK
    <2> QED  BY <2>2, <2>3
  <1> QED  BY <1>2, <1>3, <1>4, <1>5

\* What a pass that has loaded its tasks writes back.
LEMMA PassFlush ==
  ASSUME JobInv, ~met, pass.pc = "tasks", NEW x \in Columns, SameTasks(x, pass.seen), NEW y, y = Flush(db, x, pass.base)
  PROVE  /\ SameTasks(y, pass.seen) /\ OutputsOK(pass.seen)
         /\ y.job \in {x.job, db.job} /\ db.job \in {"queued", "running", "paused"}
         /\ \A t \in Tasks : db.task[t] = "completed" => y.task[t] = "completed"
         /\ \A h \in Threads : ~Retrying(h)
  <1>1. PassOK
    BY DEF JobInv, SafeOK
  <1>2. SameTasks(y, x) /\ y.job \in {x.job, db.job}
    BY <1>1, PassTypes, FlushFacts DEF PassOK
  <1>3. SameTasks(y, pass.seen)
    BY <1>2 DEF SameTasks
  <1>4. \A t \in Tasks : db.task[t] = "completed" => y.task[t] = "completed"
    BY <1>1, <1>3 DEF PassOK, SameTasks, Ended, TaskTerminal
  <1> QED  BY <1>1, <1>2, <1>3, <1>4, NoRetry DEF PassOK

LEMMA PassCreatesOK ==
  ASSUME JobInv, PassCreates
  PROVE  JobInv' /\ (~met => Stays)
  <1> PICK t, g, x, y, p :
        /\ t = pass.next /\ g = made + 1
        /\ x = [pass.seen EXCEPT !.link[t] = g] /\ y = Flush(db, pass.seen, pass.base)
        /\ p = Pass("tasks", x, pass.seen, pass.next + 1)
    OBVIOUS
  <1>1. /\ pass.pc = "tasks" /\ t \in Tasks /\ g \in Gens /\ ~Ended(pass.seen, t)
        /\ gens' = [gens EXCEPT ![g] = "queued"] /\ shot' = [shot EXCEPT ![g] = t] /\ made' = g
        /\ db' = y /\ pass' = p /\ UNCHANGED <<hint, call, calls, aborts, met>>
    BY DEF PassCreates, NeedsRow, Advance
  <1>2. /\ x \in Columns /\ x.job = pass.seen.job /\ x.task = pass.seen.task /\ x.link[t] = g
        /\ \A u \in Tasks : u # t => x.link[u] = pass.seen.link[u]
    BY <1>1, PassTypes DEF Columns
  <1>3. /\ gens' \in [Gens -> GenStatus] /\ shot' \in [Gens -> Tasks] /\ made' \in 0..NumGen
        /\ RowsOK' /\ shot'[g] = t /\ gens'[g] = "queued"
        /\ \A z \in Columns : LinksOK(z) => LinksOK(z)' /\ (OutputsOK(z) => OutputsOK(z)')
    BY <1>1, RowIsAdded
  <1>4. y \in Columns /\ LinksOK(y) /\ y.job \in {pass.seen.job, db.job}
    BY PassTypes, FlushFacts, FlushLinks
  <1>5. pass.next + 1 \in 1..(NumTasks + 1)
    BY <1>1 DEF Tasks
  <1>6. p \in PassRecord /\ p.pc = "tasks" /\ p.seen = x /\ p.base = pass.seen
    BY <1>2, <1>5, PassTypes, PassFacts
  <1>7. TypeOK' /\ met' \in BOOLEAN
    BY <1>1, <1>3, <1>4, <1>6 DEF JobInv, TypeOK, PassRecord
  <1>8. LinksOK(x)'
    <2>1. LinksOK(pass.seen) /\ pass.seen \in Columns
      BY PassTypes
    <2> PICK s : s = pass.seen
      OBVIOUS
    <2>2. LinksOK(s)'
      BY <2>1, <1>3
    <2>3. g = made'
      BY <1>1
    <2>4. g <= made' /\ shot'[g] = t
      BY <2>3, <1>1, <1>3 DEF Gens
    <2> QED  BY <1>2, <2>2, <2>4 DEF LinksOK
  <1>9. SessionsLink'
    <2>1. LinksOK(y)'
      BY <1>3, <1>4
    <2>2. LinksOK(db)'
      BY <1>1, <2>1 DEF LinksOK
    <2>3. LinksOK(pass.seen)'
      BY <1>1, <1>6, <1>8 DEF LinksOK
    <2>4. ASSUME NEW h \in Threads  PROVE LinksOK(call[h].seen)'
      <3> PICK s : s = call[h].seen
        OBVIOUS
      <3>1. s \in Columns /\ LinksOK(s)
        BY DEF JobInv, TypeOK, SessionsLink
      <3>2. LinksOK(s)' /\ call'[h].seen = s
        BY <1>1, <1>3, <3>1
      <3> QED  BY <3>2 DEF LinksOK
    <2> QED  BY <2>2, <2>3, <2>4 DEF SessionsLink
  <1>10. ASSUME ~met
         PROVE  CallsOK' /\ PassOK' /\ OutputsOK(db)' /\ EndedJobHasNoOpenTask' /\ Stays
    <2>1. SameTasks(pass.seen, pass.seen)
      BY DEF SameTasks
    <2>2. /\ SameTasks(y, pass.seen) /\ OutputsOK(pass.seen)
          /\ y.job \in {pass.seen.job, db.job} /\ db.job \in {"queued", "running", "paused"}
          /\ \A u \in Tasks : db.task[u] = "completed" => y.task[u] = "completed"
          /\ \A h \in Threads : ~Retrying(h)
      BY <1>1, <1>10, <2>1, PassTypes, PassFlush
    <2>3. pass.seen.job = "running"
      BY <1>1, <1>10 DEF JobInv, SafeOK, PassOK
    <2>4. CallsOK'
      BY <1>1, <1>10, <2>2, CallsStay
    <2>5. db'.job \in {"queued", "running", "paused"} /\ EndedJobHasNoOpenTask' /\ Stays
      BY <1>1, <2>2, <2>3 DEF EndedJobHasNoOpenTask, Stays
    <2>6. OutputsOK(y) /\ OutputsOK(y)' /\ OutputsOK(x)'
      <3>1. OutputsOK(y)
        BY <2>2, SameFacts
      <3>2. OutputsOK(y)'
        BY <3>1, <1>3, <1>4
      <3>3. x.task[t] # "completed"
        BY <1>1, <1>2 DEF Ended, TaskTerminal
      <3>4. \A u \in Tasks : u # t => x.task[u] = y.task[u] /\ x.link[u] = y.link[u]
        BY <1>2, <2>2 DEF SameTasks
      <3> QED  BY <3>1, <3>2, <3>3, <3>4 DEF OutputsOK
    <2>7. OutputsOK(db)'
      BY <1>1, <2>6 DEF OutputsOK
    <2>8. PassOK'
      <3>1. SameTasks(pass.base, db)'
        BY <1>1, <1>6, <2>2 DEF SameTasks
      <3>2. LinksOK(pass.seen)' /\ OutputsOK(pass.seen)'
        <4>1. pass'.seen = x
          BY <1>1, <1>6
        <4> QED  BY ONLY <4>1, <1>8, <2>6 DEF LinksOK, OutputsOK
      <3>3. \A u \in Tasks : Ended(pass.base, u)' => pass'.seen.task[u] = pass'.base.task[u]
        BY <1>1, <1>2, <1>6
      <3>4. pass'.seen.job = "running"
        BY <1>1, <1>2, <1>6, <2>3
      <3> QED  BY <2>5, <3>1, <3>2, <3>3, <3>4 DEF PassOK
    <2> QED  BY <2>4, <2>5, <2>7, <2>8
  <1>11. SafeOK' /\ (~met => Stays)
    BY <1>1, <1>10 DEF SafeOK
  <1> QED  BY <1>3, <1>7, <1>9, <1>11 DEF JobInv

LEMMA PassEndsOK ==
  ASSUME JobInv, PassEnds
  PROVE  JobInv' /\ (~met => Stays)
  <1> PICK j, x, y :
        /\ j = IF AllEnded(pass.seen) THEN "completed" ELSE pass.seen.job
        /\ x = [pass.seen EXCEPT !.job = j] /\ y = Flush(db, x, pass.base)
    OBVIOUS
  <1>1. pass.pc = "tasks" /\ db' = y /\ pass' = NoPass /\ UNCHANGED <<queue, call, calls, aborts, met>>
    BY DEF PassEnds
  <1>2. x \in Columns /\ x.job = j /\ SameTasks(x, pass.seen)
    <2>1. j \in JobStatus
      BY PassTypes, ColumnFacts DEF JobStatus
    <2> QED  BY <2>1, PassTypes, ColumnFacts
  <1>3. y \in Columns /\ LinksOK(y)
    <2>1. LinksOK(x)
      BY <1>2, PassTypes, SameFacts
    <2> QED  BY <1>2, <2>1, PassTypes, FlushFacts, FlushLinks
  <1>4. TypeOK' /\ met' \in BOOLEAN /\ RowsOK'
    BY <1>1, <1>3, PassFacts DEF JobInv, TypeOK, PassRecord, RowsOK, queue
  <1>5. SessionsLink'
    BY <1>1, <1>3, NewJobFacts DEF JobInv, SessionsLink, LinksOK, queue
  <1>6. ASSUME ~met
        PROVE  CallsOK' /\ PassOK' /\ OutputsOK(db)' /\ EndedJobHasNoOpenTask' /\ Stays
    <2>1. /\ SameTasks(y, pass.seen) /\ OutputsOK(pass.seen)
          /\ y.job \in {x.job, db.job} /\ db.job \in {"queued", "running", "paused"}
          /\ \A u \in Tasks : db.task[u] = "completed" => y.task[u] = "completed"
          /\ \A h \in Threads : ~Retrying(h)
      BY <1>1, <1>2, <1>6, PassFlush
    <2>2. pass.seen.job = "running"
      BY <1>1, <1>6 DEF JobInv, SafeOK, PassOK
    <2>3. CallsOK'
      BY <1>1, <1>6, <2>1, CallsStay
    <2>4. PassOK'
      BY <1>1, NewJobFacts DEF PassOK
    <2>5. OutputsOK(y)
      BY <2>1, SameFacts
    <2>6. OutputsOK(db)'
      BY <1>1, <2>5 DEF OutputsOK, queue
    <2>7. EndedJobHasNoOpenTask'
      BY <1>1, <1>2, <2>1, <2>2 DEF EndedJobHasNoOpenTask, AllEnded, Ended, SameTasks
    <2> QED  BY <1>1, <2>1, <2>3, <2>4, <2>6, <2>7 DEF Stays
  <1>7. SafeOK' /\ (~met => Stays)
    BY <1>1, <1>6 DEF SafeOK
  <1> QED  BY <1>4, <1>5, <1>7 DEF JobInv

-----------------------------------------------------------------------------
(* Requests.                                                               *)

CallRecord == [op : {"none", "pause", "resume", "retry"}, pc : {"idle", "tasks", "commit"}, seen : Columns, base : Columns]

LEMMA CallFacts ==
  /\ NoCall \in CallRecord
  /\ \A op \in {"pause", "resume", "retry"}, pc \in {"tasks", "commit"}, seen \in Columns, base \in Columns :
       /\ Call(op, pc, seen, base) \in CallRecord
       /\ Call(op, pc, seen, base).op = op /\ Call(op, pc, seen, base).pc = pc
       /\ Call(op, pc, seen, base).seen = seen /\ Call(op, pc, seen, base).base = base
  BY NewJobFacts DEF NoCall, Call, CallRecord

LEMMA CallTypes ==
  ASSUME JobInv, NEW h \in Threads
  PROVE  /\ call[h] \in CallRecord /\ call[h].seen \in Columns /\ call[h].base \in Columns
         /\ LinksOK(call[h].seen) /\ call \in [Threads -> CallRecord]
  BY DEF JobInv, TypeOK, SessionsLink, CallRecord

\* A thread loads: nothing but its call changes.
LEMMA CallStep ==
  ASSUME JobInv, NEW h \in Threads, NEW c \in CallRecord, LinksOK(c.seen), call' = [call EXCEPT ![h] = c],
         UNCHANGED <<db, queue, pass, aborts>>, calls' \in 0..MaxCalls, met' \in BOOLEAN, met => met',
         ~met' => CallsOK'
  PROVE  JobInv'
  <1>1. TypeOK'
    BY DEF JobInv, TypeOK, CallRecord, queue
  <1>2. RowsOK' /\ SessionsLink'
    BY DEF JobInv, TypeOK, RowsOK, SessionsLink, LinksOK, queue
  <1>3. SafeOK'
    <2> SUFFICES ASSUME ~met'  PROVE CallsOK' /\ PassOK' /\ OutputsOK(db)' /\ EndedJobHasNoOpenTask'
      BY DEF SafeOK
    <2>1. ~met
      OBVIOUS
    <2>2. PassOK'
      <3>1. pass.pc # "idle" => db'.job \in {"queued", "running", "paused"}
        BY <2>1 DEF JobInv, SafeOK, PassOK
      <3>2. UNCHANGED <<shot, made, gens, pass>> /\ SameTasks(db', db)
        BY DEF queue, SameTasks
      <3> QED  BY <2>1, <3>1, <3>2, PassStays
    <2>3. OutputsOK(db)' /\ EndedJobHasNoOpenTask'
      BY <2>1 DEF JobInv, SafeOK, OutputsOK, EndedJobHasNoOpenTask, queue
    <2> QED  BY <2>2, <2>3
  <1> QED  BY <1>1, <1>2, <1>3 DEF JobInv

LEMMA CallLoadsJobOK ==
  ASSUME JobInv, NEW h \in Threads, NEW op \in {"pause", "resume", "retry"}, CallLoadsJob(h, op)
  PROVE  JobInv'
  <1> PICK pc, x, c :
        /\ pc = IF op = "retry" THEN "tasks" ELSE "commit"
        /\ x = Outcome(op, db) /\ c = Call(op, pc, x, db)
    OBVIOUS
  <1>1. /\ x \in Columns /\ LinksOK(x)
        /\ op # "retry" => SameTasks(x, db) /\ x.job \in {"paused", "queued"}
    BY PassTypes, OutcomeFacts
  <1>2. pc \in {"tasks", "commit"} /\ (op = "retry" <=> pc = "tasks")
    OBVIOUS
  <1>3. c \in CallRecord /\ c.op = op /\ c.pc = pc /\ c.seen = x /\ c.base = db
    BY <1>1, <1>2, PassTypes, CallFacts
  <1>4. /\ call' = [call EXCEPT ![h] = c] /\ db.job \in Accepts(op)
        /\ met' = (met \/ \E k \in Threads \ {h} : call[k].pc # "idle" /\ (op = "retry" \/ call[k].op = "retry"))
        /\ UNCHANGED <<db, queue, pass, aborts>> /\ calls' \in 0..MaxCalls
    BY DEF CallLoadsJob, JobInv, TypeOK
  <1>5. met' \in BOOLEAN /\ (met => met')
    BY <1>4 DEF JobInv
  <1>6. ASSUME ~met'  PROVE CallsOK'
    <2>1. ~met /\ \A k \in Threads : k # h => ~Retrying(k) /\ (op = "retry" => ~Active(k))
      BY <1>4, <1>6 DEF Active, Retrying
    <2>2. call'[h] = c /\ \A k \in Threads : k # h => call'[k] = call[k]
      BY <1>4, CallTypes
    <2>3. ASSUME NEW k \in Threads, k # h  PROVE CallOK(k)' /\ RetryOK(k)'
      BY <2>1, <2>2, <2>3 DEF JobInv, SafeOK, CallsOK, CallOK, RetryOK, Retrying, Active
    <2>4. CallOK(h)'
      BY <1>1, <1>2, <1>3, <2>2 DEF CallOK, Active, Retrying
    <2>5. RetryOK(h)'
      <3> SUFFICES ASSUME op = "retry"  PROVE RetryOK(h)'
        BY <1>3, <2>2 DEF RetryOK, Retrying
      <3>1. db.job \in {"completed", "failed"}
        BY <1>4 DEF Accepts
      <3>2. pass.pc = "idle"
        BY <2>1, <3>1 DEF JobInv, SafeOK, PassOK
      <3>3. \A k \in Threads : k # h => ~Active(k)'
        BY <2>1, <2>2 DEF Active
      <3> QED  BY <1>2, <1>3, <1>4, <2>2, <3>1, <3>2, <3>3 DEF RetryOK
    <2> QED  BY <2>3, <2>4, <2>5 DEF CallsOK
  <1> QED  BY <1>1, <1>3, <1>4, <1>5, <1>6, CallStep

LEMMA CallLoadsTasksOK ==
  ASSUME JobInv, NEW h \in Threads, CallLoadsTasks(h)
  PROVE  JobInv'
  <1> PICK b, x, c :
        /\ b = [db EXCEPT !.job = call[h].base.job] /\ x = Outcome("retry", b)
        /\ c = Call("retry", "commit", x, b)
    OBVIOUS
  <1>1. b \in Columns /\ LinksOK(b) /\ b.job = call[h].base.job
    <2>1. b \in Columns /\ SameTasks(b, db) /\ b.job = call[h].base.job
      BY PassTypes, CallTypes, ColumnFacts
    <2> QED  BY <2>1, PassTypes, SameFacts
  <1>2. x \in Columns /\ LinksOK(x)
    BY <1>1, OutcomeFacts
  <1>3. c \in CallRecord /\ c.op = "retry" /\ c.pc = "commit" /\ c.seen = x /\ c.base = b
    BY <1>1, <1>2, CallFacts
  <1>4. /\ call' = [call EXCEPT ![h] = c] /\ call[h].pc = "tasks"
        /\ UNCHANGED <<db, queue, pass, calls, aborts, met>>
    BY DEF CallLoadsTasks
  <1>5. calls' \in 0..MaxCalls /\ met' \in BOOLEAN
    BY <1>4 DEF JobInv, TypeOK
  <1>6. ASSUME ~met'  PROVE CallsOK'
    <2>1. ~met /\ CallOK(h) /\ RetryOK(h)
      BY <1>4, <1>6 DEF JobInv, SafeOK, CallsOK
    <2>2. Active(h) /\ Retrying(h)
      BY <1>4, <2>1 DEF CallOK, Active, Retrying
    <2>3. /\ pass.pc = "idle" /\ db.job \in {"completed", "failed"} /\ call[h].base.job = db.job
          /\ \A k \in Threads : Active(k) => k = h
      BY <2>1, <2>2 DEF RetryOK
    <2>4. b = db
      BY <2>3, PassTypes DEF Columns
    <2>5. call'[h] = c /\ \A k \in Threads : k # h => call'[k] = call[k]
      BY <1>4, CallTypes
    <2>6. ASSUME NEW k \in Threads, k # h  PROVE CallOK(k)' /\ RetryOK(k)'
      BY <1>4, <2>3, <2>5, <2>6 DEF CallOK, RetryOK, Retrying, Active
    <2>7. CallOK(h)'
      BY <1>3, <2>5 DEF CallOK, Active, Retrying
    <2>8. RetryOK(h)'
      <3>1. \A k \in Threads : k # h => ~Active(k)'
        BY <2>3, <2>5 DEF Active
      <3> QED  BY <1>3, <1>4, <2>3, <2>4, <2>5, <3>1 DEF RetryOK
    <2> QED  BY <2>6, <2>7, <2>8 DEF CallsOK
  <1> QED  BY <1>2, <1>3, <1>4, <1>5, <1>6, CallStep

LEMMA CallCommitsOK ==
  ASSUME JobInv, NEW h \in Threads, CallCommits(h)
  PROVE  JobInv' /\ (~met => Stays)
  <1> PICK s, b, y : s = call[h].seen /\ b = call[h].base /\ y = Flush(db, s, b)
    OBVIOUS
  <1>1. /\ call[h].pc = "commit" /\ db' = y /\ call' = [call EXCEPT ![h] = NoCall]
        /\ UNCHANGED <<queue, pass, calls, aborts, met>>
    BY DEF CallCommits
  <1>2. s \in Columns /\ b \in Columns /\ LinksOK(s)
    BY CallTypes
  <1>3. y \in Columns /\ LinksOK(y) /\ y.job = IF s.job # b.job THEN s.job ELSE db.job
    <2>1. y \in Columns /\ y.job = IF s.job # b.job THEN s.job ELSE db.job
      BY <1>2, PassTypes, FlushFacts
    <2>2. LinksOK(y)
      BY <1>2, PassTypes, FlushLinks
    <2> QED  BY <2>1, <2>2
  <1>4. TypeOK' /\ met' \in BOOLEAN
    BY <1>1, <1>3, CallFacts DEF JobInv, TypeOK, CallRecord, queue
  <1>5. \A k \in Threads : call'[k] = IF k = h THEN NoCall ELSE call[k]
    BY <1>1, CallTypes
  <1>6. RowsOK' /\ SessionsLink'
    <2>1. RowsOK' /\ LinksOK(db)' /\ LinksOK(pass.seen)'
      BY <1>1, <1>3 DEF JobInv, RowsOK, SessionsLink, LinksOK, queue
    <2>2. \A k \in Threads : LinksOK(call'[k].seen)
      BY <1>5, NewJobFacts DEF JobInv, SessionsLink
    <2>3. \A k \in Threads : LinksOK(call[k].seen)'
      BY <1>1, <2>2 DEF LinksOK, queue
    <2> QED  BY <2>1, <2>3 DEF SessionsLink
  <1>7. ASSUME ~met
        PROVE  CallsOK' /\ PassOK' /\ OutputsOK(db)' /\ EndedJobHasNoOpenTask' /\ Stays
    <2>1. CallOK(h) /\ RetryOK(h) /\ PassOK /\ OutputsOK(db) /\ EndedJobHasNoOpenTask /\ Active(h)
      BY <1>1, <1>7 DEF JobInv, SafeOK, CallsOK, Active
    <2>2. \A k \in Threads : k # h => ~Retrying(k)
      BY <1>7, <2>1 DEF JobInv, SafeOK, CallsOK, RetryOK, Retrying
    <2>3. CallsOK'
      <3>1. ASSUME NEW k \in Threads, k # h  PROVE CallOK(k)' /\ RetryOK(k)'
        BY <1>5, <1>7, <2>2, <3>1 DEF JobInv, SafeOK, CallsOK, CallOK, RetryOK, Retrying, Active
      <3>2. CallOK(h)' /\ RetryOK(h)'
        BY <1>5, NewJobFacts DEF CallOK, RetryOK, Retrying, Active
      <3> QED  BY <3>1, <3>2 DEF CallsOK
    <2>4. CASE Retrying(h)
      <3>1. pass.pc = "idle" /\ db.job \in {"completed", "failed"} /\ b = db /\ s = Outcome("retry", db)
        BY <1>1, <2>1, <2>4 DEF RetryOK
      <3>2. SameTasks(b, db) /\ SameTasks(y, s)
        BY <1>2, <3>1, PassTypes, FlushFacts DEF SameTasks
      <3>3. \A t \in Tasks : /\ db.task[t] = "completed" => y.task[t] = "completed"
                             /\ y.task[t] = "completed" => db.task[t] = "completed" /\ y.link[t] = db.link[t]
        BY <3>1, <3>2, PassTypes, RetryFacts DEF SameTasks
      <3>4. y.job = "queued"
        BY <1>3, <3>1, PassTypes, RetryFacts
      <3>5. PassOK'
        BY <1>1, <3>1 DEF PassOK
      <3>6. OutputsOK(db)' /\ Stays
        BY <1>1, <2>1, <3>3 DEF OutputsOK, Stays, queue
      <3>7. EndedJobHasNoOpenTask'
        BY <1>1, <3>4 DEF EndedJobHasNoOpenTask
      <3> QED  BY <2>3, <3>5, <3>6, <3>7
    <2>5. CASE ~Retrying(h)
      <3>1. SameTasks(s, b) /\ s.job \in {"paused", "queued"}
        BY <2>1, <2>5 DEF CallOK
      <3>2. SameTasks(y, db) /\ y.job \in {"paused", "queued", db.job}
        BY <1>2, <1>3, <3>1, PassTypes, FlushFacts
      <3>3. PassOK'
        <4>1. pass.pc # "idle" => db'.job \in {"queued", "running", "paused"}
          BY <1>1, <2>1, <3>2 DEF PassOK
        <4>2. UNCHANGED <<shot, made, gens, pass>> /\ SameTasks(db', db)
          BY <1>1, <3>2 DEF queue
        <4> QED  BY <1>7, <4>1, <4>2, PassStays
      <3>4. OutputsOK(db)' /\ Stays
        BY <1>1, <2>1, <3>2 DEF OutputsOK, Stays, SameTasks, queue
      <3>5. EndedJobHasNoOpenTask'
        BY <1>1, <1>7, <2>1, <3>2 DEF EndedJobHasNoOpenTask, SameTasks
      <3> QED  BY <2>3, <3>3, <3>4, <3>5
    <2> QED  BY <2>4, <2>5
  <1>8. SafeOK' /\ (~met => Stays)
    BY <1>1, <1>7 DEF SafeOK
  <1> QED  BY <1>4, <1>6, <1>8 DEF JobInv

LEMMA CancelJobOK ==
  ASSUME JobInv, CancelJob
  PROVE  JobInv' /\ (~met => Stays)
  <1> PICK open, ts :
        /\ open = {t \in Tasks : db.task[t] \notin TaskTerminal}
        /\ ts = [t \in Tasks |-> IF t \in open THEN "cancelled" ELSE db.task[t]]
    OBVIOUS
  <1>1. /\ pass.pc = "idle" /\ db.job \in {"queued", "running", "paused"}
        /\ db' = [db EXCEPT !.job = "cancelled", !.task = ts]
        /\ hint' = hint \cup ({db.link[t] : t \in open} \ {NoGen})
        /\ UNCHANGED <<gens, shot, made, pass, call, calls, aborts, met>>
    BY DEF CancelJob
  <1>2. /\ db'.job = "cancelled" /\ db'.task = ts /\ db'.link = db.link
        /\ ts \in [Tasks -> TaskStatus] /\ db' \in Columns
    BY <1>1, PassTypes DEF Columns, JobStatus, TaskStatus, TaskTerminal
  <1>3. \A t \in Tasks : ts[t] \in TaskTerminal /\ (ts[t] = "completed" <=> db.task[t] = "completed")
    BY DEF TaskTerminal
  <1>4. hint' \subseteq Gens
    <2>1. \A t \in open : db.link[t] \in Gens \cup {NoGen}
      BY PassTypes, ColumnFacts
    <2> QED  BY <1>1, <2>1 DEF JobInv, TypeOK
  <1>5. TypeOK' /\ met' \in BOOLEAN
    BY <1>1, <1>2, <1>4 DEF JobInv, TypeOK
  <1>6. RowsOK' /\ SessionsLink'
    BY <1>1, <1>2 DEF JobInv, RowsOK, SessionsLink, LinksOK
  <1>7. ASSUME ~met
        PROVE  CallsOK' /\ PassOK' /\ OutputsOK(db)' /\ EndedJobHasNoOpenTask' /\ Stays
    <2>1. CallsOK'
      BY <1>1, <1>7, NoRetry, CallsStay
    <2>2. PassOK'
      BY <1>1 DEF PassOK
    <2>3. OutputsOK(db)'
      BY <1>1, <1>2, <1>3, <1>7 DEF JobInv, SafeOK, OutputsOK
    <2>4. EndedJobHasNoOpenTask' /\ Stays
      BY <1>2, <1>3 DEF EndedJobHasNoOpenTask, Stays
    <2> QED  BY <2>1, <2>2, <2>3, <2>4
  <1>8. SafeOK' /\ (~met => Stays)
    BY <1>1, <1>7 DEF SafeOK
  <1> QED  BY <1>5, <1>6, <1>8 DEF JobInv

-----------------------------------------------------------------------------
(* The queue, and restarts.                                                *)

\* Rows move; what is completed stays completed.
LEMMA QueueStep ==
  ASSUME JobInv, UNCHANGED <<db, shot, made, pass, call, calls, aborts, met>>, pass.pc = "idle",
         NEW g \in Gens, gens[g] \in InFlight, NEW to \in GenStatus \ {"absent"},
         gens' = [gens EXCEPT ![g] = to], hint' \subseteq Gens
  PROVE  JobInv'
  <1>1. \A x : OutputsOK(x) => OutputsOK(x)'
    BY DEF OutputsOK, InFlight, JobInv, TypeOK
  <1>2. TypeOK' /\ met' \in BOOLEAN
    BY DEF JobInv, TypeOK
  <1>3. RowsOK' /\ SessionsLink'
    BY DEF JobInv, TypeOK, RowsOK, SessionsLink, LinksOK, InFlight
  <1>4. SafeOK'
    <2> SUFFICES ASSUME ~met  PROVE CallsOK' /\ PassOK' /\ OutputsOK(db)' /\ EndedJobHasNoOpenTask'
      BY DEF SafeOK
    <2>1. CallsOK'
      BY CallsStay
    <2>2. PassOK'
      BY DEF PassOK
    <2>3. OutputsOK(db)'
      <3> PICK x : x = db
        OBVIOUS
      <3>1. OutputsOK(x)'
        BY <1>1 DEF JobInv, SafeOK
      <3> QED  BY <3>1 DEF OutputsOK
    <2>4. EndedJobHasNoOpenTask'
      BY DEF JobInv, SafeOK, EndedJobHasNoOpenTask
    <2> QED  BY <2>1, <2>2, <2>3, <2>4
  <1> QED  BY <1>2, <1>3, <1>4 DEF JobInv

LEMMA QueueOK ==
  ASSUME JobInv, NEW g \in Gens, Claimed(g) \/ Requeued(g) \/ RowEnds(g) \/ UserStops(g)
  PROVE  JobInv'
  <1>1. hint' \subseteq Gens
    BY DEF Claimed, Requeued, RowEnds, UserStops, Delivered, Failed, Stopped, JobInv, TypeOK
  <1>2. \E to \in GenStatus \ {"absent"}, from \in SUBSET InFlight : Moves(g, from, to)
    <2>1. \A x \in InFlight : {x} \in SUBSET InFlight
      OBVIOUS
    <2>2. {"queued"} \in SUBSET InFlight /\ {"running"} \in SUBSET InFlight /\ {"running", "cancelling"} \in SUBSET InFlight
      BY DEF InFlight
    <2>3. {"running", "queued", "completed", "failed", "cancelled", "cancelling"} \subseteq GenStatus \ {"absent"}
      BY DEF GenStatus, InFlight
    <2> QED  BY <2>2, <2>3 DEF Claimed, Requeued, RowEnds, UserStops, Delivered, Failed, Stopped
  <1>3. PICK to \in GenStatus \ {"absent"}, from \in SUBSET InFlight : Moves(g, from, to)
    BY <1>2
  <1> QED  BY <1>1, <1>3, QueueStep DEF Moves

LEMMA UserGeneratesOK ==
  ASSUME JobInv, NEW t \in Tasks, UserGenerates(t)
  PROVE  JobInv'
  <1>1. /\ made + 1 \in Gens /\ gens' = [gens EXCEPT ![made + 1] = "queued"]
        /\ shot' = [shot EXCEPT ![made + 1] = t] /\ made' = made + 1
        /\ UNCHANGED <<db, hint, pass, call, calls, aborts, met>>
    BY DEF UserGenerates
  <1>2. /\ gens' \in [Gens -> GenStatus] /\ shot' \in [Gens -> Tasks] /\ made' \in 0..NumGen /\ RowsOK'
        /\ \A x \in Columns : LinksOK(x) => LinksOK(x)' /\ (OutputsOK(x) => OutputsOK(x)')
    BY <1>1, RowIsAdded
  <1>3. TypeOK' /\ met' \in BOOLEAN
    BY <1>1, <1>2 DEF JobInv, TypeOK
  <1> PICK d, s, b : d = db /\ s = pass.seen /\ b = pass.base
    OBVIOUS
  <1>4. /\ LinksOK(d)' /\ LinksOK(s)'
        /\ OutputsOK(d) => OutputsOK(d)'
        /\ OutputsOK(s) => OutputsOK(s)'
    BY <1>2, PassTypes
  <1>5. LinksOK(db)' /\ LinksOK(pass.seen)'
    BY <1>1, <1>4 DEF LinksOK
  <1>6. SessionsLink'
    <2>1. ASSUME NEW h \in Threads  PROVE LinksOK(call[h].seen)'
      <3> PICK x : x = call[h].seen
        OBVIOUS
      <3>1. LinksOK(x)' /\ call'[h].seen = x
        BY <1>1, <1>2, CallTypes
      <3> QED  BY <3>1 DEF LinksOK
    <2> QED  BY <1>5, <2>1 DEF SessionsLink
  <1>7. ASSUME ~met
        PROVE  CallsOK' /\ PassOK' /\ OutputsOK(db)' /\ EndedJobHasNoOpenTask'
    <2>1. CallsOK'
      BY <1>1, <1>7, CallsStay
    <2>2. PassOK /\ OutputsOK(d) /\ EndedJobHasNoOpenTask
      BY <1>7 DEF JobInv, SafeOK
    <2>3. OutputsOK(db)'
      BY <1>1, <1>4, <2>2 DEF OutputsOK
    <2>4. pass.pc = "tasks" => OutputsOK(pass.seen)'
      <3>1. pass.pc = "tasks" => OutputsOK(s)'
        BY <1>4, <2>2 DEF PassOK
      <3> QED  BY <1>1, <3>1 DEF OutputsOK
    <2>5. PassOK'
      BY <1>1, <1>5, <2>2, <2>4 DEF PassOK, SameTasks, Ended
    <2>6. EndedJobHasNoOpenTask'
      BY <1>1, <2>2 DEF EndedJobHasNoOpenTask
    <2> QED  BY <2>1, <2>3, <2>5, <2>6
  <1>8. SafeOK'
    BY <1>1, <1>7 DEF SafeOK
  <1> QED  BY <1>2, <1>3, <1>6, <1>8 DEF JobInv

LEMMA RestartOK ==
  ASSUME JobInv, Restart
  PROVE  JobInv'
  <1>1. /\ aborts' = aborts + 1 /\ aborts < MaxAborts /\ pass' = NoPass /\ hint' = {}
        /\ call' = [h \in Threads |-> NoCall] /\ UNCHANGED <<db, gens, shot, made, calls, met>>
    BY DEF Restart
  <1>2. TypeOK' /\ met' \in BOOLEAN
    <2>1. aborts' \in 0..MaxAborts
      BY <1>1, PassTypes
    <2>2. pass' \in PassRecord /\ call' \in [Threads -> CallRecord]
      BY <1>1, PassFacts, CallFacts
    <2> QED  BY <1>1, <2>1, <2>2 DEF JobInv, TypeOK, PassRecord, CallRecord
  <1>3. RowsOK' /\ SessionsLink'
    BY <1>1, NewJobFacts DEF JobInv, RowsOK, SessionsLink, LinksOK
  <1>4. \A h \in Threads : CallOK(h)' /\ RetryOK(h)'
    BY <1>1, NewJobFacts DEF CallOK, RetryOK, Retrying, Active
  <1>5. PassOK'
    BY <1>1, NewJobFacts DEF PassOK
  <1>6. SafeOK'
    BY <1>1, <1>4, <1>5 DEF JobInv, SafeOK, CallsOK, OutputsOK, EndedJobHasNoOpenTask
  <1> QED  BY <1>2, <1>3, <1>6 DEF JobInv

LEMMA InitOK ==
  ASSUME Init
  PROVE  JobInv
  <1> USE DEF Init
  <1>1. TypeOK /\ met \in BOOLEAN
    <2>1. 1 \in Tasks /\ 0 \in 0..NumGen /\ 0 \in 0..MaxCalls /\ 0 \in 0..MaxAborts
      BY DEF Tasks
    <2> QED  BY <2>1, NewJobFacts, PassFacts, CallFacts DEF TypeOK, GenStatus, PassRecord, CallRecord
  <1>2. RowsOK /\ SessionsLink
    BY NewJobFacts DEF RowsOK, Gens, SessionsLink
  <1>3. SafeOK
    BY NewJobFacts DEF SafeOK, CallsOK, CallOK, RetryOK, Retrying, Active, PassOK, EndedJobHasNoOpenTask
  <1> QED  BY <1>1, <1>2, <1>3 DEF JobInv

LEMMA StutterOK ==
  ASSUME JobInv, UNCHANGED vars
  PROVE  JobInv'
  <1> USE DEF vars, queue
  <1>1. TypeOK' /\ met' \in BOOLEAN /\ RowsOK' /\ SessionsLink'
    BY DEF JobInv, TypeOK, RowsOK, SessionsLink, LinksOK
  <1>2. SafeOK'
    <2> SUFFICES ASSUME ~met  PROVE CallsOK' /\ PassOK' /\ OutputsOK(db)' /\ EndedJobHasNoOpenTask'
      BY DEF SafeOK
    <2>1. CallsOK'
      BY CallsStay
    <2>2. PassOK'
      BY DEF JobInv, SafeOK, PassOK, SameTasks, LinksOK, OutputsOK, Ended
    <2>3. OutputsOK(db)' /\ EndedJobHasNoOpenTask'
      BY DEF JobInv, SafeOK, OutputsOK, EndedJobHasNoOpenTask
    <2> QED  BY <2>1, <2>2, <2>3
  <1> QED  BY <1>1, <1>2 DEF JobInv

-----------------------------------------------------------------------------
(* The theorems.                                                           *)

LEMMA StepOK == JobInv /\ [Next]_vars => JobInv' /\ (~met => Stays)
  <1> SUFFICES ASSUME JobInv, [Next]_vars  PROVE JobInv' /\ (~met => Stays)
    OBVIOUS
  <1>1. db' = db => Stays
    BY DEF Stays
  <1>2. CASE PassSteps
    <2>1. CASE PassLoadsJob
      BY <2>1, <1>1, PassLoadsJobOK DEF PassLoadsJob
    <2>2. CASE PassLoadsTasks
      BY <2>2, <1>1, PassLoadsTasksOK DEF PassLoadsTasks
    <2>3. CASE PassReflects
      BY <2>3, <1>1, PassReflectsOK DEF PassReflects
    <2>4. CASE PassIsRefused
      BY <2>4, <1>1, PassIsRefusedOK DEF PassIsRefused
    <2> QED  BY <1>2, <2>1, <2>2, <2>3, <2>4, PassCreatesOK, PassEndsOK DEF PassSteps
  <1>3. CASE PassAborts
    BY <1>3, <1>1, PassAbortsOK DEF PassAborts
  <1>4. ASSUME NEW h \in Threads,
               (\E op \in {"pause", "resume", "retry"} : CallLoadsJob(h, op)) \/ CallLoadsTasks(h) \/ CallCommits(h)
        PROVE  JobInv' /\ (~met => Stays)
    <2>1. ASSUME NEW op \in {"pause", "resume", "retry"}, CallLoadsJob(h, op)
          PROVE  JobInv' /\ (~met => Stays)
      BY <2>1, <1>1, CallLoadsJobOK DEF CallLoadsJob
    <2>2. CASE CallLoadsTasks(h)
      BY <2>2, <1>1, CallLoadsTasksOK DEF CallLoadsTasks
    <2> QED  BY <1>4, <2>1, <2>2, CallCommitsOK
  <1>5. ASSUME NEW g \in Gens, Claimed(g) \/ Requeued(g) \/ RowEnds(g) \/ UserStops(g)
        PROVE  JobInv' /\ (~met => Stays)
    <2>1. db' = db
      BY <1>5 DEF Claimed, Requeued, RowEnds, UserStops, Delivered, Failed, Stopped, Moves
    <2> QED  BY <1>1, <1>5, <2>1, QueueOK
  <1>6. ASSUME NEW t \in Tasks, UserGenerates(t)
        PROVE  JobInv' /\ (~met => Stays)
    BY <1>1, <1>6, UserGeneratesOK DEF UserGenerates
  <1>7. CASE Restart
    BY <1>1, <1>7, RestartOK DEF Restart
  <1>8. CASE UNCHANGED vars
    BY <1>1, <1>8, StutterOK DEF vars
  <1> QED  BY <1>2, <1>3, <1>4, <1>5, <1>6, <1>7, <1>8, CancelJobOK DEF Next

(* The rows, the pass and the requests agree in every reachable state.     *)
THEOREM JobInvariant == Spec => []JobInv
  <1>1. JobInv /\ [Next]_vars => JobInv'
    BY StepOK
  <1> QED  BY <1>1, InitOK, PTL DEF Spec

(* Every variable keeps its type.                                          *)
THEOREM JobTypeCorrect == Spec => []TypeOK
  <1>1. JobInv => TypeOK
    BY DEF JobInv
  <1> QED  BY <1>1, JobInvariant, PTL

(* A task is completed by the output of a row of its own shot.             *)
THEOREM CompletedHasItsOutput == Spec => []CompletedByItsRow
  <1>1. JobInv => CompletedByItsRow
    BY DEF JobInv, SafeOK, SessionsLink, LinksOK, OutputsOK, CompletedByItsRow
  <1> QED  BY <1>1, JobInvariant, PTL

(* A completed or cancelled job leaves no task behind.                     *)
THEOREM EndedJobsAreDone == Spec => []EndedJobHasNoOpenTask
  <1>1. JobInv => EndedJobHasNoOpenTask
    BY DEF JobInv, SafeOK, EndedJobHasNoOpenTask
  <1> QED  BY <1>1, JobInvariant, PTL

(* No pass, request, crash or session that writes back loses a completed   *)
(* task.                                                                   *)
THEOREM CompletedIsKept == Spec => CompletedTasksStay
  <1>1. JobInv /\ [Next]_vars => [~met' => \A t \in Tasks : db.task[t] = "completed" => db'.task[t] = "completed"]_vars
    <2> SUFFICES ASSUME JobInv, [Next]_vars, ~met', Next
                 PROVE  \A t \in Tasks : db.task[t] = "completed" => db'.task[t] = "completed"
      OBVIOUS
    <2>1. CASE ~met
      BY <2>1, StepOK DEF Stays
    <2>2. CASE met
      <3>1. met'
        BY <2>2 DEF Next, PassSteps, PassLoadsJob, PassLoadsTasks, PassReflects, PassCreates, PassIsRefused, PassEnds,
                    PassAborts, CallLoadsJob, CallLoadsTasks, CallCommits, CancelJob, Claimed, Requeued, RowEnds,
                    UserStops, Delivered, Failed, Stopped, Moves, UserGenerates, Restart
      <3> QED  BY <3>1
    <2> QED  BY <2>1, <2>2
  <1> QED  BY <1>1, JobInvariant, PTL DEF Spec, CompletedTasksStay

-----------------------------------------------------------------------------
(* StoryTree.                                                              *)
HIDE JobAssumption

\* The requests a thread can have under way.
Requests ==
       [op : {"create"}, row : Rows \ Projects, n : Nat]
  \cup [op : {"delete", "restore"}, row : Rows, rows : SUBSET Rows]
  \cup [op : {"reorder"}, row : Scenes, order : Seq(Shots), read : UNION {[S -> Nat] : S \in SUBSET Shots}]

Busy(c) == req[c] # Idle

\* One request at a time: what it has read is still so.
AloneOK == \A c, d \in TreeClients : Busy(c) /\ Busy(d) => c = d

ChildrenIn(r, D) == \A x \in Rows \ Projects : Above[x] \in D /\ IsLive(x) => x \in D \/ (x \in Shots /\ Above[x] = r)

DeleteOK(r, D) ==
  /\ r \in D /\ \A x \in D : IsLive(x)
  /\ \A x \in D \ {r} : x \notin Projects /\ Above[x] \in D
  /\ D # {r} => r \in Projects \cup Episodes
  /\ ChildrenIn(r, D)

RestoreOK(r, D) ==
  /\ IsDeleted(r) /\ RestoreAllowed(r)
  /\ r \in Library => kind[r] = "character"
  /\ D = {r} \cup {x \in Rows : IsDeleted(x) /\ by[x] = r}

RequestOK(q) ==
  /\ q.op = "create" => at[q.row] = Absent /\ IsLive(Above[q.row])
  /\ q.op = "delete" => DeleteOK(q.row, q.rows)
  /\ q.op = "restore" => RestoreOK(q.row, q.rows)
  /\ q.op = "reorder" => \A i \in DOMAIN q.order : IsLive(q.order[i])

RequestsOK == \A c \in TreeClients : RequestOK(req[c])

\* Who removed a row: a call on the row itself, or on its project or episode,
\* which removed the row above it at the same time.
RemovedOK ==
  \A r \in Rows : IsDeleted(r) =>
    \/ by[r] = r
    \/ /\ r \notin Projects /\ by[r] \in Projects \cup Episodes
       /\ at[Above[r]] = at[r] /\ by[Above[r]] = by[r]

TimesOK ==
  /\ \A r \in Rows : at[r] <= clock
  /\ \A r, s \in Rows : IsDeleted(r) /\ at[r] = at[s] => by[r] = by[s]

\* Live rows, and rows removed together, never share a number.
NumbersOK ==
  \A r, s \in Numbered : r # s /\ Above[r] = Above[s] /\ at[r] = at[s] /\ at[r] >= 0 => num[r] # num[s]

TreeOK ==
  ~overlapped => AloneOK /\ RequestsOK /\ RemovedOK /\ TimesOK /\ NumbersOK /\ OnlyKnownOrphans

TreeInv ==
  /\ TreeTypeOK /\ req \in [TreeClients -> Requests \cup {Idle}]
  /\ TreeOK /\ RestoreNeverRaises

USE AboveAssumption, TreeAssumption

-----------------------------------------------------------------------------
(* The tables.                                                             *)

LEMMA TableFacts ==
  /\ \A r \in Rows \ Projects : Above[r] \in Rows
  /\ \A r \in Rows \ Projects : r \in Episodes \/ r \in Scenes \/ r \in Shots \/ r \in Library
  /\ \A r \in Rows \ Projects : Above[r] \in Projects <=> r \in Episodes \cup Library
  /\ \A r \in Rows \ Projects : Above[r] \in Episodes <=> r \in Scenes
  /\ \A r \in Rows \ Projects : Above[r] \in Scenes <=> r \in Shots
  /\ \A r \in Rows \ Projects : Above[r] \in Projects \cup Episodes \cup Scenes
  /\ Numbered = Rows \ (Projects \cup Library)
  BY DEF Rows, Numbered

LEMMA RequestFacts ==
  ASSUME NEW q \in Requests
  PROVE  /\ q # Idle /\ q.op \in {"create", "delete", "restore", "reorder"} /\ q.row \in Rows
         /\ q.op = "create" => q.row \in Rows \ Projects /\ q.n \in Nat
         /\ q.op \in {"delete", "restore"} => q.rows \subseteq Rows
         /\ q.op = "reorder" => /\ q.row \in Scenes /\ DOMAIN q.order \subseteq Nat
                                /\ \A i \in DOMAIN q.order : q.order[i] \in Shots
  <1>1. CASE q \in [op : {"create"}, row : Rows \ Projects, n : Nat]
    BY <1>1 DEF Idle
  <1>2. CASE q \in [op : {"delete", "restore"}, row : Rows, rows : SUBSET Rows]
    BY <1>2 DEF Idle
  <1>3. CASE q \in [op : {"reorder"}, row : Scenes, order : Seq(Shots),
                    read : UNION {[S -> Nat] : S \in SUBSET Shots}]
    BY <1>3 DEF Idle, Rows
  <1> QED  BY <1>1, <1>2, <1>3 DEF Requests

\* A finite set of numbers is bounded: take a smallest set of rows whose
\* numbers are not.
LEMMA NumbersBounded ==
  ASSUME NEW f \in [Rows -> Nat], NEW S \in SUBSET Rows
  PROVE  \E m \in Nat : \A r \in S : f[r] <= m
  <1> DEFINE Unbounded == {T \in SUBSET Rows : \A m \in Nat : \E r \in T : f[r] > m}
             R == StrictSubsetOrdering(Rows)
  <1>1. CASE Unbounded # {}
    <2>1. IsWellFoundedOn(R, FiniteSubsetsOf(Rows))
      BY FS_StrictSubsetOrderingWellFounded
    <2>2. Unbounded \subseteq FiniteSubsetsOf(Rows)
      BY FS_FiniteSubsetsOfFinite
    <2>3. PICK T \in Unbounded : \A U \in Unbounded : <<U, T>> \notin R
      BY <1>1, <2>1, <2>2, WFMin
    <2>4. PICK x \in T : f[x] > 0
      OBVIOUS
    <2>5. T \ {x} \notin Unbounded
      <3>1. <<T \ {x}, T>> \in R
        BY <2>3, <2>4, FS_FiniteSubsetsOfFinite DEF StrictSubsetOrdering
      <3> QED  BY <3>1, <2>3
    <2>6. PICK m \in Nat : \A r \in T \ {x} : ~(f[r] > m)
      BY <2>5
    <2>7. CASE f[x] <= m
      BY <2>6, <2>7
    <2>8. CASE f[x] > m
      <3>1. f[x] \in Nat
        OBVIOUS
      <3>2. PICK r \in T : f[r] > f[x]
        BY <3>1
      <3> QED  BY <3>1, <3>2, <2>6, <2>8
    <2>9. f[x] \in Nat
      OBVIOUS
    <2> QED  BY <2>6, <2>7, <2>8, <2>9
  <1>2. CASE Unbounded = {}
    <2>1. PICK m \in Nat : \A r \in S : ~(f[r] > m)
      BY <1>2
    <2> QED  BY <2>1
  <1> QED  BY <1>1, <1>2

LEMMA LargestNumber ==
  ASSUME NEW f \in [Rows -> Nat], NEW S \in SUBSET Rows
  PROVE  Max({f[s] : s \in S} \cup {0}) \in Nat
  <1> DEFINE N == {f[s] : s \in S} \cup {0}
  <1>1. PICK m \in Nat : \A r \in S : f[r] <= m
    BY NumbersBounded
  <1>2. N \subseteq 0 .. m /\ N # {}
    BY <1>1
  <1> HIDE DEF N
  <1> DEFINE T == {m - x : x \in N}
  <1>3. T \subseteq Nat /\ T # {}
    <2>1. \A x \in N : m - x \in Nat
      BY <1>2
    <2>2. PICK x \in N : TRUE
      BY <1>2
    <2>3. m - x \in T
      BY <2>2
    <2> QED  BY <2>1, <2>3
  <1>4. PICK k \in T : \A y \in T : <<y, k>> \notin OpToRel(<, Nat)
    BY <1>3, NatLessThanWellFounded, WFMin
  <1>5. ASSUME NEW y \in T  PROVE y >= k
    <2>1. y \in Nat /\ k \in Nat
      BY <1>3, <1>4
    <2>2. CASE y < k
      <3>1. <<y, k>> \in OpToRel(<, Nat)
        BY <2>1, <2>2 DEF OpToRel
      <3> QED  BY <3>1, <1>4
    <2> QED  BY <2>1, <2>2
  <1>6. PICK x \in N : k = m - x
    BY <1>4
  <1>7. ASSUME NEW y \in N  PROVE x >= y
    <2>1. m - y \in T
      OBVIOUS
    <2>2. m - y >= m - x
      BY <2>1, <1>5, <1>6
    <2>3. x \in Nat /\ y \in Nat /\ m \in Nat
      BY <1>2
    <2> QED  BY <2>2, <2>3
  <1>8. Max(N) \in N
    BY <1>7 DEF Max
  <1> QED  BY <1>8, <1>2 DEF N

LEMMA NextNumberType ==
  ASSUME TreeTypeOK, NEW r \in Rows
  PROVE  NextNumber(r) \in Nat
  <1>1. num \in [Rows -> Nat] /\ LiveUnder(r) \in SUBSET Rows
    BY DEF TreeTypeOK, LiveUnder
  <1>2. Max({num[s] : s \in LiveUnder(r)} \cup {0}) \in Nat
    BY <1>1, LargestNumber
  <1> QED  BY <1>2 DEF NextNumber

-----------------------------------------------------------------------------
(* Beginning a request.                                                    *)

LEMMA Beginning ==
  ASSUME TreeInv, NEW c \in TreeClients, NEW q \in Requests, ~overlapped => RequestOK(q),
         Begin(c, q), UNCHANGED <<at, kind, num, clock>>
  PROVE  TreeInv'
  <1> USE DEF Begin
  <1>1. req' = [req EXCEPT ![c] = q] /\ req[c] = Idle /\ q # Idle /\ q.row \in Rows
    BY RequestFacts
  <1>2. req' \in [TreeClients -> Requests \cup {Idle}]
    BY <1>1 DEF TreeInv
  <1>3. TreeTypeOK'
    <2>1. by' \in [Rows -> Rows \cup {NoRow}] /\ raised' \subseteq {"create", "restore", "reorder"} /\ overlapped' \in BOOLEAN
      <3>1. CASE overlapped' = TRUE /\ by' = [r \in Rows |-> NoRow] /\ raised' = {}
        BY <3>1
      <3>2. CASE UNCHANGED <<overlapped, by, raised>>
        BY <3>2 DEF TreeInv, TreeTypeOK
      <3> QED  BY <3>1, <3>2
    <2>2. \A d \in TreeClients : req'[d] = Idle
             \/ (req'[d].op \in {"create", "delete", "restore", "reorder"} /\ req'[d].row \in Rows)
      BY <1>2, RequestFacts
    <2> QED  BY <2>1, <2>2 DEF TreeInv, TreeTypeOK
  <1>4. RestoreNeverRaises'
    BY DEF TreeInv, RestoreNeverRaises
  <1>5. ASSUME ~overlapped'  PROVE TreeOK'
    <2>1. ~overlapped /\ by' = by /\ \A d \in TreeClients \ {c} : req[d] = Idle
      BY <1>5 DEF TreeInv, TreeTypeOK
    <2>2. \A d \in TreeClients : req'[d] = IF d = c THEN q ELSE Idle
      BY <1>1, <2>1 DEF TreeInv
    <2>3. AloneOK'
      BY <2>2 DEF AloneOK, Busy
    <2>4. \A d \in TreeClients : RequestOK(req'[d])
      BY <2>1, <2>2 DEF RequestOK, Idle
    <2>5. RequestsOK'
      BY <2>1, <2>4 DEF RequestsOK, RequestOK, DeleteOK, RestoreOK, RestoreAllowed, ChildrenIn, IsLive,
                        IsDeleted, Siblings
    <2> QED
      BY <2>1, <2>3, <2>5 DEF TreeInv, TreeOK, RemovedOK, TimesOK, NumbersOK, OnlyKnownOrphans, IsLive, IsDeleted
  <1> QED  BY <1>2, <1>3, <1>4, <1>5 DEF TreeInv, TreeOK

LEMMA BeginsCreate ==
  ASSUME TreeInv, NEW c \in TreeClients, NEW r \in Rows \ Projects, NEW N \in SUBSET Nat, Creates(c, r, N)
  PROVE  TreeInv'
  <1>1. PICK n \in N : Begin(c, [op |-> "create", row |-> r, n |-> n])
    BY DEF Creates
  <1> PICK q : q = [op |-> "create", row |-> r, n |-> n]
    OBVIOUS
  <1>2. q \in Requests
    BY DEF Requests
  <1>3. RequestOK(q)
    BY DEF Creates, RequestOK
  <1> QED  BY <1>1, <1>2, <1>3, Beginning DEF Creates

LEMMA BeginsDelete ==
  ASSUME TreeInv, NEW c \in TreeClients, NEW r \in Rows, NEW below \in SUBSET Rows, Deletes(c, r, below),
         DeleteOK(r, {r} \cup below)
  PROVE  TreeInv'
  <1> PICK q : q = [op |-> "delete", row |-> r, rows |-> {r} \cup below]
    OBVIOUS
  <1>1. q \in Requests
    BY DEF Requests
  <1>2. RequestOK(q)
    BY DEF RequestOK
  <1>3. Begin(c, q)
    BY DEF Deletes
  <1> QED  BY <1>1, <1>2, <1>3, Beginning DEF Deletes

LEMMA BeginsRestore ==
  ASSUME TreeInv, NEW c \in TreeClients, NEW r \in Rows, NEW below \in SUBSET Rows, Restores(c, r, below),
         ~overlapped => RestoreOK(r, {r} \cup below)
  PROVE  TreeInv'
  <1> PICK q : q = [op |-> "restore", row |-> r, rows |-> {r} \cup below]
    OBVIOUS
  <1>1. q \in Requests
    BY DEF Requests
  <1>2. ~overlapped => RequestOK(q)
    BY DEF RequestOK
  <1>3. Begin(c, q)
    BY DEF Restores
  <1> QED  BY <1>1, <1>2, <1>3, Beginning DEF Restores

LEMMA BeginsReorder ==
  ASSUME TreeInv, NEW c \in TreeClients, NEW s \in Scenes, BeginReorder(c, s)
  PROVE  TreeInv'
  <1>1. LiveUnder(s) \subseteq Shots /\ IsFiniteSet(LiveUnder(s))
    <2>1. LiveUnder(s) \subseteq Shots
      BY TableFacts DEF LiveUnder
    <2> QED  BY <2>1, FS_Subset DEF Rows
  <1>2. Cardinality(LiveUnder(s)) \in Nat
    BY <1>1, FS_CardinalityType
  <1>3. PICK order \in SetToSeqs(LiveUnder(s)) :
          Begin(c, [op |-> "reorder", row |-> s, order |-> order, read |-> [h \in LiveUnder(s) |-> num[h]]])
    BY DEF BeginReorder
  <1>4. order \in [1 .. Cardinality(LiveUnder(s)) -> LiveUnder(s)]
    BY DEF SetToSeqs
  <1>5. order \in Seq(Shots)
    BY <1>1, <1>2, <1>4
  <1>6. [h \in LiveUnder(s) |-> num[h]] \in UNION {[S -> Nat] : S \in SUBSET Shots}
    <2>1. [h \in LiveUnder(s) |-> num[h]] \in [LiveUnder(s) -> Nat]
      BY DEF TreeInv, TreeTypeOK, LiveUnder
    <2> QED  BY <2>1, <1>1
  <1> PICK q : q = [op |-> "reorder", row |-> s, order |-> order, read |-> [h \in LiveUnder(s) |-> num[h]]]
    OBVIOUS
  <1>7. q \in Requests
    BY <1>5, <1>6 DEF Requests
  <1>8. RequestOK(q)
    BY <1>4 DEF RequestOK, LiveUnder
  <1> QED  BY <1>3, <1>7, <1>8, Beginning DEF BeginReorder

\* What the cascades take.
LEMMA CascadeFacts ==
  ASSUME NEW r \in Rows, IsLive(r)
  PROVE  /\ r \in Projects => DeleteOK(r, {r} \cup ProjectCascade(r)) /\ ProjectCascade(r) \subseteq Rows
         /\ r \in Episodes => DeleteOK(r, {r} \cup EpisodeCascade(r)) /\ EpisodeCascade(r) \subseteq Rows
         /\ r \in Scenes \cup Shots \cup Library => DeleteOK(r, {r} \cup {})
  <1>1. ASSUME r \in Episodes
        PROVE  DeleteOK(r, {r} \cup EpisodeCascade(r)) /\ EpisodeCascade(r) \subseteq Rows
    <2>1. \A x : x \in EpisodeCascade(r) <=>
            /\ x \in Rows \ Projects /\ IsLive(x)
            /\ Above[x] = r \/ Above[x] \in LiveUnder(r)
      BY <1>1, TableFacts DEF EpisodeCascade, LiveUnder
    <2> QED  BY <1>1, <2>1, TableFacts DEF DeleteOK, ChildrenIn, LiveUnder
  <1>2. ASSUME r \in Projects
        PROVE  DeleteOK(r, {r} \cup ProjectCascade(r)) /\ ProjectCascade(r) \subseteq Rows
    <2>1. \A e, x : x \in EpisodeCascade(e) <=>
            /\ x \in Rows \ Projects /\ IsLive(x)
            /\ Above[x] = e \/ Above[x] \in LiveUnder(e)
      BY DEF EpisodeCascade, LiveUnder
    <2>2. \A x : x \in ProjectCascade(r) <=>
            x \in LiveUnder(r) \/ \E e \in LiveUnder(r) \cap Episodes : x \in EpisodeCascade(e)
      BY DEF ProjectCascade
    <2>3. \A x \in Rows \ Projects : IsLive(x) /\ Above[x] = r => x \in ProjectCascade(r)
      BY <2>2 DEF LiveUnder
    <2>4. \A x \in Rows \ Projects : IsLive(x) /\ Above[x] \in ProjectCascade(r) => x \in ProjectCascade(r)
      <3> TAKE x \in Rows \ Projects
      <3> HAVE IsLive(x) /\ Above[x] \in ProjectCascade(r)
      <3>1. CASE Above[x] \in LiveUnder(r)
        <4>1. Above[x] \in Episodes
          BY <3>1, TableFacts, <1>2 DEF LiveUnder
        <4> QED  BY <3>1, <4>1, <2>1, <2>2
      <3>2. CASE \E e \in LiveUnder(r) \cap Episodes : Above[x] \in EpisodeCascade(e)
        <4>1. PICK e \in LiveUnder(r) \cap Episodes : Above[x] \in EpisodeCascade(e)
          BY <3>2
        <4>2. CASE Above[Above[x]] = e
          BY <4>1, <4>2, <2>1, <2>2 DEF LiveUnder
        <4>3. CASE Above[Above[x]] \in LiveUnder(e)
          <5>1. Above[Above[x]] \in Scenes /\ Above[x] \in Rows \ Projects
            BY <4>1, <4>3, TableFacts, <2>1 DEF LiveUnder
          <5>2. Above[x] \in Shots
            BY <5>1, TableFacts
          <5> QED  BY <5>2, TableFacts
        <4> QED  BY <4>1, <4>2, <4>3, <2>1
      <3> QED  BY <3>1, <3>2, <2>2
    <2>5. \A x \in ProjectCascade(r) : /\ x \in Rows \ Projects /\ IsLive(x)
                                       /\ Above[x] \in ProjectCascade(r) \cup {r}
      <3> TAKE x \in ProjectCascade(r)
      <3>1. CASE x \in LiveUnder(r)
        BY <3>1 DEF LiveUnder
      <3>2. CASE \E e \in LiveUnder(r) \cap Episodes : x \in EpisodeCascade(e)
        <4>1. PICK e \in LiveUnder(r) \cap Episodes : x \in EpisodeCascade(e)
          BY <3>2
        <4>2. e \in ProjectCascade(r)
          BY <2>2
        <4>3. CASE Above[x] = e
          BY <4>1, <4>2, <4>3, <2>1
        <4>4. CASE Above[x] \in LiveUnder(e)
          <5>1. Above[x] \in EpisodeCascade(e)
            BY <4>4, <2>1 DEF LiveUnder
          <5> QED  BY <4>1, <5>1, <2>1, <2>2
        <4> QED  BY <4>1, <4>3, <4>4, <2>1
      <3> QED  BY <3>1, <3>2, <2>2
    <2>6. ChildrenIn(r, {r} \cup ProjectCascade(r))
      BY <2>3, <2>4 DEF ChildrenIn
    <2> QED  BY <1>2, <2>5, <2>6 DEF DeleteOK
  <1>3. ASSUME r \in Scenes \cup Shots \cup Library
        PROVE  DeleteOK(r, {r} \cup {})
    <2>1. \A x \in Rows \ Projects : Above[x] = r => x \in Shots
      BY <1>3, TableFacts
    <2> QED  BY <2>1 DEF DeleteOK, ChildrenIn
  <1> QED  BY <1>1, <1>2, <1>3

\* What the revivals bring back: a row goes with the call that removed the row
\* above it exactly when both went at the same time.
LEMMA RemovedTogether ==
  ASSUME TreeInv, ~overlapped, NEW r \in Rows, IsDeleted(r), by[r] = r,
         NEW x \in Rows \ Projects, x # r
  PROVE  IsDeleted(x) /\ by[x] = r <=>
           /\ at[x] = at[r]
           /\ Above[x] = r \/ (IsDeleted(Above[x]) /\ by[Above[x]] = r)
  BY TableFacts DEF TreeInv, TreeTypeOK, TreeOK, RemovedOK, TimesOK, IsDeleted

LEMMA RemovedAlone ==
  ASSUME TreeInv, ~overlapped, NEW r \in Rows \ (Projects \cup Episodes), NEW x \in Rows, IsDeleted(x), by[x] = r
  PROVE  x = r
  BY DEF TreeInv, TreeOK, RemovedOK

\* The restores check that what is above is live: the row went on its own.
LEMMA RestoredAlone ==
  ASSUME TreeInv, ~overlapped, NEW r \in Rows, IsDeleted(r), r \in Projects \/ IsLive(Above[r])
  PROVE  by[r] = r
  BY DEF TreeInv, TreeOK, RemovedOK, IsDeleted, IsLive, Live

LEMMA EpisodeRevivalFacts ==
  ASSUME TreeInv, ~overlapped, NEW r \in Episodes, IsDeleted(r), by[r] = r
  PROVE  {r} \cup EpisodeRevival(r, at[r]) = {r} \cup {x \in Rows : IsDeleted(x) /\ by[x] = r}
  <1>1. r \in Rows /\ at[r] > 0
    BY DEF Rows, IsDeleted
  <1>2. ASSUME NEW x  PROVE x \in EpisodeRevival(r, at[r]) <=>
          x \in Rows \ Projects /\ at[x] = at[r] /\ (Above[x] = r \/ Above[x] \in SharesTime(r, at[r]))
    BY DEF EpisodeRevival, SharesTime
  <1>3. ASSUME NEW x \in Rows \ Projects, Above[x] # r, IsDeleted(x), by[x] = r, x # r
        PROVE  Above[x] \in SharesTime(r, at[r])
    <2>1. at[x] = at[r] /\ IsDeleted(Above[x]) /\ by[Above[x]] = r
      BY <1>1, <1>3, RemovedTogether
    <2>2. Above[x] \in Rows \ Projects
      <3>1. CASE Above[x] \in Projects
        BY <3>1, <2>1, TableFacts DEF TreeInv, TreeOK, RemovedOK
      <3> QED  BY <3>1, TableFacts
    <2>3. at[Above[x]] = at[r]
      BY <1>1, <1>3, <2>1, <2>2, RemovedTogether
    <2>4. CASE Above[x] \in Episodes
      <3>1. Above[Above[x]] \in Projects
        BY <2>4
      <3>2. Above[Above[x]] # r
        BY <3>1
      <3>3. IsDeleted(Above[Above[x]]) /\ by[Above[Above[x]]] = r
        BY <1>1, <1>3, <2>1, <2>2, <3>2, RemovedTogether
      <3> QED  BY <3>1, <3>3, <1>1 DEF TreeInv, TreeOK, RemovedOK, Rows
    <2>5. CASE Above[x] \in Scenes
      <3>1. Above[Above[x]] \in Episodes
        BY <2>5
      <3>2. CASE Above[Above[x]] # r
        <4>1. IsDeleted(Above[Above[x]]) /\ by[Above[Above[x]]] = r
          BY <1>1, <1>3, <2>1, <2>2, <2>5, <3>2, RemovedTogether
        <4> PICK e \in Episodes : e = Above[Above[x]]
          BY <3>1
        <4>2. e \in Rows \ Projects /\ e # r /\ Above[e] \in Projects
          BY <3>2, TableFacts DEF Rows
        <4>3. IsDeleted(Above[e]) /\ by[Above[e]] = r
          BY <1>1, <4>1, <4>2, RemovedTogether
        <4> QED  BY <4>2, <4>3, <1>1 DEF TreeInv, TreeOK, RemovedOK, Rows
      <3> QED  BY <3>2, <2>2, <2>3 DEF SharesTime
    <2> QED  BY <2>4, <2>5, <2>2, TableFacts
  <1>4. ASSUME NEW x \in Rows, IsDeleted(x), by[x] = r, x # r
        PROVE  x \in EpisodeRevival(r, at[r])
    <2>1. x \notin Projects
      BY <1>4 DEF TreeInv, TreeOK, RemovedOK
    <2>2. at[x] = at[r]
      BY <1>1, <1>4, <2>1, RemovedTogether
    <2> QED  BY <2>1, <2>2, <1>2, <1>3, <1>4
  <1>5. ASSUME NEW x \in EpisodeRevival(r, at[r])  PROVE x \in Rows /\ IsDeleted(x) /\ by[x] = r
    <2>1. x \in Rows \ Projects /\ at[x] = at[r] /\ (Above[x] = r \/ Above[x] \in SharesTime(r, at[r]))
      BY <1>2
    <2> QED  BY <1>1, <2>1 DEF TreeInv, TreeOK, TimesOK, IsDeleted
  <1> QED  BY <1>4, <1>5

LEMMA ProjectRevivalFacts ==
  ASSUME TreeInv, ~overlapped, NEW r \in Projects, IsDeleted(r)
  PROVE  {r} \cup ProjectRevival(r, at[r]) = {r} \cup {x \in Rows : IsDeleted(x) /\ by[x] = r}
  <1>1. r \in Rows /\ at[r] > 0 /\ by[r] = r
    BY DEF Rows, IsDeleted, TreeInv, TreeOK, RemovedOK
  <1> DEFINE below == SharesTime(r, at[r])
             episodes == (below \cup LiveUnder(r)) \cap Episodes
             scenes == UNION {SharesTime(e, at[r]) : e \in episodes}
  <1>2. ProjectRevival(r, at[r]) = below \cup scenes \cup UNION {SharesTime(s, at[r]) : s \in scenes}
    BY DEF ProjectRevival
  <1>3. ASSUME NEW x \in ProjectRevival(r, at[r])  PROVE x \in Rows /\ IsDeleted(x) /\ by[x] = r
    <2>1. x \in Rows /\ at[x] = at[r]
      BY <1>2 DEF SharesTime
    <2> QED  BY <1>1, <2>1 DEF TreeInv, TreeOK, TimesOK, IsDeleted
  <1>4. ASSUME NEW x \in Rows \ Projects, IsDeleted(x), by[x] = r
        PROVE  at[x] = at[r] /\ (Above[x] = r \/ (IsDeleted(Above[x]) /\ by[Above[x]] = r))
    BY <1>1, <1>4, RemovedTogether
  <1>5. ASSUME NEW x \in Rows \ Projects, IsDeleted(x), by[x] = r, Above[x] \in Projects
        PROVE  x \in below
    <2>1. Above[x] = r
      BY <1>4, <1>5 DEF TreeInv, TreeOK, RemovedOK, Rows
    <2> QED  BY <2>1, <1>4, <1>5 DEF SharesTime
  <1>6. ASSUME NEW x \in Scenes, IsDeleted(x), by[x] = r
        PROVE  x \in scenes
    <2>1. x \in Rows \ Projects /\ Above[x] \in Episodes /\ Above[x] \in Rows \ Projects /\ Above[Above[x]] \in Projects
      BY DEF Rows
    <2>2. at[x] = at[r] /\ IsDeleted(Above[x]) /\ by[Above[x]] = r
      BY <1>4, <1>6, <2>1
    <2>3. Above[x] \in below
      BY <1>5, <2>1, <2>2
    <2>4. Above[x] \in episodes /\ x \in SharesTime(Above[x], at[r])
      BY <2>1, <2>2, <2>3 DEF SharesTime
    <2> QED  BY <2>4
  <1>7. ASSUME NEW x \in Shots, IsDeleted(x), by[x] = r
        PROVE  \E s \in scenes : x \in SharesTime(s, at[r])
    <2>1. x \in Rows \ Projects /\ Above[x] \in Scenes
      BY DEF Rows
    <2>2. at[x] = at[r] /\ IsDeleted(Above[x]) /\ by[Above[x]] = r
      BY <1>4, <1>7, <2>1
    <2>3. Above[x] \in scenes
      BY <1>6, <2>1, <2>2
    <2> QED  BY <2>1, <2>2, <2>3 DEF SharesTime
  <1>8. ASSUME NEW x \in Rows, IsDeleted(x), by[x] = r, x # r
        PROVE  x \in ProjectRevival(r, at[r])
    <2>1. x \notin Projects
      BY <1>8 DEF TreeInv, TreeOK, RemovedOK
    <2>2. CASE Above[x] \in Projects
      BY <2>1, <2>2, <1>2, <1>5, <1>8
    <2>3. CASE x \in Scenes
      BY <2>3, <1>2, <1>6, <1>8
    <2>4. CASE x \in Shots
      <3>1. \E s \in scenes : x \in SharesTime(s, at[r])
        BY <2>4, <1>7, <1>8
      <3> QED  BY <3>1, <1>2
    <2> QED  BY <2>1, <2>2, <2>3, <2>4, TableFacts
  <1> QED  BY <1>3, <1>8

LEMMA RevivalFacts ==
  ASSUME TreeInv, ~overlapped, NEW r \in Rows, IsDeleted(r), RestoreAllowed(r)
  PROVE  /\ r \in Projects => RestoreOK(r, {r} \cup ProjectRevival(r, at[r]))
         /\ r \in Episodes => RestoreOK(r, {r} \cup EpisodeRevival(r, at[r]))
         /\ r \in Scenes \cup Shots => RestoreOK(r, {r} \cup {})
         /\ r \in Library /\ kind[r] = "character" => RestoreOK(r, {r} \cup {})
  <1>1. r \in Episodes \cup Scenes \cup Shots => by[r] = r
    BY RestoredAlone DEF RestoreAllowed, Numbered
  <1>2. r \notin Projects \cup Episodes => {r} \cup {} = {r} \cup {x \in Rows : IsDeleted(x) /\ by[x] = r}
    BY RemovedAlone
  <1>3. r \in Episodes => {r} \cup EpisodeRevival(r, at[r]) = {r} \cup {x \in Rows : IsDeleted(x) /\ by[x] = r}
    BY <1>1, EpisodeRevivalFacts
  <1>4. r \in Projects => {r} \cup ProjectRevival(r, at[r]) = {r} \cup {x \in Rows : IsDeleted(x) /\ by[x] = r}
    BY ProjectRevivalFacts
  <1> QED  BY <1>2, <1>3, <1>4 DEF RestoreOK

-----------------------------------------------------------------------------
(* Committing a request.                                                   *)

\* After a request that was alone nobody is busy.
LEMMA Ending ==
  ASSUME TreeInv, NEW c \in TreeClients, Busy(c), req' = [req EXCEPT ![c] = Idle], overlapped' = overlapped
  PROVE  /\ req' \in [TreeClients -> Requests \cup {Idle}]
         /\ \A d \in TreeClients : req'[d] = Idle
               \/ (req'[d].op \in {"create", "delete", "restore", "reorder"} /\ req'[d].row \in Rows)
         /\ ~overlapped => AloneOK' /\ RequestsOK'
  <1>1. req' \in [TreeClients -> Requests \cup {Idle}]
    BY DEF TreeInv
  <1>2. \A d \in TreeClients : req'[d] = Idle
               \/ (req'[d].op \in {"create", "delete", "restore", "reorder"} /\ req'[d].row \in Rows)
    BY <1>1, RequestFacts
  <1>3. ASSUME ~overlapped  PROVE \A d \in TreeClients : req'[d] = Idle
    BY <1>3 DEF TreeInv, TreeOK, AloneOK, Busy
  <1>4. ASSUME ~overlapped  PROVE AloneOK'
    BY <1>3, <1>4 DEF AloneOK, Busy
  <1>5. ASSUME ~overlapped  PROVE RequestsOK'
    BY <1>3, <1>5 DEF RequestsOK, RequestOK, Idle
  <1> QED  BY <1>1, <1>2, <1>4, <1>5

LEMMA BusyFacts ==
  ASSUME TreeInv, NEW c \in TreeClients, req[c].op # "idle"
  PROVE  Busy(c) /\ req[c] \in Requests
  BY DEF TreeInv, Busy, Idle

\* A request that raises changes nothing.
LEMMA Raising ==
  ASSUME TreeInv, NEW c \in TreeClients, req[c].op \in {"create", "restore", "reorder"},
         Raise(c), UNCHANGED <<at, num, kind, clock, by, overlapped>>, req' = [req EXCEPT ![c] = Idle],
         ~overlapped => req[c].op # "restore"
  PROVE  TreeInv'
  <1>1. Busy(c)
    BY BusyFacts
  <1>2. TreeTypeOK'
    BY <1>1, Ending DEF TreeInv, TreeTypeOK, Raise
  <1>3. RestoreNeverRaises'
    BY DEF TreeInv, RestoreNeverRaises, Raise
  <1>4. ASSUME ~overlapped  PROVE RemovedOK' /\ TimesOK' /\ NumbersOK' /\ OnlyKnownOrphans'
    <2>1. RemovedOK /\ TimesOK /\ NumbersOK /\ OnlyKnownOrphans
      BY <1>4 DEF TreeInv, TreeOK
    <2>2. RemovedOK' /\ TimesOK' /\ NumbersOK'
      BY <2>1 DEF RemovedOK, TimesOK, NumbersOK, IsDeleted
    <2>3. OnlyKnownOrphans'
      BY <2>1 DEF OnlyKnownOrphans, IsLive
    <2> QED  BY <2>2, <2>3
  <1>5. TreeOK'
    BY <1>1, <1>4, Ending DEF TreeOK
  <1> QED  BY <1>1, <1>2, <1>3, <1>5, Ending DEF TreeInv

LEMMA CommitsCreate ==
  ASSUME TreeInv, NEW c \in TreeClients, CommitCreate(c)
  PROVE  TreeInv'
  <1>1. Busy(c) /\ req[c] \in Requests /\ req[c].op = "create"
    BY BusyFacts DEF CommitCreate
  <1> PICK r \in Rows \ Projects : r = req[c].row
    BY <1>1, RequestFacts
  <1> PICK n \in Nat : n = req[c].n
    BY <1>1, RequestFacts
  <1> PICK a : a = [at EXCEPT ![r] = Live]
    OBVIOUS
  <1> PICK m : m = [num EXCEPT ![r] = n]
    OBVIOUS
  <1>2. /\ IF UniqueIn(a, m) THEN at' = a /\ num' = m /\ UNCHANGED raised
                             ELSE Raise(c) /\ UNCHANGED <<at, num>>
        /\ req' = [req EXCEPT ![c] = Idle] /\ UNCHANGED <<kind, clock, by, overlapped>>
    BY DEF CommitCreate, WriteOrRaise
  <1>3. CASE ~UniqueIn(a, m)
    BY <1>1, <1>2, <1>3, Raising
  <1>4. CASE UniqueIn(a, m)
    <2>1. at' = a /\ num' = m /\ raised' = raised
      BY <1>2, <1>4
    <2>2. /\ \A x \in Rows : at'[x] = IF x = r THEN Live ELSE at[x]
          /\ \A x \in Rows : num'[x] = IF x = r THEN n ELSE num[x]
      BY <2>1 DEF TreeInv, TreeTypeOK
    <2>3. TreeTypeOK'
      BY <1>1, <1>2, <2>1, Ending DEF TreeInv, TreeTypeOK, Live, Absent
    <2>4. ASSUME ~overlapped  PROVE TreeOK'
      <3>1. IsLive(Above[r]) /\ at[r] = Absent
        BY <1>1, <2>4 DEF TreeInv, TreeOK, RequestsOK, RequestOK
      <3>2. RemovedOK'
        <4> SUFFICES ASSUME NEW x \in Rows, IsDeleted(x)'
                     PROVE  by[x] = x \/ (/\ x \notin Projects /\ by[x] \in Projects \cup Episodes
                                          /\ at'[Above[x]] = at'[x] /\ by[Above[x]] = by[x])
          BY <1>2 DEF RemovedOK
        <4>1. x # r /\ IsDeleted(x)
          BY <2>2 DEF IsDeleted, Live
        <4>2. CASE by[x] = x
          BY <4>2
        <4>3. CASE by[x] # x
          <5>1. /\ x \notin Projects /\ by[x] \in Projects \cup Episodes
                /\ at[Above[x]] = at[x] /\ by[Above[x]] = by[x]
            BY <4>1, <4>3, <2>4 DEF TreeInv, TreeOK, RemovedOK
          <5>2. Above[x] # r
            BY <3>1, <4>1, <5>1 DEF IsDeleted, Absent
          <5> QED  BY <2>2, <4>1, <5>1, <5>2, TableFacts
        <4> QED  BY <4>2, <4>3
      <3>3. TimesOK'
        <4>1. TimesOK /\ clock \in Nat /\ at \in [Rows -> Int] /\ clock' = clock /\ by' = by
          BY <1>2, <2>4 DEF TreeInv, TreeTypeOK, TreeOK
        <4>2. ASSUME NEW x \in Rows  PROVE at'[x] <= clock'
          <5>1. CASE x = r
            BY <2>2, <4>1, <5>1 DEF Live
          <5>2. CASE x # r
            BY <2>2, <4>1, <5>2 DEF TimesOK
          <5> QED  BY <5>1, <5>2
        <4>3. ASSUME NEW x \in Rows, NEW y \in Rows, IsDeleted(x)', at'[x] = at'[y]
              PROVE  by'[x] = by'[y]
          <5>1. x # r /\ y # r
            BY <2>2, <4>3 DEF IsDeleted, Live
          <5>2. IsDeleted(x) /\ at[x] = at[y]
            BY <2>2, <4>3, <5>1 DEF IsDeleted
          <5> QED  BY <4>1, <5>2 DEF TimesOK
        <4> QED  BY <4>2, <4>3 DEF TimesOK
      <3>4. NumbersOK'
        <4> SUFFICES ASSUME NEW x \in Numbered, NEW y \in Numbered, x # y, Above[x] = Above[y],
                            at'[x] = at'[y], at'[x] >= 0
                     PROVE  num'[x] # num'[y]
          BY DEF NumbersOK
        <4>1. x \in Rows /\ y \in Rows
          BY DEF Numbered, Rows
        <4>2. CASE at'[x] = Live
          BY <4>2, <1>4, <2>1 DEF UniqueIn
        <4>3. CASE at'[x] # Live
          BY <4>1, <4>3, <2>2, <2>4 DEF TreeInv, TreeOK, NumbersOK
        <4> QED  BY <4>2, <4>3
      <3>5. OnlyKnownOrphans'
        BY <1>2, <2>2, <2>4, <3>1, TableFacts DEF TreeInv, TreeOK, OnlyKnownOrphans, IsLive, Live, Absent
      <3> QED  BY <1>1, <1>2, <2>4, <3>2, <3>3, <3>4, <3>5, Ending DEF TreeOK
    <2>5. TreeOK'
      BY <2>4, <1>2 DEF TreeOK
    <2> QED  BY <1>1, <1>2, <2>1, <2>3, <2>5, Ending DEF TreeInv, RestoreNeverRaises
  <1> QED  BY <1>3, <1>4

LEMMA CommitsDelete ==
  ASSUME TreeInv, NEW c \in TreeClients, CommitDelete(c)
  PROVE  TreeInv'
  <1>1. Busy(c) /\ req[c] \in Requests /\ req[c].op = "delete"
    BY BusyFacts DEF CommitDelete
  <1> PICK r \in Rows : r = req[c].row
    BY <1>1, RequestFacts
  <1> PICK D \in SUBSET Rows : D = req[c].rows
    BY <1>1, RequestFacts
  <1> PICK t : t = clock + 1
    OBVIOUS
  <1>2. /\ t \in 1 .. MaxClock /\ clock' = t /\ UNCHANGED <<kind, num, raised, overlapped>>
        /\ req' = [req EXCEPT ![c] = Idle]
        /\ at' = [x \in Rows |-> IF x \in D THEN t ELSE at[x]]
        /\ by' = [x \in Rows |-> IF x \in D /\ ~overlapped THEN r ELSE by[x]]
    BY DEF CommitDelete, TreeInv, TreeTypeOK
  <1>3. TreeTypeOK'
    <2>1. at' \in [Rows -> Absent .. MaxClock] /\ by' \in [Rows -> Rows \cup {NoRow}] /\ clock' \in 0 .. MaxClock
      BY <1>2 DEF TreeInv, TreeTypeOK, Absent
    <2> QED  BY <1>1, <1>2, <2>1, Ending DEF TreeInv, TreeTypeOK
  <1>4. ASSUME ~overlapped  PROVE TreeOK'
    <2>1. /\ \A x \in Rows : at'[x] = IF x \in D THEN t ELSE at[x]
          /\ \A x \in Rows : by'[x] = IF x \in D THEN r ELSE by[x]
      BY <1>2, <1>4
    <2>2. DeleteOK(r, D)
      BY <1>1, <1>4 DEF TreeInv, TreeOK, RequestsOK, RequestOK
    <2>3. \A x \in Rows : at[x] \in Int /\ at[x] < t
      BY <1>2, <1>4 DEF TreeInv, TreeTypeOK, TreeOK, TimesOK, Absent
    <2>4. RemovedOK'
      <3> SUFFICES ASSUME NEW x \in Rows, IsDeleted(x)'
                   PROVE  by'[x] = x \/ (/\ x \notin Projects /\ by'[x] \in Projects \cup Episodes
                                         /\ at'[Above[x]] = at'[x] /\ by'[Above[x]] = by'[x])
        BY DEF RemovedOK
      <3>1. CASE x \in D
        BY <3>1, <2>1, <2>2, TableFacts DEF DeleteOK
      <3>2. CASE x \notin D
        <4>1. IsDeleted(x)
          BY <3>2, <2>1 DEF IsDeleted
        <4>2. CASE by[x] # x
          <5>1. /\ x \notin Projects /\ by[x] \in Projects \cup Episodes
                /\ at[Above[x]] = at[x] /\ by[Above[x]] = by[x]
            BY <4>1, <4>2, <1>4 DEF TreeInv, TreeOK, RemovedOK
          <5>2. Above[x] \notin D
            BY <4>1, <5>1, <2>2 DEF DeleteOK, IsLive, IsDeleted, Live
          <5> QED  BY <2>1, <3>2, <5>1, <5>2, TableFacts
        <4> QED  BY <4>2, <3>2, <2>1
      <3> QED  BY <3>1, <3>2
    <2>5. TimesOK'
      <3>1. \A x \in Rows : at'[x] <= clock'
        BY <1>2, <2>1, <2>3
      <3>2. \A x, y \in Rows : IsDeleted(x)' /\ at'[x] = at'[y] => by'[x] = by'[y]
        BY <2>1, <2>3, <1>4 DEF TreeInv, TreeOK, TimesOK, IsDeleted
      <3> QED  BY <3>1, <3>2 DEF TimesOK, IsDeleted
    <2>6. NumbersOK'
      <3> SUFFICES ASSUME NEW x \in Numbered, NEW y \in Numbered, x # y, Above[x] = Above[y],
                          at'[x] = at'[y], at'[x] >= 0
                   PROVE  num[x] # num[y]
        BY <1>2 DEF NumbersOK
      <3>1. x \in Rows /\ y \in Rows
        BY DEF Numbered, Rows
      <3>2. CASE x \in D /\ y \in D
        BY <3>1, <3>2, <2>2, <1>4 DEF DeleteOK, IsLive, Live, TreeInv, TreeOK, NumbersOK
      <3>3. CASE x \notin D /\ y \notin D
        BY <3>1, <3>3, <2>1, <1>4 DEF TreeInv, TreeOK, NumbersOK
      <3> QED  BY <3>1, <3>2, <3>3, <2>1, <2>3
    <2>7. OnlyKnownOrphans'
      <3> SUFFICES ASSUME NEW x \in Rows \ Projects, IsLive(x)', ~IsLive(Above[x])'
                   PROVE  (x \in Library /\ kind'[x] = "character") \/ (x \in Shots /\ by'[Above[x]] = Above[x])
        BY DEF OnlyKnownOrphans
      <3>1. x \notin D /\ IsLive(x)
        BY <1>2, <2>1 DEF IsLive, Live
      <3>2. CASE Above[x] \in D
        <4>1. x \in Shots /\ Above[x] = r
          BY <3>1, <3>2, <2>2 DEF DeleteOK, ChildrenIn
        <4> QED  BY <4>1, <3>2, <2>1
      <3>3. CASE Above[x] \notin D
        <4>1. ~IsLive(Above[x]) /\ by'[Above[x]] = by[Above[x]]
          BY <3>3, <2>1, TableFacts DEF IsLive
        <4> QED  BY <1>2, <3>1, <4>1, <1>4 DEF TreeInv, TreeOK, OnlyKnownOrphans
      <3> QED  BY <3>2, <3>3
    <2> QED  BY <1>1, <1>2, <1>4, <2>4, <2>5, <2>6, <2>7, Ending DEF TreeOK
  <1>5. TreeOK'
    BY <1>2, <1>4 DEF TreeOK
  <1> QED  BY <1>1, <1>2, <1>3, <1>5, Ending DEF TreeInv, RestoreNeverRaises

\* What a restore revives has no live sibling with the same number.
LEMMA RevivalIsUnique ==
  ASSUME TreeInv, ~overlapped, NEW r \in Rows, NEW D \in SUBSET Rows, RestoreOK(r, D),
         NEW a, a = [x \in Rows |-> IF x \in D THEN Live ELSE at[x]]
  PROVE  UniqueIn(a, num)
  <1> SUFFICES ASSUME NEW x \in Numbered, NEW y \in Numbered, x # y, Above[x] = Above[y], a[x] = Live, a[y] = Live
               PROVE  num[x] # num[y]
    BY DEF UniqueIn
  <1>1. x \in Rows \ Projects /\ y \in Rows \ Projects /\ x \notin Library /\ y \notin Library
    BY DEF Numbered, Rows
  <1>2. NumbersOK /\ TimesOK /\ RemovedOK /\ OnlyKnownOrphans
    BY DEF TreeInv, TreeOK
  <1>3. CASE x \in D /\ y \in D
    <2>1. ASSUME NEW z \in Rows, z \in D, z # r  PROVE IsDeleted(z) /\ at[z] = at[r]
      <3>1. IsDeleted(z) /\ by[z] = r
        BY <2>1 DEF RestoreOK
      <3>2. z \in Rows \ Projects
        BY <2>1, <3>1, <1>2 DEF RemovedOK
      <3>3. r \in Projects \cup Episodes
        BY <2>1, <3>1, <1>2 DEF RemovedOK
      <3>4. by[r] = r
        BY <3>3, RestoredAlone DEF RestoreOK, RestoreAllowed, Numbered
      <3> QED  BY <2>1, <3>1, <3>2, <3>4, RemovedTogether DEF RestoreOK
    <2>2. at[x] = at[r] /\ at[y] = at[r] /\ at[r] > 0
      BY <1>1, <1>3, <2>1 DEF RestoreOK, IsDeleted
    <2>3. at[r] >= 0
      BY <2>2 DEF TreeInv, TreeTypeOK
    <2> QED  BY <2>2, <2>3, <1>2 DEF NumbersOK
  <1>4. CASE x \notin D /\ y \notin D
    <2>1. at[x] = 0 /\ at[y] = 0
      BY <1>1, <1>4 DEF Live
    <2> QED  BY <2>1, <1>2 DEF NumbersOK
  <1>5. ASSUME NEW u \in Numbered, NEW v \in Numbered, u # v, Above[u] = Above[v], u \in D, v \notin D, a[v] = Live
        PROVE  num[u] # num[v]
    <2>1. u \in Rows \ Projects /\ v \in Rows \ Projects /\ u \notin Library /\ v \notin Library /\ IsLive(v)
      BY <1>5 DEF Numbered, Rows, IsLive
    <2>2. CASE u = r
      BY <2>1, <2>2, <1>5 DEF RestoreOK, RestoreAllowed, Siblings
    <2>3. CASE u # r
      <3>1. IsDeleted(u) /\ by[u] = r
        BY <1>5, <2>3 DEF RestoreOK
      <3>2. r \in Projects \cup Episodes /\ at[Above[u]] = at[u] /\ by[Above[u]] = r
        BY <2>1, <2>3, <3>1, <1>2 DEF RemovedOK
      <3>3. ~IsLive(Above[v])
        BY <1>5, <3>1, <3>2 DEF IsLive, IsDeleted, Live
      <3>4. v \in Shots /\ by[Above[v]] = Above[v]
        BY <2>1, <3>3, <1>2 DEF OnlyKnownOrphans
      <3> QED  BY <3>2, <3>4, <1>5
    <2> QED  BY <2>2, <2>3
  <1> QED  BY <1>3, <1>4, <1>5

LEMMA CommitsRestore ==
  ASSUME TreeInv, NEW c \in TreeClients, CommitRestore(c)
  PROVE  TreeInv'
  <1>1. Busy(c) /\ req[c] \in Requests /\ req[c].op = "restore"
    BY BusyFacts DEF CommitRestore
  <1> PICK r \in Rows : r = req[c].row
    BY <1>1, RequestFacts
  <1> PICK D \in SUBSET Rows : D = req[c].rows
    BY <1>1, RequestFacts
  <1> PICK a : a = [x \in Rows |-> IF x \in D THEN Live ELSE at[x]]
    OBVIOUS
  <1>2. /\ IF UniqueIn(a, num) THEN at' = a /\ num' = num /\ UNCHANGED raised
                               ELSE Raise(c) /\ UNCHANGED <<at, num>>
        /\ req' = [req EXCEPT ![c] = Idle] /\ UNCHANGED <<kind, clock, by, overlapped>>
    BY DEF CommitRestore, WriteOrRaise
  <1>3. ~overlapped => RestoreOK(r, D)
    BY <1>1 DEF TreeInv, TreeOK, RequestsOK, RequestOK
  <1>4. CASE ~UniqueIn(a, num)
    BY <1>1, <1>2, <1>3, <1>4, Raising, RevivalIsUnique
  <1>5. CASE UniqueIn(a, num)
    <2>1. at' = a /\ num' = num /\ raised' = raised
      BY <1>2, <1>5
    <2>2. \A x \in Rows : at'[x] = IF x \in D THEN Live ELSE at[x]
      BY <2>1
    <2>3. TreeTypeOK'
      <3>1. at' \in [Rows -> Absent .. MaxClock]
        BY <2>1 DEF TreeInv, TreeTypeOK, Live, Absent
      <3> QED  BY <1>1, <1>2, <2>1, <3>1, Ending DEF TreeInv, TreeTypeOK
    <2>4. ASSUME ~overlapped  PROVE TreeOK'
      <3>1. RestoreOK(r, D) /\ NumbersOK /\ TimesOK /\ RemovedOK /\ OnlyKnownOrphans
        BY <1>3, <2>4 DEF TreeInv, TreeOK
      <3>2. \A x \in Rows : IsDeleted(x)' <=> IsDeleted(x) /\ x \notin D
        BY <2>2 DEF IsDeleted, Live
      <3>3. RemovedOK'
        <4> SUFFICES ASSUME NEW x \in Rows, IsDeleted(x), x \notin D
                     PROVE  by[x] = x \/ (/\ x \notin Projects /\ by[x] \in Projects \cup Episodes
                                          /\ at'[Above[x]] = at'[x] /\ by[Above[x]] = by[x])
          BY <1>2, <3>2 DEF RemovedOK
        <4>1. CASE by[x] # x
          <5>1. /\ x \notin Projects /\ by[x] \in Projects \cup Episodes
                /\ at[Above[x]] = at[x] /\ by[Above[x]] = by[x]
            BY <4>1, <3>1 DEF RemovedOK
          <5>2. Above[x] \in Rows /\ IsDeleted(Above[x])
            BY <5>1, TableFacts DEF IsDeleted
          <5>3. by[x] # r
            BY <3>1 DEF RestoreOK
          <5>4. CASE Above[x] = r
            <6>1. r \in Projects \/ IsLive(Above[r])
              <7>1. r \notin Library
                BY <5>1, <5>4, TableFacts
              <7> QED  BY <7>1, <3>1, TableFacts DEF RestoreOK, RestoreAllowed
            <6>2. by[r] = r
              BY <6>1, <2>4, <3>1, RestoredAlone DEF RestoreOK
            <6> QED  BY <6>2, <5>1, <5>3, <5>4
          <5>5. CASE Above[x] # r
            <6>1. Above[x] \notin D
              BY <5>1, <5>3, <5>5, <3>1 DEF RestoreOK
            <6> QED  BY <6>1, <2>2, <5>1, <5>2
          <5> QED  BY <5>4, <5>5
        <4> QED  BY <4>1
      <3>4. TimesOK'
        <4>1. \A x \in Rows : at'[x] <= clock'
          BY <1>2, <2>2, <3>1 DEF TimesOK, Live, TreeInv, TreeTypeOK
        <4>2. \A x, y \in Rows : IsDeleted(x)' /\ at'[x] = at'[y] => by'[x] = by'[y]
          BY <1>2, <2>2, <3>1, <3>2 DEF TimesOK, IsDeleted, Live
        <4> QED  BY <4>1, <4>2 DEF TimesOK, IsDeleted
      <3>5. NumbersOK'
        <4> SUFFICES ASSUME NEW x \in Numbered, NEW y \in Numbered, x # y, Above[x] = Above[y],
                            at'[x] = at'[y], at'[x] >= 0
                     PROVE  num[x] # num[y]
          BY <2>1 DEF NumbersOK
        <4>1. x \in Rows /\ y \in Rows
          BY DEF Numbered, Rows
        <4>2. CASE at'[x] = Live
          BY <4>2, <1>5, <2>1 DEF UniqueIn
        <4>3. CASE at'[x] # Live
          BY <4>1, <4>3, <2>2, <3>1 DEF NumbersOK
        <4> QED  BY <4>2, <4>3
      <3>6. OnlyKnownOrphans'
        <4> SUFFICES ASSUME NEW x \in Rows \ Projects, IsLive(x)', ~IsLive(Above[x])'
                     PROVE  (x \in Library /\ kind[x] = "character") \/ (x \in Shots /\ by[Above[x]] = Above[x])
          BY <1>2 DEF OnlyKnownOrphans
        <4>1. Above[x] \in Rows /\ Above[x] \notin D /\ ~IsLive(Above[x])
          BY <2>2, TableFacts DEF IsLive
        <4>2. CASE x \notin D
          <5>1. IsLive(x)
            BY <4>2, <2>2 DEF IsLive
          <5> QED  BY <5>1, <4>1, <3>1, <2>4 DEF OnlyKnownOrphans
        <4>3. CASE x \in D /\ x # r
          <5>1. IsDeleted(x) /\ by[x] = r
            BY <4>3, <3>1 DEF RestoreOK
          <5>2. IsDeleted(Above[x]) /\ by[Above[x]] = r
            BY <4>3, <5>1, <3>1 DEF RemovedOK, IsDeleted
          <5> QED  BY <4>1, <5>2, <3>1 DEF RestoreOK
        <4>4. CASE x = r
          <5>1. x \in Numbered => IsLive(Above[x])
            BY <4>4, <3>1 DEF RestoreOK, RestoreAllowed
          <5> QED  BY <4>1, <4>4, <5>1, <3>1, TableFacts DEF RestoreOK
        <4> QED  BY <4>2, <4>3, <4>4
      <3> QED  BY <1>1, <1>2, <2>4, <3>3, <3>4, <3>5, <3>6, Ending DEF TreeOK
    <2>5. TreeOK'
      BY <2>4, <1>2 DEF TreeOK
    <2> QED  BY <1>1, <1>2, <2>1, <2>3, <2>5, Ending DEF TreeInv, RestoreNeverRaises
  <1> QED  BY <1>4, <1>5

LEMMA CommitsReorder ==
  ASSUME TreeInv, NEW c \in TreeClients, CommitReorder(c)
  PROVE  TreeInv'
  <1>1. Busy(c) /\ req[c] \in Requests /\ req[c].op = "reorder"
    BY BusyFacts DEF CommitReorder
  <1> PICK order : order = req[c].order
    OBVIOUS
  <1> PICK m : m = Renumbered(order)
    OBVIOUS
  <1>2. \/ Raise(c) /\ UNCHANGED <<at, num>>
        \/ UniqueIn(at, m) /\ at' = at /\ num' = m /\ UNCHANGED raised
    BY DEF CommitReorder, WriteOrRaise
  <1>3. req' = [req EXCEPT ![c] = Idle] /\ UNCHANGED <<kind, clock, by, overlapped>>
    BY DEF CommitReorder, WriteOrRaise
  <1>4. CASE Raise(c) /\ UNCHANGED <<at, num>>
    BY <1>1, <1>3, <1>4, Raising
  <1>5. CASE UniqueIn(at, m) /\ at' = at /\ num' = m /\ UNCHANGED raised
    <2>1. DOMAIN order \subseteq Nat
      BY <1>1, RequestFacts
    <2>2. /\ m \in [Rows -> Nat]
          /\ \A x \in Rows : x \notin Range(order) => m[x] = num[x]
      <3>1. m = [x \in Rows |-> IF x \in Range(order) THEN CHOOSE i \in DOMAIN order : order[i] = x ELSE num[x]]
        BY DEF Renumbered
      <3>2. \A x \in Range(order) : (CHOOSE i \in DOMAIN order : order[i] = x) \in Nat
        BY <2>1 DEF Range
      <3> QED  BY <3>1, <3>2 DEF TreeInv, TreeTypeOK
    <2>3. TreeTypeOK'
      BY <1>1, <1>3, <1>5, <2>2, Ending DEF TreeInv, TreeTypeOK
    <2>4. ASSUME ~overlapped  PROVE TreeOK'
      <3>1. NumbersOK /\ TimesOK /\ RemovedOK /\ OnlyKnownOrphans
        BY <2>4 DEF TreeInv, TreeOK
      <3>2. \A x \in Range(order) : IsLive(x)
        <4>1. \A i \in DOMAIN order : IsLive(order[i])
          BY <1>1, <2>4 DEF TreeInv, TreeOK, RequestsOK, RequestOK
        <4> QED  BY <4>1 DEF Range
      <3>3. NumbersOK'
        <4> SUFFICES ASSUME NEW x \in Numbered, NEW y \in Numbered, x # y, Above[x] = Above[y],
                            at[x] = at[y], at[x] >= 0
                     PROVE  m[x] # m[y]
          BY <1>5 DEF NumbersOK
        <4>1. x \in Rows /\ y \in Rows
          BY DEF Numbered, Rows
        <4>2. CASE at[x] = Live
          BY <4>2, <1>5 DEF UniqueIn
        <4>3. CASE at[x] # Live
          BY <4>1, <4>3, <2>2, <3>1, <3>2 DEF NumbersOK, IsLive
        <4> QED  BY <4>2, <4>3
      <3>4. RemovedOK' /\ TimesOK'
        BY <1>3, <1>5, <3>1 DEF RemovedOK, TimesOK, IsDeleted
      <3>5. OnlyKnownOrphans'
        BY <1>3, <1>5, <3>1 DEF OnlyKnownOrphans, IsLive
      <3> QED  BY <1>1, <1>3, <2>4, <3>3, <3>4, <3>5, Ending DEF TreeOK
    <2>5. TreeOK'
      BY <2>4, <1>3 DEF TreeOK
    <2> QED  BY <1>1, <1>3, <1>5, <2>3, <2>5, Ending DEF TreeInv, RestoreNeverRaises
  <1> QED  BY <1>2, <1>4, <1>5

-----------------------------------------------------------------------------
LEMMA TreeInit_TreeInv == TreeInit => TreeInv
  <1> SUFFICES ASSUME TreeInit  PROVE TreeInv
    OBVIOUS
  <1> USE DEF TreeInit, Live, Absent
  <1>1. TreeTypeOK
    <2>1. at \in [Rows -> Absent .. MaxClock] /\ clock \in 0 .. MaxClock /\ num \in [Rows -> Nat]
      OBVIOUS
    <2> QED  BY <2>1 DEF TreeTypeOK, Idle
  <1>2. AloneOK /\ RequestsOK
    BY DEF AloneOK, Busy, RequestsOK, RequestOK, Idle
  <1>3. RemovedOK /\ TimesOK
    BY DEF RemovedOK, TimesOK, IsDeleted
  <1>4. NumbersOK /\ OnlyKnownOrphans
    BY DEF NumbersOK, OnlyKnownOrphans, IsLive, Numbered, Rows
  <1> QED  BY <1>1, <1>2, <1>3, <1>4 DEF TreeInv, TreeOK, RestoreNeverRaises

LEMMA TreeNext_TreeInv == TreeInv /\ [TreeNext]_treeVars => TreeInv'
  <1> SUFFICES ASSUME TreeInv, [TreeNext]_treeVars  PROVE TreeInv'
    OBVIOUS
  <1>1. CASE UNCHANGED treeVars
    <2> USE <1>1 DEF treeVars
    <2>1. TreeTypeOK' /\ RestoreNeverRaises' /\ req' \in [TreeClients -> Requests \cup {Idle}]
      BY DEF TreeInv, TreeTypeOK, RestoreNeverRaises
    <2>2. TreeOK'
      BY DEF TreeInv, TreeOK, AloneOK, Busy, RequestsOK, RequestOK, DeleteOK, RestoreOK, RestoreAllowed, ChildrenIn,
             IsLive, IsDeleted, Siblings, RemovedOK, TimesOK, NumbersOK, OnlyKnownOrphans
    <2> QED  BY <2>1, <2>2 DEF TreeInv
  <1>2. ASSUME NEW c \in TreeClients, NEW r \in Projects, BeginDeleteProject(c, r) \/ BeginRestoreProject(c, r)
        PROVE  TreeInv'
    <2> r \in Rows
      BY DEF Rows
    <2>1. CASE BeginDeleteProject(c, r)
      BY <2>1, CascadeFacts, BeginsDelete DEF BeginDeleteProject, Deletes
    <2>2. CASE BeginRestoreProject(c, r)
      <3>1. ProjectRevival(r, at[r]) \in SUBSET Rows
        BY DEF ProjectRevival, SharesTime
      <3> QED  BY <2>2, <3>1, RevivalFacts, BeginsRestore DEF BeginRestoreProject, Restores
    <2> QED  BY <1>2, <2>1, <2>2
  <1>3. ASSUME NEW c \in TreeClients, NEW r \in Episodes,
               BeginCreateEpisode(c, r) \/ BeginDeleteEpisode(c, r) \/ BeginRestoreEpisode(c, r)
        PROVE  TreeInv'
    <2> r \in Rows \ Projects
      BY DEF Rows
    <2>1. CASE BeginCreateEpisode(c, r)
      BY <2>1, NextNumberType, TableFacts, BeginsCreate DEF BeginCreateEpisode, TreeInv
    <2>2. CASE BeginDeleteEpisode(c, r)
      BY <2>2, CascadeFacts, BeginsDelete DEF BeginDeleteEpisode, Deletes
    <2>3. CASE BeginRestoreEpisode(c, r)
      <3>1. EpisodeRevival(r, at[r]) \in SUBSET Rows
        BY DEF EpisodeRevival, SharesTime
      <3> QED  BY <2>3, <3>1, RevivalFacts, BeginsRestore DEF BeginRestoreEpisode, Restores
    <2> QED  BY <1>3, <2>1, <2>2, <2>3
  <1>4. ASSUME NEW c \in TreeClients, NEW r \in Scenes \cup Shots,
               \/ BeginCreateScene(c, r) \/ BeginCreateShot(c, r)
               \/ BeginDeleteScene(c, r) \/ BeginDeleteShot(c, r)
               \/ BeginRestoreScene(c, r) \/ BeginRestoreShot(c, r)
        PROVE  TreeInv'
    <2> r \in Rows \ Projects
      BY DEF Rows
    <2>1. CASE BeginCreateScene(c, r) \/ BeginCreateShot(c, r)
      <3>1. Given \cup {NextNumber(Above[r])} \in SUBSET Nat
        <4>1. Above[r] \in Rows /\ TreeTypeOK
          BY TableFacts DEF TreeInv
        <4> QED  BY <4>1, NextNumberType
      <3> QED  BY <2>1, <3>1, BeginsCreate DEF BeginCreateScene, BeginCreateShot
    <2>2. CASE BeginDeleteScene(c, r) \/ BeginDeleteShot(c, r)
      <3>1. Deletes(c, r, {})
        BY <2>2 DEF BeginDeleteScene, BeginDeleteShot
      <3>2. DeleteOK(r, {r} \cup {})
        BY <3>1, CascadeFacts DEF Deletes
      <3> QED  BY <3>1, <3>2, BeginsDelete
    <2>3. CASE BeginRestoreScene(c, r) \/ BeginRestoreShot(c, r)
      <3>1. Restores(c, r, {})
        BY <2>3 DEF BeginRestoreScene, BeginRestoreShot
      <3>2. ~overlapped => RestoreOK(r, {r} \cup {})
        BY <3>1, RevivalFacts DEF Restores
      <3> QED  BY <3>1, <3>2, BeginsRestore
    <2> QED  BY <1>4, <2>1, <2>2, <2>3
  <1>5. ASSUME NEW c \in TreeClients, NEW r \in Library,
               \/ Creates(c, r, {0}) \/ Deletes(c, r, {}) \/ BeginRestoreCharacter(c, r)
        PROVE  TreeInv'
    <2> r \in Rows \ Projects
      BY DEF Rows
    <2>1. CASE Creates(c, r, {0})
      BY <2>1, BeginsCreate
    <2>2. CASE Deletes(c, r, {})
      <3>1. DeleteOK(r, {r} \cup {})
        BY <2>2, CascadeFacts DEF Deletes
      <3> QED  BY <2>2, <3>1, BeginsDelete
    <2>3. CASE BeginRestoreCharacter(c, r)
      <3>1. Restores(c, r, {}) /\ kind[r] = "character"
        BY <2>3 DEF BeginRestoreCharacter
      <3>2. ~overlapped => RestoreOK(r, {r} \cup {})
        BY <3>1, RevivalFacts DEF Restores
      <3> QED  BY <3>1, <3>2, BeginsRestore
    <2> QED  BY <1>5, <2>1, <2>2, <2>3
  <1> QED
    BY <1>1, <1>2, <1>3, <1>4, <1>5, BeginsReorder, CommitsCreate, CommitsDelete, CommitsRestore, CommitsReorder
       DEF TreeNext, BeginCreateCharacter, BeginCreateLocation, BeginCreateCostume, BeginCreateDocument,
           BeginDeleteCharacter, BeginDeleteLocation, BeginDeleteCostume, BeginDeleteDocument

\* The variables keep their types.
THEOREM TreeTypes == TreeSpec => []TreeTypeOK
  BY TreeInit_TreeInv, TreeNext_TreeInv, PTL DEF TreeSpec, TreeInv

\* The inductive invariant.
THEOREM TreeInvariant == TreeSpec => []TreeInv
  BY TreeInit_TreeInv, TreeNext_TreeInv, PTL DEF TreeSpec

\* While requests do not overlap, only a character restored on its own and a
\* shot of a scene that delete_scene removed are live below a deleted row.
THEOREM OrphansAreKnown == TreeSpec => []OnlyKnownOrphans
  <1>1. TreeInv => OnlyKnownOrphans
    BY DEF TreeInv, TreeOK, OnlyKnownOrphans
  <1> QED  BY <1>1, TreeInit_TreeInv, TreeNext_TreeInv, PTL DEF TreeSpec

\* While requests do not overlap, the revival of a project or an episode never
\* runs into the partial unique index: what restore_* checks is enough.
THEOREM RestoresAreAccepted == TreeSpec => []RestoreNeverRaises
  <1>1. TreeInv => RestoreNeverRaises
    BY DEF TreeInv
  <1> QED  BY <1>1, TreeInit_TreeInv, TreeNext_TreeInv, PTL DEF TreeSpec

\* While requests do not overlap, a restore brings back exactly what the delete
\* call on the same row removed.
THEOREM RestoresUndo == TreeSpec => RestoreUndoesItsDelete
  <1> DEFINE Undoes ==
        \A c \in TreeClients : req[c].op = "restore" /\ req'[c] = Idle /\ ~overlapped =>
          \A r \in Rows : IsLive(r)' <=> \/ IsLive(r) \/ r = req[c].row
                                         \/ IsDeleted(r) /\ by[r] = req[c].row
  <1>1. ASSUME TreeInv, [TreeNext]_treeVars  PROVE [Undoes]_treeVars
    <2> SUFFICES ASSUME TreeNext, NEW c \in TreeClients, req[c].op = "restore", req'[c] = Idle, ~overlapped
                 PROVE  \A r \in Rows : IsLive(r)' <=> \/ IsLive(r) \/ r = req[c].row
                                                       \/ IsDeleted(r) /\ by[r] = req[c].row
      BY <1>1
    <2>1. Busy(c) /\ req[c] \in Requests
      BY <1>1, BusyFacts
    <2>2. ASSUME NEW d \in TreeClients, NEW q, Begin(d, q)  PROVE FALSE
      <3>1. c # d /\ req' = [req EXCEPT ![d] = q]
        BY <2>1, <2>2 DEF Begin, Busy
      <3> QED  BY <3>1, <1>1, <2>1 DEF TreeInv, Busy
    <2>3. PICK d \in TreeClients : CommitCreate(d) \/ CommitDelete(d) \/ CommitRestore(d) \/ CommitReorder(d)
      BY <2>2 DEF TreeNext, BeginDeleteProject, BeginRestoreProject, BeginCreateEpisode, BeginDeleteEpisode,
                  BeginRestoreEpisode, BeginCreateScene, BeginDeleteScene, BeginRestoreScene, BeginReorder,
                  BeginCreateShot, BeginDeleteShot, BeginRestoreShot, BeginCreateCharacter, BeginDeleteCharacter,
                  BeginRestoreCharacter, BeginCreateLocation, BeginDeleteLocation, BeginCreateCostume,
                  BeginDeleteCostume, BeginCreateDocument, BeginDeleteDocument, Creates, Deletes, Restores
    <2>4. d = c
      <3>1. Busy(d)
        BY <1>1, <2>3, BusyFacts DEF CommitCreate, CommitDelete, CommitRestore, CommitReorder
      <3> QED  BY <3>1, <1>1, <2>1 DEF TreeInv, TreeOK, AloneOK
    <2>5. CommitRestore(c)
      BY <2>3, <2>4 DEF CommitCreate, CommitDelete, CommitReorder
    <2> PICK r \in Rows : r = req[c].row
      BY <2>1, RequestFacts
    <2> PICK D \in SUBSET Rows : D = req[c].rows
      BY <2>1, RequestFacts
    <2>6. RestoreOK(r, D)
      BY <1>1 DEF TreeInv, TreeOK, RequestsOK, RequestOK
    <2> PICK a : a = [x \in Rows |-> IF x \in D THEN Live ELSE at[x]]
      OBVIOUS
    <2>7. UniqueIn(a, num)
      BY <1>1, <2>6, RevivalIsUnique
    <2>8. at' = a
      BY <2>5, <2>7 DEF CommitRestore, WriteOrRaise
    <2> QED  BY <2>6, <2>8 DEF RestoreOK, IsLive
  <1>2. [][Undoes]_treeVars => RestoreUndoesItsDelete
    BY DEF RestoreUndoesItsDelete
  <1> HIDE DEF Undoes
  <1> QED  BY <1>1, <1>2, TreeInit_TreeInv, TreeNext_TreeInv, PTL DEF TreeSpec

=============================================================================
