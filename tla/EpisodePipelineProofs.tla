------------------------ MODULE EpisodePipelineProofs ------------------------
(***************************************************************************)
(* Proofs about EpisodePipeline, for any operations, plan sizes and        *)
(* bounds.  Locks play no part: that a snapshot is written once and that   *)
(* no shot is left without its scene follows from what the writing step    *)
(* looks up again, whatever ran since the operation began.                 *)
(***************************************************************************)
EXTENDS EpisodePipeline, SequenceTheorems, FiniteSetTheorems, TLAPS

USE PipelineAssumption

Steps == {"none", "waits", "analysing", "previewed", "confirm", "mark", "plan", "planning",
          "images", "queue", "timeline", "render", "close"}

(* A snapshot is of the text its key was computed of.                      *)
SnapshotRow == {x \in [hash : Nat, text : Nat, size : Nat, status : {"pending", "confirmed", "expired"}] :
                  x.hash = x.text}
SceneRow == [key : Nat, snapshot : Nat, planned : Nat, live : BOOLEAN]
ShotRow  == [scene : Nat, key : Nat, prompt : BOOLEAN, live : BOOLEAN, image : {"none", "queued", "active"}]

(* A pipeline row that names one of n snapshots, or none.                  *)
PipelineRow(n) == [status : {"running", "waiting_confirm", "completed"}, done : SUBSET Stages, snapshot : 0..n]

IsPiped(op) == op.kind \in {"run", "confirm", "resume", "finalize"}

(* What an operation may hold when there are n snapshots and p pipelines:  *)
(* it has its pipeline from its first step on, and a snapshot to confirm.  *)
OpOK(op, n, p) ==
  /\ DOMAIN op = DOMAIN NoOp
  /\ op.kind \in Kinds \cup {"none"} /\ op.at \in Steps
  /\ op.text \in Nat
  /\ op.sid \in 0..n
  /\ op.row \in PipelineRow(n) /\ op.base \in PipelineRow(n)
  /\ op.pipe \in 0..p
  /\ op.kind = "none" => op.at = "none"
  /\ op.at \in {"previewed", "mark", "images", "queue", "timeline", "render", "close"} => IsPiped(op)
  /\ op.at \in {"analysing", "confirm"} => op.kind # "plan"
  /\ op.at \in {"plan", "planning"} => op.kind # "analyze"
  /\ IsPiped(op) /\ (op.at # "waits" \/ op.kind # "run") => op.pipe # 0
  /\ op.at = "confirm" => op.sid # 0

RunsOK ==
  /\ pipelines \in Seq(PipelineRow(Len(snapshots)))
  /\ DOMAIN ops = Ops
  /\ \A o \in Ops : OpOK(ops[o], Len(snapshots), Len(pipelines))

StoryTypes ==
  /\ episode \in [text : Nat, key : Nat]
  /\ snapshots \in Seq(SnapshotRow)
  /\ scenes \in Seq(SceneRow)
  /\ shots \in Seq(ShotRow)

CutTypes ==
  /\ timeline \in [exists : BOOLEAN, clips : SUBSET Nat]
  /\ renders \in Nat /\ started \in Nat /\ crashes \in Nat

TypeOK == StoryTypes /\ RunsOK /\ CutTypes

(* A shot stands under a scene, and is deleted with it.                    *)
ShotsHaveScenes ==
  \A t \in DOMAIN shots :
    /\ shots[t].scene \in DOMAIN scenes
    /\ shots[t].live => scenes[shots[t].scene].live

(* Only a confirmed snapshot has scenes.                                   *)
ScenesOf(i) == {s \in DOMAIN scenes : scenes[s].snapshot = i}
ScenesAreConfirmed ==
  \A s \in DOMAIN scenes :
    scenes[s].snapshot # 0 =>
      scenes[s].snapshot \in DOMAIN snapshots /\ snapshots[scenes[s].snapshot].status = "confirmed"

StoryOK == StoryTypes /\ ShotsHaveScenes /\ ScenesAreConfirmed /\ SnapshotWrittenOnce

PipelineInv == StoryOK /\ RunsOK /\ CutTypes

-----------------------------------------------------------------------------
(* Operations.                                                             *)

LEMMA FreshTypes == ASSUME NEW n \in Nat PROVE Fresh \in PipelineRow(n)
  BY DEF Fresh, PipelineRow

LEMMA NoOpOK == ASSUME NEW n \in Nat, NEW p \in Nat PROVE OpOK(NoOp, n, p)
  BY FreshTypes DEF OpOK, NoOp, Steps, IsPiped

LEMMA RowsGrow ==
  ASSUME NEW n \in Nat, NEW m \in Nat, n <= m
  PROVE  PipelineRow(n) \subseteq PipelineRow(m)
  <1>1. 0..n \subseteq 0..m
    OBVIOUS
  <1> QED  BY <1>1 DEF PipelineRow

LEMMA OpsGrow ==
  ASSUME NEW op, NEW n \in Nat, NEW p \in Nat, NEW m \in Nat, NEW q \in Nat, n <= m, p <= q, OpOK(op, n, p)
  PROVE  OpOK(op, m, q)
  <1>1. op.row \in PipelineRow(m) /\ op.base \in PipelineRow(m)
    BY RowsGrow DEF OpOK
  <1>2. op.sid \in 0..m /\ op.pipe \in 0..q
    BY DEF OpOK
  <1> QED  BY <1>1, <1>2 DEF OpOK

\* A step of one operation keeps what is said of all of them, if it holds for the
\* operation it leaves and for the rows, and nothing is removed.
LEMMA StepKeepsRuns ==
  ASSUME RunsOK, NEW o \in Ops, NEW op, ops' = [ops EXCEPT ![o] = op],
         Len(snapshots) \in Nat, Len(snapshots') \in Nat, Len(snapshots) <= Len(snapshots'),
         pipelines' \in Seq(PipelineRow(Len(snapshots'))), Len(pipelines) <= Len(pipelines'),
         OpOK(op, Len(snapshots'), Len(pipelines'))
  PROVE  RunsOK'
  <1>1. Len(pipelines) \in Nat /\ Len(pipelines') \in Nat
    BY DEF RunsOK
  <1>2. DOMAIN ops' = Ops
    BY DEF RunsOK
  <1>3. ASSUME NEW q \in Ops PROVE OpOK(ops'[q], Len(snapshots'), Len(pipelines'))
    <2>1. CASE q = o
      BY <2>1 DEF RunsOK
    <2>2. CASE q # o
      <3>1. ops'[q] = ops[q]
        BY <2>2 DEF RunsOK
      <3>2. OpOK(ops[q], Len(snapshots), Len(pipelines))
        BY DEF RunsOK
      <3>3. OpOK(ops[q], Len(snapshots'), Len(pipelines'))
        BY <1>1, <3>2, OpsGrow
      <3> QED  BY <3>1, <3>3
    <2> QED  BY <2>1, <2>2
  <1> QED  BY <1>2, <1>3 DEF RunsOK

\* Likewise when snapshots and pipelines stay as they are.
LEMMA StillStepKeepsRuns ==
  ASSUME RunsOK, Len(snapshots) \in Nat, NEW o \in Ops, NEW op, ops' = [ops EXCEPT ![o] = op],
         Len(snapshots') = Len(snapshots), pipelines' = pipelines,
         OpOK(op, Len(snapshots), Len(pipelines))
  PROVE  RunsOK'
  <1>1. pipelines' \in Seq(PipelineRow(Len(snapshots'))) /\ Len(pipelines) <= Len(pipelines')
    BY DEF RunsOK
  <1>2. OpOK(op, Len(snapshots'), Len(pipelines'))
    OBVIOUS
  <1>3. Len(snapshots') \in Nat /\ Len(snapshots) <= Len(snapshots')
    OBVIOUS
  <1> QED  BY <1>1, <1>2, <1>3, StepKeepsRuns

LEMMA SameOpsKeepRuns ==
  ASSUME RunsOK, ops' = ops, pipelines' = pipelines, Len(snapshots') = Len(snapshots)
  PROVE  RunsOK'
  BY DEF RunsOK

LEMMA StoryStays ==
  ASSUME StoryOK, UNCHANGED story
  PROVE  StoryOK'
  <1>1. StoryTypes'
    BY DEF StoryOK, StoryTypes, story
  <1>2. ShotsHaveScenes'
    BY DEF StoryOK, ShotsHaveScenes, story
  <1>3. ScenesAreConfirmed'
    BY DEF StoryOK, ScenesAreConfirmed, story
  <1>4. SnapshotWrittenOnce'
    BY DEF StoryOK, SnapshotWrittenOnce, story
  <1> QED  BY <1>1, <1>2, <1>3, <1>4 DEF StoryOK

\* What an operation writes to its pipeline is a row of a pipeline.
LEMMA CommitTypes ==
  ASSUME RunsOK, Len(snapshots) \in Nat, NEW op, OpOK(op, Len(snapshots), Len(pipelines)), op.pipe # 0,
         NEW row \in PipelineRow(Len(snapshots)), Commits(Changed(op, row))
  PROVE  /\ pipelines' \in Seq(PipelineRow(Len(snapshots)))
         /\ Len(pipelines') = Len(pipelines)
  <1> DEFINE w == Changed(op, row)
  <1>1. w.pipe = op.pipe /\ w.row = row /\ w.base = op.base
    BY DEF Changed, OpOK, NoOp
  <1>2. pipelines[op.pipe] \in PipelineRow(Len(snapshots)) /\ op.pipe \in DOMAIN pipelines
    BY DEF RunsOK, OpOK
  <1>3. PICK old \in PipelineRow(Len(snapshots)) : old = pipelines[op.pipe]
    BY <1>2
  <1>4. Flushed(w) = [f \in {"status", "done", "snapshot"} |-> IF row[f] # op.base[f] THEN row[f] ELSE old[f]]
    BY <1>1, <1>3 DEF Flushed, Fresh
  <1>5. [f \in {"status", "done", "snapshot"} |-> IF row[f] # op.base[f] THEN row[f] ELSE old[f]]
          \in PipelineRow(Len(snapshots))
    BY <1>3 DEF PipelineRow
  <1>6. Flushed(w) \in PipelineRow(Len(snapshots))
    BY <1>4, <1>5
  <1>7. pipelines' = [pipelines EXCEPT ![op.pipe] = Flushed(w)]
    BY <1>1 DEF Commits
  <1> HIDE DEF w
  <1> QED  BY <1>2, <1>6, <1>7 DEF RunsOK

LEMMA ChangedOK ==
  ASSUME NEW n \in Nat, NEW p \in Nat, NEW op, OpOK(op, n, p), NEW row \in PipelineRow(n)
  PROVE  OpOK(Changed(op, row), n, p) /\ OpOK(Clean(Changed(op, row)), n, p)
  BY DEF OpOK, Changed, Clean, NoOp, IsPiped

LEMMA WithStagesTypes ==
  ASSUME NEW n \in Nat, NEW row \in PipelineRow(n), NEW S \in SUBSET Stages
  PROVE  WithStages(row, S) \in PipelineRow(n)
  BY DEF WithStages, PipelineRow

-----------------------------------------------------------------------------
(* Operations that leave the story alone.                                  *)

LEMMA OpTypes ==
  ASSUME PipelineInv, NEW o \in Ops
  PROVE  /\ OpOK(ops[o], Len(snapshots), Len(pipelines))
         /\ Len(snapshots) \in Nat /\ Len(pipelines) \in Nat
  BY DEF PipelineInv, RunsOK, StoryOK, StoryTypes

LEMMA LoadedOK ==
  ASSUME PipelineInv, NEW op, OpOK(op, Len(snapshots), Len(pipelines)), NEW q \in DOMAIN pipelines
  PROVE  OpOK(Loaded(op, q), Len(snapshots), Len(pipelines))
  <1>1. pipelines[q] \in PipelineRow(Len(snapshots)) /\ q \in 1..Len(pipelines)
    BY DEF PipelineInv, RunsOK
  <1> QED  BY <1>1 DEF OpOK, Loaded, NoOp, IsPiped

\* A step that changes operations and nothing else.
LEMMA QuietStep ==
  ASSUME PipelineInv, NEW o \in Ops, NEW op, ops' = [ops EXCEPT ![o] = op],
         UNCHANGED <<story, pipelines, cut, crashes>>, started' \in Nat,
         OpOK(op, Len(snapshots), Len(pipelines))
  PROVE  PipelineInv'
  <1>1. StoryOK'
    BY StoryStays DEF PipelineInv
  <1>2. RunsOK'
    BY OpTypes, StillStepKeepsRuns DEF PipelineInv, story
  <1>3. CutTypes'
    BY DEF PipelineInv, CutTypes, cut
  <1> QED  BY <1>1, <1>2, <1>3 DEF PipelineInv

LEMMA EndStep ==
  ASSUME PipelineInv, NEW o \in Ops, Ends(o), UNCHANGED <<story, pipelines, cut>>
  PROVE  PipelineInv'
  <1>1. OpOK(NoOp, Len(snapshots), Len(pipelines))
    BY OpTypes, NoOpOK
  <1>2. ops' = [ops EXCEPT ![o] = NoOp] /\ started' \in Nat /\ UNCHANGED crashes
    BY DEF Ends, Goes, PipelineInv, CutTypes
  <1> QED  BY <1>1, <1>2, QuietStep

LEMMA GoStep ==
  ASSUME PipelineInv, NEW o \in Ops, NEW op, Goes(o, op), UNCHANGED <<story, pipelines, cut>>,
         OpOK(op, Len(snapshots), Len(pipelines))
  PROVE  PipelineInv'
  <1>1. ops' = [ops EXCEPT ![o] = op] /\ started' \in Nat /\ UNCHANGED crashes
    BY DEF Goes, PipelineInv, CutTypes
  <1> QED  BY <1>1, QuietStep

LEMMA UserStartsOK ==
  ASSUME PipelineInv, NEW o \in Ops, NEW kind \in Kinds, NEW pipe \in 0..Len(pipelines), NEW sid \in 0..Len(snapshots),
         NEW scene, UserStarts(o, kind, pipe, sid, scene)
  PROVE  PipelineInv'
  <1> DEFINE op == [NoOp EXCEPT !.kind = kind, !.at = "waits", !.pipe = pipe, !.sid = sid, !.scene = scene]
  <1>1. /\ DOMAIN op = DOMAIN NoOp /\ op.kind = kind /\ op.at = "waits" /\ op.pipe = pipe
        /\ op.sid = sid /\ op.text = 0 /\ op.row = Fresh /\ op.base = Fresh
    BY DEF NoOp
  <1>2. DOMAIN pipelines = 1..Len(pipelines)
    BY DEF PipelineInv, RunsOK
  <1>3. kind \in {"confirm", "resume", "finalize"} => pipe # 0
    BY <1>2, OpTypes DEF UserStarts
  <1>4. Fresh \in PipelineRow(Len(snapshots))
    BY OpTypes, FreshTypes
  <1>5. OpOK(op, Len(snapshots), Len(pipelines))
    BY <1>1, <1>3, <1>4, OpTypes DEF OpOK, NoOp, Steps, IsPiped, Kinds
  <1>6. ops' = [ops EXCEPT ![o] = op] /\ started' \in Nat
    BY DEF UserStarts, PipelineInv, CutTypes
  <1>7. UNCHANGED <<story, pipelines, cut, crashes>>
    BY DEF UserStarts
  <1> HIDE DEF op
  <1> QED  BY <1>5, <1>6, <1>7, QuietStep

LEMMA AsksForPreviewOK ==
  ASSUME PipelineInv, NEW o \in Ops, AsksForPreview(o), ops[o].kind \in {"run", "resume"}
  PROVE  PipelineInv'
  <1>1. OpOK(ops[o], Len(snapshots), Len(pipelines)) /\ Len(snapshots) \in Nat /\ Len(pipelines) \in Nat
    BY OpTypes
  <1>2. episode.text \in Nat
    BY DEF PipelineInv, StoryOK, StoryTypes
  <1>3. CASE Latest # 0
    <2>1. Latest \in DOMAIN pipelines
      BY <1>3 DEF Latest, PipelineInv, RunsOK
    <2>2. PICK op : op = Loaded(ops[o], Latest)
      OBVIOUS
    <2>3. OpOK(op, Len(snapshots), Len(pipelines)) /\ op.kind = ops[o].kind /\ op.pipe = Latest
      BY <1>1, <2>1, <2>2, LoadedOK DEF Loaded, OpOK, NoOp
    <2>4. OpOK([op EXCEPT !.at = "analysing", !.text = episode.text], Len(snapshots), Len(pipelines))
      BY <1>2, <1>3, <2>3 DEF OpOK, NoOp, Steps, IsPiped
    <2> QED  BY <1>3, <2>2, <2>4, GoStep DEF AsksForPreview
  <1>4. CASE Latest = 0
    <2> DEFINE op == [ops[o] EXCEPT !.at = "analysing", !.text = episode.text, !.pipe = Len(pipelines) + 1,
                               !.row = Fresh, !.base = Fresh]
    <2>1. pipelines' = Append(pipelines, Fresh) /\ Goes(o, op) /\ UNCHANGED <<story, cut>>
      BY <1>4 DEF AsksForPreview
    <2>2. Fresh \in PipelineRow(Len(snapshots))
      BY <1>1, FreshTypes
    <2>3. pipelines' \in Seq(PipelineRow(Len(snapshots'))) /\ Len(pipelines') = Len(pipelines) + 1
      BY <2>1, <2>2 DEF PipelineInv, RunsOK, story
    <2>4. OpOK(op, Len(snapshots), Len(pipelines) + 1)
      <3>1. OpOK(ops[o], Len(snapshots), Len(pipelines) + 1)
        BY <1>1, OpsGrow
      <3>2. PICK x : x = ops[o]
        OBVIOUS
      <3>3. OpOK([x EXCEPT !.at = "analysing", !.text = episode.text, !.pipe = Len(pipelines) + 1,
                               !.row = Fresh, !.base = Fresh], Len(snapshots), Len(pipelines) + 1)
        BY <1>1, <1>2, <2>2, <3>1, <3>2 DEF OpOK, NoOp, Steps, IsPiped
      <3> QED  BY <3>2, <3>3
    <2>5. ops' = [ops EXCEPT ![o] = op] /\ UNCHANGED <<started, crashes>>
      BY <2>1 DEF Goes
    <2> HIDE DEF op
    <2>6. Len(snapshots') = Len(snapshots)
      BY <2>1 DEF story
    <2>7. RunsOK'
      <3>1. OpOK(op, Len(snapshots'), Len(pipelines'))
        BY <2>3, <2>4, <2>6
      <3>2. Len(snapshots') \in Nat /\ Len(snapshots) <= Len(snapshots') /\ Len(pipelines) <= Len(pipelines')
        BY <1>1, <2>3, <2>6
      <3> QED  BY <1>1, <2>3, <2>5, <3>1, <3>2, StepKeepsRuns DEF PipelineInv
    <2>8. StoryOK'
      BY <2>1, StoryStays DEF PipelineInv
    <2>9. CutTypes'
      BY <2>1, <2>5 DEF PipelineInv, CutTypes, cut
    <2> QED  BY <2>7, <2>8, <2>9 DEF PipelineInv
  <1> QED  BY <1>3, <1>4

LEMMA HasToPlanOK ==
  ASSUME NEW n \in Nat, NEW p \in Nat, NEW op, OpOK(op, n, p), IsPiped(op), op.pipe # 0,
         HasToPlan(op).sid # 0
  PROVE  OpOK(HasToPlan(op), n, p)
  <1>1. op.row.snapshot \in 0..n
    BY DEF OpOK, PipelineRow
  <1>2. HasToPlan(op).sid = (IF op.sid # 0 THEN op.sid ELSE op.row.snapshot)
    BY DEF HasToPlan, OpOK, NoOp
  <1>3. HasToPlan(op).at = IF "shots" \in op.row.done THEN "images" ELSE "confirm"
    BY DEF HasToPlan, OpOK, NoOp
  <1>4. /\ DOMAIN HasToPlan(op) = DOMAIN op
        /\ HasToPlan(op).kind = op.kind /\ HasToPlan(op).text = op.text /\ HasToPlan(op).pipe = op.pipe
        /\ HasToPlan(op).row = op.row /\ HasToPlan(op).base = op.base
    BY DEF HasToPlan, OpOK, NoOp
  <1>5. PICK x : x = HasToPlan(op)
    OBVIOUS
  <1>6. OpOK(x, n, p)
    BY <1>1, <1>2, <1>3, <1>4, <1>5 DEF OpOK, IsPiped, Steps
  <1> QED  BY <1>5, <1>6

LEMMA AfterConfirmOK ==
  ASSUME NEW n \in Nat, NEW p \in Nat, NEW op, OpOK(op, n, p), op.at = "confirm"
  PROVE  OpOK(AfterConfirm(op), n, p)
  <1>1. CASE op.kind = "analyze"
    BY <1>1, NoOpOK DEF AfterConfirm
  <1>2. CASE op.kind # "analyze"
    <2>1. OpOK([op EXCEPT !.at = "mark"], n, p)
      BY <1>2 DEF OpOK, NoOp, Steps, IsPiped, Kinds
    <2> QED  BY <1>2, <2>1 DEF AfterConfirm
  <1> QED  BY <1>1, <1>2

LEMMA RunLoadsOK ==
  ASSUME PipelineInv, NEW o \in Ops, RunLoads(o)
  PROVE  PipelineInv'
  BY AsksForPreviewOK DEF RunLoads, Enters

LEMMA ConfirmLoadsOK ==
  ASSUME PipelineInv, NEW o \in Ops, ConfirmLoads(o)
  PROVE  PipelineInv'
  <1>1. ops[o].kind = "confirm" /\ UNCHANGED <<story, pipelines, cut>>
    BY DEF ConfirmLoads, Enters
  <1>2. OpOK(ops[o], Len(snapshots), Len(pipelines)) /\ Len(snapshots) \in Nat /\ Len(pipelines) \in Nat
    BY OpTypes
  <1>3. ops[o].pipe \in DOMAIN pipelines
    BY <1>1, <1>2 DEF OpOK, IsPiped, PipelineInv, RunsOK
  <1>4. PICK op : op = Loaded(ops[o], ops[o].pipe)
    OBVIOUS
  <1>5. OpOK(op, Len(snapshots), Len(pipelines)) /\ op.kind = "confirm" /\ op.pipe # 0
    <2>1. OpOK(op, Len(snapshots), Len(pipelines))
      BY <1>2, <1>3, <1>4, LoadedOK
    <2>2. op.kind = "confirm"
      BY <1>1, <1>2, <1>4 DEF Loaded, OpOK, NoOp
    <2> QED  BY <2>1, <2>2 DEF OpOK, IsPiped
  <1>6. CASE Ends(o)
    BY <1>1, <1>6, EndStep
  <1>7. CASE HasToPlan(op).sid # 0 /\ Goes(o, HasToPlan(op))
    BY <1>1, <1>2, <1>5, <1>7, HasToPlanOK, GoStep DEF IsPiped
  <1> QED  BY <1>4, <1>6, <1>7 DEF ConfirmLoads

LEMMA ResumeLoadsOK ==
  ASSUME PipelineInv, NEW o \in Ops, ResumeLoads(o)
  PROVE  PipelineInv'
  <1>1. ops[o].kind = "resume"
    BY DEF ResumeLoads, Enters
  <1>2. OpOK(ops[o], Len(snapshots), Len(pipelines)) /\ Len(snapshots) \in Nat /\ Len(pipelines) \in Nat
    BY OpTypes
  <1>3. ops[o].pipe \in DOMAIN pipelines
    BY <1>1, <1>2 DEF OpOK, IsPiped, PipelineInv, RunsOK
  <1>4. PICK l : l = Loaded(ops[o], ops[o].pipe)
    OBVIOUS
  <1>5. PICK op : op = [l EXCEPT !.sid = 0]
    OBVIOUS
  <1>6. OpOK(l, Len(snapshots), Len(pipelines)) /\ l.kind = "resume" /\ l.at = "waits"
    <2>1. OpOK(l, Len(snapshots), Len(pipelines))
      BY <1>2, <1>3, <1>4, LoadedOK
    <2>2. ops[o].at = "waits"
      BY DEF ResumeLoads, Enters, At
    <2>3. l.kind = "resume" /\ l.at = "waits"
      BY <1>1, <1>2, <1>4, <2>2 DEF Loaded, OpOK, NoOp
    <2> QED  BY <2>1, <2>3
  <1>7. OpOK(op, Len(snapshots), Len(pipelines)) /\ op.kind = "resume" /\ op.pipe # 0 /\ op.sid = 0
    <2>1. OpOK(op, Len(snapshots), Len(pipelines)) /\ op.kind = "resume" /\ op.sid = 0
      BY <1>2, <1>5, <1>6 DEF OpOK, NoOp, IsPiped
    <2> QED  BY <2>1 DEF OpOK, IsPiped
  <1>8. CASE AsksForPreview(o)
    BY <1>1, <1>8, AsksForPreviewOK
  <1>9. CASE Ends(o) /\ UNCHANGED <<story, pipelines, cut>>
    BY <1>9, EndStep
  <1>10. CASE op.row.snapshot # 0 /\ Goes(o, HasToPlan(op)) /\ UNCHANGED <<story, pipelines, cut>>
    <2>1. HasToPlan(op).sid = op.row.snapshot
      BY <1>7 DEF HasToPlan, OpOK, NoOp
    <2>2. OpOK(HasToPlan(op), Len(snapshots), Len(pipelines))
      BY <1>2, <1>7, <1>10, <2>1, HasToPlanOK DEF IsPiped
    <2> QED  BY <1>10, <2>2, GoStep
  <1>11. CASE /\ Goes(o, [op EXCEPT !.at = "timeline", !.existing = timeline.exists])
              /\ UNCHANGED <<story, pipelines, cut>>
    <2>1. OpOK([op EXCEPT !.at = "timeline", !.existing = timeline.exists], Len(snapshots), Len(pipelines))
      BY <1>7 DEF OpOK, NoOp, Steps, IsPiped
    <2> QED  BY <1>11, <2>1, GoStep
  <1>12. \/ AsksForPreview(o)
         \/ Ends(o) /\ UNCHANGED <<story, pipelines, cut>>
         \/ op.row.snapshot # 0 /\ Goes(o, HasToPlan(op)) /\ UNCHANGED <<story, pipelines, cut>>
         \/ /\ Goes(o, [op EXCEPT !.at = "timeline", !.existing = timeline.exists])
            /\ UNCHANGED <<story, pipelines, cut>>
    BY <1>4, <1>5 DEF ResumeLoads
  <1> QED  BY <1>8, <1>9, <1>10, <1>11, <1>12

LEMMA FinalizeLoadsOK ==
  ASSUME PipelineInv, NEW o \in Ops, FinalizeLoads(o)
  PROVE  PipelineInv'
  <1>1. ops[o].kind = "finalize" /\ UNCHANGED <<story, pipelines, cut>>
    BY DEF FinalizeLoads
  <1>2. OpOK(ops[o], Len(snapshots), Len(pipelines))
    BY OpTypes
  <1>3. ops[o].pipe \in DOMAIN pipelines
    BY <1>1, <1>2 DEF OpOK, IsPiped, PipelineInv, RunsOK
  <1>4. PICK op : op = Loaded(ops[o], ops[o].pipe)
    OBVIOUS
  <1>5. OpOK(op, Len(snapshots), Len(pipelines)) /\ op.kind = "finalize"
    <2>1. OpOK(op, Len(snapshots), Len(pipelines))
      BY <1>2, <1>3, <1>4, LoadedOK
    <2>2. op.kind = "finalize"
      BY <1>1, <1>2, <1>4 DEF Loaded, OpOK, NoOp
    <2> QED  BY <2>1, <2>2
  <1>6. OpOK([op EXCEPT !.at = "timeline", !.existing = timeline.exists], Len(snapshots), Len(pipelines))
    BY <1>5 DEF OpOK, NoOp, Steps, IsPiped
  <1>7. Ends(o) \/ Goes(o, [op EXCEPT !.at = "timeline", !.existing = timeline.exists])
    BY <1>4 DEF FinalizeLoads
  <1> QED  BY <1>1, <1>6, <1>7, EndStep, GoStep

LEMMA AnalyzeLoadsOK ==
  ASSUME PipelineInv, NEW o \in Ops, AnalyzeLoads(o)
  PROVE  PipelineInv'
  <1>1. ops[o].kind = "analyze" /\ UNCHANGED <<story, pipelines, cut>>
    BY DEF AnalyzeLoads, Enters
  <1>2. PICK op : op = ops[o]
    OBVIOUS
  <1>3. OpOK(op, Len(snapshots), Len(pipelines))
    BY <1>2, OpTypes
  <1>4. episode.text \in Nat
    BY DEF PipelineInv, StoryOK, StoryTypes
  <1>5. CASE op.sid # 0 /\ Goes(o, [op EXCEPT !.at = "confirm"])
    <2>1. OpOK([op EXCEPT !.at = "confirm"], Len(snapshots), Len(pipelines))
      BY <1>1, <1>2, <1>3, <1>5 DEF OpOK, NoOp, Steps, IsPiped
    <2> QED  BY <1>1, <1>5, <2>1, GoStep
  <1>6. CASE Ends(o)
    BY <1>1, <1>6, EndStep
  <1>7. CASE Goes(o, [op EXCEPT !.at = "analysing", !.text = episode.text])
    <2>1. OpOK([op EXCEPT !.at = "analysing", !.text = episode.text], Len(snapshots), Len(pipelines))
      BY <1>1, <1>2, <1>3, <1>4 DEF OpOK, NoOp, Steps, IsPiped
    <2> QED  BY <1>1, <1>7, <2>1, GoStep
  <1> QED  BY <1>2, <1>5, <1>6, <1>7 DEF AnalyzeLoads

LEMMA PlanLoadsOK ==
  ASSUME PipelineInv, NEW o \in Ops, PlanLoads(o)
  PROVE  PipelineInv'
  <1> DEFINE list == <<[scene |-> ops[o].scene, planned |-> scenes[ops[o].scene].planned]>>
  <1>1. PICK op : op = ops[o]
    OBVIOUS
  <1>2. OpOK(op, Len(snapshots), Len(pipelines)) /\ op.kind = "plan"
    BY <1>1, OpTypes DEF PlanLoads, Enters
  <1>3. Goes(o, [op EXCEPT !.at = "plan", !.todo = list]) /\ UNCHANGED <<story, pipelines, cut>>
    BY <1>1 DEF PlanLoads
  <1> HIDE DEF list
  <1>4. OpOK([op EXCEPT !.at = "plan", !.todo = list], Len(snapshots), Len(pipelines))
    BY <1>2 DEF OpOK, NoOp, Steps, IsPiped
  <1> QED  BY <1>3, <1>4, GoStep

LEMMA LlmFailsOK ==
  ASSUME PipelineInv, NEW o \in Ops, LlmFails(o)
  PROVE  PipelineInv'
  BY EndStep DEF LlmFails

LEMMA ReplaysSnapshotOK ==
  ASSUME PipelineInv, NEW o \in Ops, ReplaysSnapshot(o)
  PROVE  PipelineInv'
  <1>1. OpOK(ops[o], Len(snapshots), Len(pipelines)) /\ ops[o].at = "confirm"
    BY OpTypes DEF ReplaysSnapshot, At
  <1>2. OpOK(AfterConfirm(ops[o]), Len(snapshots), Len(pipelines))
    BY <1>1, AfterConfirmOK, OpTypes
  <1> QED  BY <1>2, GoStep DEF ReplaysSnapshot

LEMMA AsksForShotsOK ==
  ASSUME PipelineInv, NEW o \in Ops, AsksForShots(o)
  PROVE  PipelineInv'
  <1>1. PICK op : op = ops[o]
    OBVIOUS
  <1>2. OpOK(op, Len(snapshots), Len(pipelines)) /\ op.at = "plan" /\ UNCHANGED <<story, pipelines, cut>>
    BY <1>1, OpTypes DEF AsksForShots, At
  <1>3. episode.text \in Nat
    BY DEF PipelineInv, StoryOK, StoryTypes
  <1>4. OpOK([op EXCEPT !.todo = Tail(@)], Len(snapshots), Len(pipelines))
    BY <1>2 DEF OpOK, NoOp, Steps, IsPiped
  <1>5. OpOK([op EXCEPT !.at = "planning", !.text = episode.text], Len(snapshots), Len(pipelines))
    BY <1>2, <1>3 DEF OpOK, NoOp, Steps, IsPiped
  <1>6. \/ Ends(o)
        \/ Goes(o, [op EXCEPT !.todo = Tail(@)])
        \/ Goes(o, [op EXCEPT !.at = "planning", !.text = episode.text])
    BY <1>1 DEF AsksForShots
  <1> QED  BY <1>2, <1>4, <1>5, <1>6, EndStep, GoStep

LEMMA PlansAreMadeOK ==
  ASSUME PipelineInv, NEW o \in Ops, PlansAreMade(o)
  PROVE  PipelineInv'
  <1>1. PICK op : op = ops[o]
    OBVIOUS
  <1>2. OpOK(op, Len(snapshots), Len(pipelines)) /\ op.at = "plan" /\ UNCHANGED <<story, pipelines, cut>>
    BY <1>1, OpTypes DEF PlansAreMade, At
  <1>3. op.kind # "plan" => OpOK([op EXCEPT !.at = "images"], Len(snapshots), Len(pipelines))
    BY <1>2 DEF OpOK, NoOp, Steps, IsPiped, Kinds
  <1>4. Goes(o, IF op.kind = "plan" THEN NoOp ELSE [op EXCEPT !.at = "images"])
    BY <1>1 DEF PlansAreMade
  <1>5. CASE op.kind = "plan"
    BY <1>2, <1>4, <1>5, EndStep DEF Ends
  <1>6. CASE op.kind # "plan"
    BY <1>2, <1>3, <1>4, <1>6, GoStep
  <1> QED  BY <1>5, <1>6

LEMMA ListsShotsOK ==
  ASSUME PipelineInv, NEW o \in Ops, ListsShots(o)
  PROVE  PipelineInv'
  <1> DEFINE list == InOrder({t \in LiveShots : shots[t].image # "active"})
  <1>1. PICK op : op = ops[o]
    OBVIOUS
  <1>2. OpOK(op, Len(snapshots), Len(pipelines)) /\ op.at = "images" /\ UNCHANGED <<story, pipelines, cut>>
    BY <1>1, OpTypes DEF ListsShots, At
  <1>3. Ends(o) \/ Goes(o, [op EXCEPT !.at = "queue", !.todo = list])
    BY <1>1 DEF ListsShots
  <1> HIDE DEF list
  <1>4. OpOK([op EXCEPT !.at = "queue", !.todo = list], Len(snapshots), Len(pipelines))
    BY <1>2 DEF OpOK, NoOp, Steps, IsPiped
  <1> QED  BY <1>2, <1>3, <1>4, EndStep, GoStep

-----------------------------------------------------------------------------
(* Operations that write their pipeline or the cut.                        *)

\* A commit of an operation that goes on as next.
LEMMA CommitStep ==
  ASSUME PipelineInv, NEW o \in Ops, NEW op, OpOK(op, Len(snapshots), Len(pipelines)), op.pipe # 0,
         NEW row \in PipelineRow(Len(snapshots)), Commits(Changed(op, row)),
         NEW next, OpOK(next, Len(snapshots), Len(pipelines)), Goes(o, next),
         UNCHANGED story, CutTypes'
  PROVE  PipelineInv'
  <1>1. Len(snapshots) \in Nat /\ Len(pipelines) \in Nat /\ RunsOK
    BY OpTypes DEF PipelineInv
  <1>2. pipelines' \in Seq(PipelineRow(Len(snapshots))) /\ Len(pipelines') = Len(pipelines)
    BY <1>1, CommitTypes
  <1>3. Len(snapshots') = Len(snapshots)
    BY DEF story
  <1>4. OpOK(next, Len(snapshots'), Len(pipelines')) /\ pipelines' \in Seq(PipelineRow(Len(snapshots')))
    BY <1>2, <1>3
  <1>5. Len(snapshots') \in Nat /\ Len(snapshots) <= Len(snapshots') /\ Len(pipelines) <= Len(pipelines')
    BY <1>1, <1>2, <1>3
  <1>6. ops' = [ops EXCEPT ![o] = next]
    BY DEF Goes
  <1>7. RunsOK'
    BY <1>1, <1>4, <1>5, <1>6, StepKeepsRuns
  <1>8. StoryOK'
    BY StoryStays DEF PipelineInv
  <1> QED  BY <1>7, <1>8 DEF PipelineInv

LEMMA CutStays ==
  ASSUME PipelineInv, UNCHANGED <<cut, started, crashes>>
  PROVE  CutTypes'
  BY DEF PipelineInv, CutTypes, cut

LEMMA WaitsForReviewOK ==
  ASSUME PipelineInv, NEW o \in Ops, WaitsForReview(o)
  PROVE  PipelineInv'
  <1>1. PICK op : op = ops[o]
    OBVIOUS
  <1>2. OpOK(op, Len(snapshots), Len(pipelines)) /\ op.at = "previewed" /\ UNCHANGED <<story, cut>>
    BY <1>1, OpTypes DEF WaitsForReview, At
  <1>3. op.pipe # 0
    BY <1>2 DEF OpOK, IsPiped
  <1>4. PICK row : row = WithStages(op.row, {"analyze"})
    OBVIOUS
  <1>5. row \in PipelineRow(Len(snapshots))
    BY <1>2, <1>4, WithStagesTypes, OpTypes DEF OpOK, Stages
  <1>6. PICK done : done = [row EXCEPT !.snapshot = op.sid, !.status = "waiting_confirm"]
    OBVIOUS
  <1>7. done \in PipelineRow(Len(snapshots))
    BY <1>2, <1>5, <1>6 DEF OpOK, PipelineRow
  <1>8. Commits(Changed(op, done)) /\ Goes(o, NoOp)
    BY <1>1, <1>4, <1>6 DEF WaitsForReview, Ends
  <1>9. OpOK(NoOp, Len(snapshots), Len(pipelines))
    BY NoOpOK, OpTypes
  <1>10. CutTypes'
    BY <1>2, <1>8, CutStays DEF Goes
  <1> QED  BY <1>2, <1>3, <1>7, <1>8, <1>9, <1>10, CommitStep

LEMMA MarksShotsOK ==
  ASSUME PipelineInv, NEW o \in Ops, MarksShots(o)
  PROVE  PipelineInv'
  <1> DEFINE todo == LET list == InOrder(LiveScenes) IN
                     [i \in DOMAIN list |-> [scene |-> list[i], planned |-> scenes[list[i]].planned]]
  <1>1. PICK op : op = ops[o]
    OBVIOUS
  <1>2. OpOK(op, Len(snapshots), Len(pipelines)) /\ op.at = "mark" /\ UNCHANGED <<story, cut>>
    BY <1>1, OpTypes DEF MarksShots, At
  <1>3. op.pipe # 0
    BY <1>2 DEF OpOK, IsPiped
  <1>4. PICK row : row = WithStages(op.row, {"shots"})
    OBVIOUS
  <1>5. row \in PipelineRow(Len(snapshots))
    BY <1>2, <1>4, WithStagesTypes, OpTypes DEF OpOK, Stages
  <1>6. PICK clean : clean = Clean(Changed(op, row))
    OBVIOUS
  <1>7. OpOK(clean, Len(snapshots), Len(pipelines)) /\ clean.at = "mark"
    <2>1. OpOK(clean, Len(snapshots), Len(pipelines))
      BY <1>2, <1>5, <1>6, ChangedOK, OpTypes
    <2>2. clean.at = "mark"
      BY <1>2, <1>6 DEF Clean, Changed, OpOK, NoOp
    <2> QED  BY <2>1, <2>2
  <1>8. Commits(Changed(op, row)) /\ Goes(o, [clean EXCEPT !.at = "plan", !.todo = todo])
    BY <1>1, <1>4, <1>6 DEF MarksShots
  <1> HIDE DEF todo
  <1>9. OpOK([clean EXCEPT !.at = "plan", !.todo = todo], Len(snapshots), Len(pipelines))
    BY <1>7 DEF OpOK, NoOp, Steps, IsPiped
  <1>10. CutTypes'
    BY <1>2, <1>8, CutStays DEF Goes
  <1> QED  BY <1>2, <1>3, <1>5, <1>8, <1>9, <1>10, CommitStep

LEMMA MarksImagesOK ==
  ASSUME PipelineInv, NEW o \in Ops, MarksImages(o)
  PROVE  PipelineInv'
  <1>1. PICK op : op = ops[o]
    OBVIOUS
  <1>2. OpOK(op, Len(snapshots), Len(pipelines)) /\ op.at = "queue" /\ UNCHANGED <<story, cut>>
    BY <1>1, OpTypes DEF MarksImages, At
  <1>3. op.pipe # 0
    BY <1>2 DEF OpOK, IsPiped
  <1>4. PICK row : row = WithStages(op.row, {"images"})
    OBVIOUS
  <1>5. row \in PipelineRow(Len(snapshots))
    BY <1>2, <1>4, WithStagesTypes, OpTypes DEF OpOK, Stages
  <1>6. PICK done : done = [row EXCEPT !.status = "running"]
    OBVIOUS
  <1>7. done \in PipelineRow(Len(snapshots))
    BY <1>5, <1>6 DEF PipelineRow
  <1>8. Commits(Changed(op, done)) /\ Goes(o, NoOp)
    BY <1>1, <1>4, <1>6 DEF MarksImages, Ends
  <1>9. OpOK(NoOp, Len(snapshots), Len(pipelines))
    BY NoOpOK, OpTypes
  <1>10. CutTypes'
    BY <1>2, <1>8, CutStays DEF Goes
  <1> QED  BY <1>2, <1>3, <1>7, <1>8, <1>9, <1>10, CommitStep

LEMMA CompletesOK ==
  ASSUME PipelineInv, NEW o \in Ops, Completes(o)
  PROVE  PipelineInv'
  <1>1. PICK op : op = ops[o]
    OBVIOUS
  <1>2. OpOK(op, Len(snapshots), Len(pipelines)) /\ op.at = "close" /\ UNCHANGED <<story, cut>>
    BY <1>1, OpTypes DEF Completes, At
  <1>3. op.pipe # 0
    BY <1>2 DEF OpOK, IsPiped
  <1>4. PICK row : row = WithStages(op.row, {"render"})
    OBVIOUS
  <1>5. row \in PipelineRow(Len(snapshots))
    BY <1>2, <1>4, WithStagesTypes, OpTypes DEF OpOK, Stages
  <1>6. PICK done : done = [row EXCEPT !.status = "completed"]
    OBVIOUS
  <1>7. done \in PipelineRow(Len(snapshots))
    BY <1>5, <1>6 DEF PipelineRow
  <1>8. Commits(Changed(op, done)) /\ Goes(o, NoOp)
    BY <1>1, <1>4, <1>6 DEF Completes, Ends
  <1>9. OpOK(NoOp, Len(snapshots), Len(pipelines))
    BY NoOpOK, OpTypes
  <1>10. CutTypes'
    BY <1>2, <1>8, CutStays DEF Goes
  <1> QED  BY <1>2, <1>3, <1>7, <1>8, <1>9, <1>10, CommitStep

\* A step that leaves story and pipelines alone.
LEMMA CutStep ==
  ASSUME PipelineInv, NEW o \in Ops, NEW op, Goes(o, op), UNCHANGED <<story, pipelines>>,
         OpOK(op, Len(snapshots), Len(pipelines)), CutTypes'
  PROVE  PipelineInv'
  <1>1. StoryOK'
    BY StoryStays DEF PipelineInv
  <1>2. ops' = [ops EXCEPT ![o] = op] /\ Len(snapshots') = Len(snapshots) /\ pipelines' = pipelines
    BY DEF Goes, story
  <1>3. RunsOK'
    BY <1>2, OpTypes, StillStepKeepsRuns DEF PipelineInv
  <1> QED  BY <1>1, <1>3 DEF PipelineInv

LEMMA CreatesTimelineOK ==
  ASSUME PipelineInv, NEW o \in Ops, CreatesTimeline(o)
  PROVE  PipelineInv'
  <1>1. PICK op : op = ops[o]
    OBVIOUS
  <1>2. OpOK(op, Len(snapshots), Len(pipelines)) /\ UNCHANGED <<story, pipelines>>
    BY <1>1, OpTypes DEF CreatesTimeline
  <1>3. Goes(o, NoOp) \/ Goes(o, [op EXCEPT !.existing = TRUE])
    BY <1>1 DEF CreatesTimeline, Ends
  <1>4. OpOK([op EXCEPT !.existing = TRUE], Len(snapshots), Len(pipelines))
    BY <1>2 DEF OpOK, NoOp, IsPiped
  <1>5. OpOK(NoOp, Len(snapshots), Len(pipelines))
    BY NoOpOK, OpTypes
  <1>6. CutTypes'
    BY <1>3 DEF CreatesTimeline, Goes, PipelineInv, CutTypes
  <1> QED  BY <1>2, <1>3, <1>4, <1>5, <1>6, CutStep

LEMMA ArrangesOK ==
  ASSUME PipelineInv, NEW o \in Ops, Arranges(o)
  PROVE  PipelineInv'
  <1>1. PICK op : op = ops[o]
    OBVIOUS
  <1>2. OpOK(op, Len(snapshots), Len(pipelines)) /\ op.at = "timeline" /\ UNCHANGED <<story, pipelines>>
    BY <1>1, OpTypes DEF Arranges, At
  <1>3. PICK row : row = WithStages(op.row, {"timeline"})
    OBVIOUS
  <1>4. row \in PipelineRow(Len(snapshots))
    BY <1>2, <1>3, WithStagesTypes, OpTypes DEF OpOK, Stages
  <1>5. PICK w : w = Changed(op, row)
    OBVIOUS
  <1>6. OpOK(w, Len(snapshots), Len(pipelines)) /\ w.at = "timeline"
    <2>1. OpOK(w, Len(snapshots), Len(pipelines))
      BY <1>2, <1>4, <1>5, ChangedOK, OpTypes
    <2>2. w.at = "timeline"
      BY <1>2, <1>5 DEF Changed, OpOK, NoOp
    <2> QED  BY <2>1, <2>2
  <1>7. Goes(o, [w EXCEPT !.at = "render"])
    BY <1>1, <1>3, <1>5 DEF Arranges
  <1>8. OpOK([w EXCEPT !.at = "render"], Len(snapshots), Len(pipelines))
    BY <1>6 DEF OpOK, NoOp, Steps, IsPiped
  <1>9. LiveShots \subseteq Nat
    BY DEF LiveShots, PipelineInv, StoryOK, StoryTypes
  <1>10. CutTypes'
    BY <1>7, <1>9 DEF Arranges, Goes, PipelineInv, CutTypes
  <1> QED  BY <1>2, <1>7, <1>8, <1>10, CutStep

LEMMA QueuesRenderOK ==
  ASSUME PipelineInv, NEW o \in Ops, QueuesRender(o)
  PROVE  PipelineInv'
  <1>1. PICK op : op = ops[o]
    OBVIOUS
  <1>2. OpOK(op, Len(snapshots), Len(pipelines)) /\ op.at = "render" /\ UNCHANGED <<story, timeline>>
    BY <1>1, OpTypes DEF QueuesRender, At
  <1>3. op.pipe # 0 /\ op.row \in PipelineRow(Len(snapshots))
    BY <1>2 DEF OpOK, IsPiped
  <1>4. CASE renders' = renders + 1 /\ Commits(op) /\ Goes(o, [Clean(op) EXCEPT !.at = "close"])
    <2>1. Commits(Changed(op, op.row))
      <3>1. PICK w : w = Changed(op, op.row)
        OBVIOUS
      <3>2. w.pipe = op.pipe /\ w.row = op.row /\ w.base = op.base
        BY <1>2, <3>1 DEF Changed, OpOK, NoOp
      <3>3. Commits(w)
        BY <1>4, <3>2 DEF Commits, Flushed
      <3> QED  BY <3>1, <3>3
    <2>2. PICK clean : clean = Clean(op)
      OBVIOUS
    <2>3. OpOK(clean, Len(snapshots), Len(pipelines)) /\ clean.at = "render"
      BY <1>2, <2>2 DEF Clean, OpOK, NoOp, IsPiped
    <2>4. OpOK([clean EXCEPT !.at = "close"], Len(snapshots), Len(pipelines))
      BY <2>3 DEF OpOK, NoOp, Steps, IsPiped
    <2>5. CutTypes'
      BY <1>2, <1>4 DEF Goes, PipelineInv, CutTypes
    <2> QED  BY <1>2, <1>3, <1>4, <2>1, <2>2, <2>4, <2>5, CommitStep
  <1>5. CASE Ends(o) /\ UNCHANGED <<renders, pipelines>>
    BY <1>2, <1>5, EndStep DEF cut
  <1> QED  BY <1>1, <1>4, <1>5 DEF QueuesRender

-----------------------------------------------------------------------------
(* The story.                                                              *)

LEMMA ScenesOfIsFinite ==
  ASSUME StoryTypes, NEW i
  PROVE  IsFiniteSet(ScenesOf(i)) /\ Cardinality(ScenesOf(i)) \in Nat
  <1>1. ScenesOf(i) \in SUBSET (1..Len(scenes)) /\ Len(scenes) \in Nat
    BY DEF ScenesOf, StoryTypes
  <1>2. IsFiniteSet(1..Len(scenes))
    BY <1>1, FS_Interval
  <1> QED  BY <1>1, <1>2, FS_Subset, FS_CardinalityType

\* Snapshots stay written once by a step that writes no scenes of a snapshot and
\* takes no confirmation back.
LEMMA SnapshotsStayWritten ==
  ASSUME StoryOK, StoryTypes',
         \A s \in DOMAIN scenes' : scenes'[s].snapshot # 0 =>
            s \in DOMAIN scenes /\ scenes'[s].snapshot = scenes[s].snapshot,
         \A i \in DOMAIN snapshots :
            /\ i \in DOMAIN snapshots' /\ snapshots'[i].size = snapshots[i].size
            /\ snapshots[i].status = "confirmed" => snapshots'[i].status = "confirmed"
  PROVE  ScenesAreConfirmed' /\ SnapshotWrittenOnce'
  <1>1. ScenesAreConfirmed'
    BY DEF StoryOK, ScenesAreConfirmed
  <1>2. ASSUME NEW i \in DOMAIN snapshots' PROVE Cardinality(ScenesOf(i)') <= snapshots'[i].size
    <2>1. i # 0 /\ snapshots'[i].size \in Nat
      BY DEF StoryTypes, SnapshotRow
    <2>2. ScenesOf(i)' \subseteq ScenesOf(i)
      BY <2>1 DEF ScenesOf
    <2>3. IsFiniteSet(ScenesOf(i)) /\ Cardinality(ScenesOf(i)) \in Nat
      BY ScenesOfIsFinite DEF StoryOK
    <2>4. Cardinality(ScenesOf(i)') <= Cardinality(ScenesOf(i)) /\ Cardinality(ScenesOf(i)') \in Nat
      BY <2>2, <2>3, FS_Subset, FS_CardinalityType
    <2>5. CASE i \in DOMAIN snapshots
      <3>1. Cardinality(ScenesOf(i)) <= snapshots[i].size
        BY <2>5 DEF StoryOK, SnapshotWrittenOnce, ScenesOf
      <3>2. snapshots'[i].size = snapshots[i].size
        BY <2>5
      <3> QED  BY <2>1, <2>3, <2>4, <3>1, <3>2
    <2>6. CASE i \notin DOMAIN snapshots
      <3>1. ScenesOf(i) = {}
        BY <2>1, <2>6 DEF ScenesOf, StoryOK, ScenesAreConfirmed
      <3>2. Cardinality(ScenesOf(i)) = 0
        BY <3>1, FS_EmptySet
      <3> QED  BY <2>1, <2>3, <2>4, <3>2
    <2> QED  BY <2>5, <2>6
  <1>3. SnapshotWrittenOnce'
    BY <1>2 DEF SnapshotWrittenOnce, ScenesOf
  <1> QED  BY <1>1, <1>3

\* What remains when some scenes and their shots are deleted.
LEMMA WithoutOK ==
  ASSUME StoryOK, NEW S
  PROVE  /\ WithoutScenes(S) \in Seq(SceneRow) /\ Len(WithoutScenes(S)) = Len(scenes)
         /\ \A s \in DOMAIN scenes :
              /\ WithoutScenes(S)[s].snapshot = scenes[s].snapshot
              /\ WithoutScenes(S)[s].live = (scenes[s].live /\ s \notin S)
         /\ WithoutShotsOf(S) \in Seq(ShotRow) /\ Len(WithoutShotsOf(S)) = Len(shots)
         /\ \A t \in DOMAIN shots :
              /\ WithoutShotsOf(S)[t].scene = shots[t].scene
              /\ WithoutShotsOf(S)[t].live = (shots[t].live /\ shots[t].scene \notin S)
  <1>1. scenes \in Seq(SceneRow) /\ shots \in Seq(ShotRow)
    BY DEF StoryOK, StoryTypes
  <1>2. ASSUME NEW s \in DOMAIN scenes
        PROVE  /\ [scenes[s] EXCEPT !.live = @ /\ s \notin S] \in SceneRow
               /\ [scenes[s] EXCEPT !.live = @ /\ s \notin S].snapshot = scenes[s].snapshot
               /\ [scenes[s] EXCEPT !.live = @ /\ s \notin S].live = (scenes[s].live /\ s \notin S)
    <2>1. PICK x \in SceneRow : x = scenes[s]
      BY <1>1
    <2>2. PICK b \in BOOLEAN : b = (x.live /\ s \notin S)
      OBVIOUS
    <2>3. /\ [x EXCEPT !.live = b] \in SceneRow /\ [x EXCEPT !.live = b].snapshot = x.snapshot
          /\ [x EXCEPT !.live = b].live = b
      BY <2>1 DEF SceneRow
    <2>4. [x EXCEPT !.live = b] = [x EXCEPT !.live = @ /\ s \notin S]
      BY <2>2
    <2> QED  BY <2>1, <2>2, <2>3, <2>4
  <1>3. ASSUME NEW t \in DOMAIN shots
        PROVE  /\ [shots[t] EXCEPT !.live = @ /\ shots[t].scene \notin S] \in ShotRow
               /\ [shots[t] EXCEPT !.live = @ /\ shots[t].scene \notin S].scene = shots[t].scene
               /\ [shots[t] EXCEPT !.live = @ /\ shots[t].scene \notin S].live
                    = (shots[t].live /\ shots[t].scene \notin S)
    <2>1. PICK x \in ShotRow : x = shots[t]
      BY <1>1
    <2>2. PICK b \in BOOLEAN : b = (x.live /\ x.scene \notin S)
      OBVIOUS
    <2>3. /\ [x EXCEPT !.live = b] \in ShotRow /\ [x EXCEPT !.live = b].scene = x.scene
          /\ [x EXCEPT !.live = b].live = b
      BY <2>1 DEF ShotRow
    <2>4. [x EXCEPT !.live = b] = [x EXCEPT !.live = @ /\ x.scene \notin S]
      BY <2>2
    <2> QED  BY <2>1, <2>2, <2>3, <2>4
  <1>4. /\ WithoutScenes(S) \in Seq(SceneRow) /\ Len(WithoutScenes(S)) = Len(scenes)
        /\ \A s \in DOMAIN scenes : WithoutScenes(S)[s] = [scenes[s] EXCEPT !.live = @ /\ s \notin S]
    BY <1>1, <1>2 DEF WithoutScenes
  <1>5. /\ WithoutShotsOf(S) \in Seq(ShotRow) /\ Len(WithoutShotsOf(S)) = Len(shots)
        /\ \A t \in DOMAIN shots :
             WithoutShotsOf(S)[t] = [shots[t] EXCEPT !.live = @ /\ shots[t].scene \notin S]
    BY <1>1, <1>3 DEF WithoutShotsOf
  <1>6. ASSUME NEW s \in DOMAIN scenes
        PROVE  /\ WithoutScenes(S)[s].snapshot = scenes[s].snapshot
               /\ WithoutScenes(S)[s].live = (scenes[s].live /\ s \notin S)
    <2>1. WithoutScenes(S)[s] = [scenes[s] EXCEPT !.live = @ /\ s \notin S]
      BY ONLY <1>4, s \in DOMAIN scenes
    <2> QED  BY ONLY <1>2, <2>1, s \in DOMAIN scenes
  <1>7. ASSUME NEW t \in DOMAIN shots
        PROVE  /\ WithoutShotsOf(S)[t].scene = shots[t].scene
               /\ WithoutShotsOf(S)[t].live = (shots[t].live /\ shots[t].scene \notin S)
    <2>1. WithoutShotsOf(S)[t] = [shots[t] EXCEPT !.live = @ /\ shots[t].scene \notin S]
      BY ONLY <1>5, t \in DOMAIN shots
    <2> QED  BY ONLY <1>3, <2>1, t \in DOMAIN shots
  <1> QED  BY ONLY <1>4, <1>5, <1>6, <1>7

\* The reviewed or analysed scenes are written behind the others.
LEMMA WritesScenesOK ==
  ASSUME StoryOK, NEW n \in Nat, NEW key \in Nat, NEW snapshot \in Nat, WritesScenes(n, key, snapshot),
         snapshots' \in Seq(SnapshotRow)
  PROVE  /\ StoryTypes' /\ ShotsHaveScenes'
         /\ Len(scenes') = Len(scenes) + n
         /\ \A s \in DOMAIN scenes : scenes'[s].snapshot = scenes[s].snapshot
         /\ \A s \in Len(scenes) + 1 .. Len(scenes) + n : scenes'[s].snapshot = snapshot
  <1>1. PICK old, gone : old = WithoutScenes(Replaced) /\ gone = WithoutShotsOf(Replaced)
    OBVIOUS
  <1>2. PICK new : new = [i \in 1..n |-> Scene(key, snapshot)]
    OBVIOUS
  <1>3. scenes' = old \o new /\ shots' = gone /\ episode' = [episode EXCEPT !.key = key]
    BY <1>1, <1>2 DEF WritesScenes
  <1>4. /\ old \in Seq(SceneRow) /\ Len(old) = Len(scenes)
        /\ \A s \in DOMAIN scenes : old[s].snapshot = scenes[s].snapshot
        /\ \A s \in DOMAIN scenes : old[s].live = (scenes[s].live /\ s \notin Replaced)
    BY <1>1, WithoutOK
  <1>5. /\ gone \in Seq(ShotRow) /\ Len(gone) = Len(shots)
        /\ \A t \in DOMAIN shots :
             gone[t].scene = shots[t].scene /\ gone[t].live = (shots[t].live /\ shots[t].scene \notin Replaced)
    BY <1>1, WithoutOK
  <1>6. Scene(key, snapshot) \in SceneRow /\ Scene(key, snapshot).snapshot = snapshot
    BY DEF Scene, SceneRow
  <1>7. new \in Seq(SceneRow) /\ Len(new) = n /\ \A i \in 1..n : new[i].snapshot = snapshot
    BY <1>2, <1>6
  <1>8. scenes \in Seq(SceneRow) /\ shots \in Seq(ShotRow) /\ episode \in [text : Nat, key : Nat]
    BY DEF StoryOK, StoryTypes
  <1>9. /\ scenes' \in Seq(SceneRow) /\ Len(scenes') = Len(scenes) + n
        /\ \A i \in 1 .. Len(scenes) + n : scenes'[i] = IF i <= Len(scenes) THEN old[i] ELSE new[i - Len(scenes)]
    <2>1. /\ old \o new \in Seq(SceneRow) /\ Len(old \o new) = Len(old) + Len(new)
          /\ \A i \in 1 .. Len(old) + Len(new) : (old \o new)[i] = IF i <= Len(old) THEN old[i] ELSE new[i - Len(old)]
      BY ONLY <1>4, <1>7, ConcatProperties
    <2> QED  BY ONLY <1>3, <1>4, <1>7, <2>1
  <1>10. \A s \in DOMAIN scenes : s \in DOMAIN scenes' /\ scenes'[s] = old[s]
    BY <1>8, <1>9
  <1>11. \A s \in Len(scenes) + 1 .. Len(scenes) + n : scenes'[s].snapshot = snapshot
    <2> TAKE s \in Len(scenes) + 1 .. Len(scenes) + n
    <2>1. s - Len(scenes) \in 1..n /\ s \in 1 .. Len(scenes) + n /\ ~ (s <= Len(scenes))
      BY <1>8
    <2>2. scenes'[s] = new[s - Len(scenes)]
      BY <1>9, <2>1
    <2> QED  BY <1>7, <2>1, <2>2
  <1>12. StoryTypes'
    BY <1>3, <1>5, <1>8, <1>9 DEF StoryTypes
  <1>13. ShotsHaveScenes'
    <2> SUFFICES ASSUME NEW t \in DOMAIN shots'
                 PROVE  shots'[t].scene \in DOMAIN scenes' /\ (shots'[t].live => scenes'[shots'[t].scene].live)
      BY DEF ShotsHaveScenes
    <2>1. t \in DOMAIN shots /\ shots'[t] = gone[t]
      BY <1>3, <1>5, <1>8
    <2>2. shots[t].scene \in DOMAIN scenes /\ (shots[t].live => scenes[shots[t].scene].live)
      BY <2>1 DEF StoryOK, ShotsHaveScenes
    <2>3. PICK c : c = shots[t].scene
      OBVIOUS
    <2>4. shots'[t].scene = c /\ shots'[t].live = (shots[t].live /\ c \notin Replaced)
      BY <1>5, <2>1, <2>3
    <2>5. c \in DOMAIN scenes' /\ scenes'[c].live = (scenes[c].live /\ c \notin Replaced)
      BY <1>4, <1>10, <2>2, <2>3
    <2>6. PICK x \in SceneRow, y \in ShotRow : x = scenes[c] /\ y = shots[t]
      BY <1>8, <2>1, <2>2, <2>3
    <2>7. x.live \in BOOLEAN
      BY <2>6 DEF SceneRow
    <2>8. y.live \in BOOLEAN
      BY <2>6 DEF ShotRow
    <2>9. shots'[t].live = (y.live /\ c \notin Replaced) /\ scenes'[c].live = (x.live /\ c \notin Replaced)
      BY <2>4, <2>5, <2>6
    <2>10. y.live => x.live
      BY <2>2, <2>3, <2>6
    <2>11. shots'[t].live => scenes'[c].live
      BY ONLY <2>7, <2>8, <2>9, <2>10
    <2> QED  BY <2>4, <2>5, <2>11
  <1> QED  BY <1>4, <1>9, <1>10, <1>11, <1>12, <1>13

\* The scenes a step writes get the text they were made of, and are of a snapshot
\* that is confirmed now, and was written by nobody before.
LEMMA WrittenOnceOK ==
  ASSUME StoryOK, NEW n \in Nat, NEW key \in Nat, NEW snapshot \in Nat, WritesScenes(n, key, snapshot),
         snapshots' \in Seq(SnapshotRow), Len(snapshots') = Len(snapshots),
         \A i \in DOMAIN snapshots :
            /\ snapshots'[i].size = snapshots[i].size
            /\ snapshots[i].status = "confirmed" => snapshots'[i].status = "confirmed",
         snapshot # 0 => /\ snapshot \in DOMAIN snapshots /\ snapshots[snapshot].status # "confirmed"
                         /\ snapshots[snapshot].size = n /\ snapshots'[snapshot].status = "confirmed"
  PROVE  StoryOK'
  <1>1. /\ StoryTypes' /\ ShotsHaveScenes'
        /\ Len(scenes') = Len(scenes) + n
        /\ \A s \in DOMAIN scenes : scenes'[s].snapshot = scenes[s].snapshot
        /\ \A s \in Len(scenes) + 1 .. Len(scenes) + n : scenes'[s].snapshot = snapshot
    BY WritesScenesOK
  <1>2. /\ DOMAIN scenes = 1..Len(scenes) /\ Len(scenes) \in Nat
        /\ DOMAIN scenes' = 1..(Len(scenes) + n)
        /\ DOMAIN snapshots = 1..Len(snapshots) /\ DOMAIN snapshots' = 1..Len(snapshots) /\ Len(snapshots) \in Nat
    BY <1>1 DEF StoryOK, StoryTypes
  <1>3. \A s \in DOMAIN scenes' : s \in DOMAIN scenes \/ s \in Len(scenes) + 1 .. Len(scenes) + n
    BY <1>2
  <1>4. ScenesAreConfirmed'
    <2> SUFFICES ASSUME NEW s \in DOMAIN scenes', scenes'[s].snapshot # 0
                 PROVE  /\ scenes'[s].snapshot \in DOMAIN snapshots'
                        /\ snapshots'[scenes'[s].snapshot].status = "confirmed"
      BY DEF ScenesAreConfirmed
    <2>1. CASE s \in DOMAIN scenes
      <3>1. PICK i : i = scenes[s].snapshot
        OBVIOUS
      <3>2. i \in DOMAIN snapshots /\ snapshots[i].status = "confirmed"
        BY <1>1, <2>1, <3>1 DEF StoryOK, ScenesAreConfirmed
      <3> QED  BY <1>1, <1>2, <2>1, <3>1, <3>2
    <2>2. CASE s \in Len(scenes) + 1 .. Len(scenes) + n
      BY <1>1, <1>2, <2>2
    <2> QED  BY <1>3, <2>1, <2>2
  <1>5. ASSUME NEW i \in DOMAIN snapshots' PROVE Cardinality(ScenesOf(i)') <= snapshots'[i].size
    <2>1. i # 0 /\ i \in DOMAIN snapshots /\ snapshots'[i].size = snapshots[i].size
      BY <1>2
    <2>2. CASE i = snapshot
      <3>1. ScenesOf(i) = {}
        BY <2>1, <2>2 DEF ScenesOf, StoryOK, ScenesAreConfirmed
      <3>2. ScenesOf(i)' \subseteq Len(scenes) + 1 .. Len(scenes) + n
        BY <1>1, <1>3, <3>1 DEF ScenesOf
      <3>3. IsFiniteSet(Len(scenes) + 1 .. Len(scenes) + n) /\ Cardinality(Len(scenes) + 1 .. Len(scenes) + n) = n
        <4>1. Len(scenes) + 1 \in Int /\ Len(scenes) + n \in Int
          BY <1>2
        <4>2. PICK a \in Int, b \in Int : a = Len(scenes) + 1 /\ b = Len(scenes) + n
          BY <4>1
        <4>3. IsFiniteSet(a .. b) /\ Cardinality(a .. b) = IF a > b THEN 0 ELSE b - a + 1
          BY ONLY a \in Int, b \in Int, FS_Interval
        <4> QED  BY <1>2, <4>2, <4>3
      <3>4. Cardinality(ScenesOf(i)') <= n
        BY <3>2, <3>3, FS_Subset
      <3> QED  BY <2>1, <2>2, <3>4
    <2>3. CASE i # snapshot
      <3>1. ScenesOf(i)' \subseteq ScenesOf(i)
        BY <1>1, <1>3, <2>3 DEF ScenesOf
      <3>2. IsFiniteSet(ScenesOf(i)) /\ Cardinality(ScenesOf(i)) \in Nat
        BY ScenesOfIsFinite DEF StoryOK
      <3>3. Cardinality(ScenesOf(i)') <= Cardinality(ScenesOf(i)) /\ Cardinality(ScenesOf(i)') \in Nat
        BY <3>1, <3>2, FS_Subset, FS_CardinalityType
      <3>4. Cardinality(ScenesOf(i)) <= snapshots[i].size
        BY <2>1 DEF StoryOK, SnapshotWrittenOnce, ScenesOf
      <3>5. snapshots[i].size \in Nat
        BY <2>1 DEF StoryOK, StoryTypes, SnapshotRow
      <3> QED  BY <2>1, <3>2, <3>3, <3>4, <3>5
    <2> QED  BY <2>2, <2>3
  <1>6. SnapshotWrittenOnce'
    BY <1>5 DEF SnapshotWrittenOnce, ScenesOf
  <1> QED  BY <1>1, <1>4, <1>6 DEF StoryOK

\* A step of an operation that writes to the story, and to no pipeline.
LEMMA StoryStep ==
  ASSUME PipelineInv, NEW o \in Ops, NEW op, Goes(o, op), UNCHANGED <<pipelines, cut>>, StoryOK',
         Len(snapshots') = Len(snapshots), OpOK(op, Len(snapshots), Len(pipelines))
  PROVE  PipelineInv'
  <1>1. ops' = [ops EXCEPT ![o] = op] /\ UNCHANGED <<started, crashes>>
    BY DEF Goes
  <1>2. RunsOK'
    BY <1>1, OpTypes, StillStepKeepsRuns DEF PipelineInv
  <1>3. CutTypes'
    BY <1>1, CutStays
  <1> QED  BY <1>2, <1>3 DEF PipelineInv

\* The status of one snapshot is written.
LEMMA StatusOK ==
  ASSUME StoryTypes, NEW i \in DOMAIN snapshots, NEW status \in {"pending", "confirmed", "expired"},
         snapshots' = [snapshots EXCEPT ![i].status = status]
  PROVE  /\ snapshots' \in Seq(SnapshotRow) /\ Len(snapshots') = Len(snapshots)
         /\ snapshots'[i].status = status
         /\ \A j \in DOMAIN snapshots :
              j \in DOMAIN snapshots' /\ snapshots'[j].size = snapshots[j].size /\ (j # i => snapshots'[j] = snapshots[j])
  <1>1. snapshots \in Seq(SnapshotRow)
    BY DEF StoryTypes
  <1>2. PICK x \in SnapshotRow : x = snapshots[i]
    BY <1>1
  <1>3. [x EXCEPT !.status = status] \in SnapshotRow /\ [x EXCEPT !.status = status].size = x.size
        /\ [x EXCEPT !.status = status].status = status
    BY <1>2 DEF SnapshotRow
  <1>4. PICK y \in SnapshotRow : y = [x EXCEPT !.status = status]
    BY <1>3
  <1>5. snapshots' = [snapshots EXCEPT ![i] = y]
    BY <1>2, <1>4
  <1>6. /\ snapshots' \in Seq(SnapshotRow) /\ Len(snapshots') = Len(snapshots) /\ snapshots'[i] = y
        /\ \A j \in DOMAIN snapshots : j \in DOMAIN snapshots' /\ (j # i => snapshots'[j] = snapshots[j])
    BY ONLY <1>1, <1>5, i \in DOMAIN snapshots, y \in SnapshotRow
  <1>7. ASSUME NEW j \in DOMAIN snapshots PROVE snapshots'[j].size = snapshots[j].size
    <2>1. CASE j = i
      BY ONLY <2>1, <1>2, <1>3, <1>4, <1>6
    <2>2. CASE j # i
      BY ONLY <2>2, <1>6, <1>7
    <2> QED  BY <2>1, <2>2
  <1> QED  BY ONLY <1>3, <1>4, <1>6, <1>7

LEMMA WritesSnapshotOK ==
  ASSUME PipelineInv, NEW o \in Ops, WritesSnapshot(o)
  PROVE  PipelineInv'
  <1>1. PICK op : op = ops[o]
    OBVIOUS
  <1>2. PICK i : i = op.sid
    OBVIOUS
  <1>3. OpOK(op, Len(snapshots), Len(pipelines)) /\ op.at = "confirm" /\ UNCHANGED <<pipelines, cut>>
    BY <1>1, OpTypes DEF WritesSnapshot, At
  <1>4. StoryOK /\ StoryTypes /\ snapshots \in Seq(SnapshotRow)
    BY DEF PipelineInv, StoryOK, StoryTypes
  <1>5. i \in DOMAIN snapshots
    BY <1>2, <1>3, <1>4, OpTypes DEF OpOK
  <1>6. PICK s \in SnapshotRow : s = snapshots[i]
    BY <1>4, <1>5
  <1>7. s.status = "pending" /\ s.size \in Nat /\ s.hash \in Nat /\ i \in Nat
    BY <1>1, <1>2, <1>4, <1>5, <1>6 DEF WritesSnapshot, Accepts, SnapshotRow
  <1>8. /\ WritesScenes(s.size, s.hash, i)
        /\ snapshots' = [snapshots EXCEPT ![i].status = "confirmed"] /\ Goes(o, AfterConfirm(op))
    BY <1>1, <1>2, <1>6 DEF WritesSnapshot
  <1>9. /\ snapshots' \in Seq(SnapshotRow) /\ Len(snapshots') = Len(snapshots)
        /\ snapshots'[i].status = "confirmed"
        /\ \A j \in DOMAIN snapshots :
             j \in DOMAIN snapshots' /\ snapshots'[j].size = snapshots[j].size /\ (j # i => snapshots'[j] = snapshots[j])
    BY <1>4, <1>5, <1>8, StatusOK
  <1>10. \A j \in DOMAIN snapshots : snapshots[j].status = "confirmed" => snapshots'[j].status = "confirmed"
    BY <1>9
  <1>11. StoryOK'
    <2>1. snapshots[i].status # "confirmed" /\ snapshots[i].size = s.size
      BY <1>6, <1>7
    <2>2. \A j \in DOMAIN snapshots :
            /\ snapshots'[j].size = snapshots[j].size
            /\ snapshots[j].status = "confirmed" => snapshots'[j].status = "confirmed"
      BY <1>9, <1>10
    <2> QED  BY <1>4, <1>5, <1>7, <1>8, <1>9, <2>1, <2>2, WrittenOnceOK
  <1>12. OpOK(AfterConfirm(op), Len(snapshots), Len(pipelines))
    BY <1>3, OpTypes, AfterConfirmOK
  <1> QED  BY <1>3, <1>8, <1>9, <1>11, <1>12, StoryStep

LEMMA RefusesSnapshotOK ==
  ASSUME PipelineInv, NEW o \in Ops, RefusesSnapshot(o)
  PROVE  PipelineInv'
  <1>1. PICK i : i = ops[o].sid
    OBVIOUS
  <1>2. OpOK(ops[o], Len(snapshots), Len(pipelines)) /\ ops[o].at = "confirm" /\ UNCHANGED <<pipelines, cut>>
    BY OpTypes DEF RefusesSnapshot, At
  <1>3. StoryOK /\ StoryTypes /\ snapshots \in Seq(SnapshotRow)
    BY DEF PipelineInv, StoryOK, StoryTypes
  <1>4. i \in DOMAIN snapshots
    BY <1>1, <1>2, <1>3, OpTypes DEF OpOK
  <1>5. /\ snapshots[i].status # "confirmed" /\ snapshots' = [snapshots EXCEPT ![i].status = "expired"]
        /\ Goes(o, NoOp) /\ UNCHANGED <<episode, scenes, shots>>
    BY <1>1 DEF RefusesSnapshot, Ends
  <1>6. /\ snapshots' \in Seq(SnapshotRow) /\ Len(snapshots') = Len(snapshots)
        /\ \A j \in DOMAIN snapshots :
             j \in DOMAIN snapshots' /\ snapshots'[j].size = snapshots[j].size /\ (j # i => snapshots'[j] = snapshots[j])
    BY <1>3, <1>4, <1>5, StatusOK
  <1>7. StoryTypes'
    BY <1>3, <1>5, <1>6 DEF StoryTypes
  <1>8. ShotsHaveScenes'
    BY <1>3, <1>5 DEF StoryOK, ShotsHaveScenes
  <1>9. ScenesAreConfirmed' /\ SnapshotWrittenOnce'
    <2>1. \A j \in DOMAIN snapshots :
            /\ j \in DOMAIN snapshots' /\ snapshots'[j].size = snapshots[j].size
            /\ snapshots[j].status = "confirmed" => snapshots'[j].status = "confirmed"
      BY <1>5, <1>6
    <2> QED  BY <1>3, <1>5, <1>7, <2>1, SnapshotsStayWritten
  <1>10. StoryOK'
    BY <1>7, <1>8, <1>9 DEF StoryOK
  <1> QED  BY <1>2, <1>5, <1>6, <1>10, NoOpOK, OpTypes, StoryStep

LEMMA AnalysisWritesOK ==
  ASSUME PipelineInv, NEW o \in Ops, NEW n \in PlanSizes, AnalysisWrites(o, n)
  PROVE  PipelineInv'
  <1>1. PICK key : key = ops[o].text
    OBVIOUS
  <1>2. key \in Nat /\ n \in Nat
    BY <1>1, OpTypes DEF OpOK, PipelineAssumption
  <1>3. WritesScenes(n, key, 0) /\ Goes(o, NoOp) /\ UNCHANGED <<snapshots, pipelines, cut>>
    BY <1>1 DEF AnalysisWrites, Ends
  <1>4. StoryOK /\ snapshots' \in Seq(SnapshotRow) /\ Len(snapshots') = Len(snapshots)
    BY <1>3 DEF PipelineInv, StoryOK, StoryTypes
  <1>5. StoryOK'
    BY <1>2, <1>3, <1>4, WrittenOnceOK
  <1> QED  BY <1>3, <1>4, <1>5, NoOpOK, OpTypes, StoryStep

\* The shots an operation replaces go, and nothing else changes in a shot.
Kept(scene) == [t \in DOMAIN shots |-> [shots[t] EXCEPT !.live = @ /\ ~ (shots[t].scene = scene /\ shots[t].key # 0)]]

LEMMA ShotsReplacedOK ==
  ASSUME shots \in Seq(ShotRow), NEW scene, NEW kept, kept = Kept(scene)
  PROVE  /\ kept \in Seq(ShotRow) /\ Len(kept) = Len(shots)
         /\ \A t \in DOMAIN shots : kept[t].scene = shots[t].scene /\ (kept[t].live => shots[t].live)
  <1>1. ASSUME NEW t \in DOMAIN shots
        PROVE  kept[t] \in ShotRow /\ kept[t].scene = shots[t].scene /\ (kept[t].live => shots[t].live)
    <2>1. PICK x \in ShotRow : x = shots[t]
      OBVIOUS
    <2>2. PICK b \in BOOLEAN : b = (x.live /\ ~ (x.scene = scene /\ x.key # 0))
      OBVIOUS
    <2>3. /\ [x EXCEPT !.live = b] \in ShotRow /\ [x EXCEPT !.live = b].scene = x.scene
          /\ [x EXCEPT !.live = b].live = b
      BY <2>1 DEF ShotRow
    <2>4. [x EXCEPT !.live = b] = [x EXCEPT !.live = @ /\ ~ (x.scene = scene /\ x.key # 0)]
      BY <2>2
    <2>5. kept[t] = [x EXCEPT !.live = b]
      BY <2>1, <2>4 DEF Kept
    <2>6. b => x.live
      BY <2>2
    <2>7. kept[t].live => shots[t].live
      BY ONLY <2>1, <2>3, <2>5, <2>6
    <2> QED  BY <2>1, <2>3, <2>5, <2>7
  <1>2. DOMAIN kept = 1..Len(shots) /\ Len(shots) \in Nat
    BY DEF Kept
  <1>3. kept \in Seq(ShotRow) /\ Len(kept) = Len(shots)
    <2>1. kept = [t \in 1..Len(shots) |-> kept[t]]
      BY <1>2 DEF Kept
    <2>2. \A t \in 1..Len(shots) : kept[t] \in ShotRow
      <3>1. DOMAIN shots = 1..Len(shots)
        OBVIOUS
      <3> QED  BY ONLY <1>1, <3>1
    <2> QED  BY ONLY <1>2, <2>1, <2>2
  <1> QED  BY <1>1, <1>3

LEMMA WritesShotsOK ==
  ASSUME PipelineInv, NEW o \in Ops, NEW n \in PlanSizes, WritesShots(o, n)
  PROVE  PipelineInv'
  <1>1. PICK op, e : op = ops[o] /\ e = Head(ops[o].todo)
    OBVIOUS
  <1>2. /\ OpOK(op, Len(snapshots), Len(pipelines)) /\ op.at = "planning"
        /\ UNCHANGED <<episode, snapshots, pipelines, cut>>
    BY <1>1, OpTypes DEF WritesShots, At
  <1>3. OpOK([op EXCEPT !.at = "plan", !.todo = Tail(@)], Len(snapshots), Len(pipelines))
    BY <1>2 DEF OpOK, NoOp, Steps, IsPiped
  <1>4. StoryOK /\ StoryTypes /\ scenes \in Seq(SceneRow) /\ shots \in Seq(ShotRow) /\ op.text \in Nat /\ n \in Nat
    BY <1>2 DEF PipelineInv, StoryOK, StoryTypes, OpOK
  <1>5. CASE /\ e.scene \in LiveScenes
             /\ shots' = Kept(e.scene) \o [i \in 1..n |-> Shot(e.scene, op.text, TRUE)]
             /\ scenes' = IF e.planned = op.text THEN scenes ELSE [scenes EXCEPT ![e.scene].planned = op.text]
             /\ Goes(o, [op EXCEPT !.at = "plan", !.todo = Tail(@)])
    <2>1. PICK c \in DOMAIN scenes : c = e.scene /\ scenes[c].live
      BY <1>5 DEF LiveScenes
    <2>2. /\ scenes' \in Seq(SceneRow) /\ Len(scenes') = Len(scenes)
          /\ \A s \in DOMAIN scenes : scenes'[s].live = scenes[s].live /\ scenes'[s].snapshot = scenes[s].snapshot
      <3>1. PICK x \in SceneRow : x = scenes[c]
        BY <1>4, <2>1
      <3>2. /\ [x EXCEPT !.planned = op.text] \in SceneRow
            /\ [x EXCEPT !.planned = op.text].live = x.live
            /\ [x EXCEPT !.planned = op.text].snapshot = x.snapshot
        BY <1>4, <3>1 DEF SceneRow
      <3>3. PICK y \in SceneRow : y = [x EXCEPT !.planned = op.text]
        BY <3>2
      <3>4. scenes' = scenes \/ scenes' = [scenes EXCEPT ![c] = y]
        BY <1>5, <2>1, <3>1, <3>3
      <3>5. /\ [scenes EXCEPT ![c] = y] \in Seq(SceneRow) /\ Len([scenes EXCEPT ![c] = y]) = Len(scenes)
            /\ \A s \in DOMAIN scenes : s # c => [scenes EXCEPT ![c] = y][s] = scenes[s]
            /\ [scenes EXCEPT ![c] = y][c] = y
        BY ONLY <1>4, c \in DOMAIN scenes, y \in SceneRow
      <3>6. \A s \in DOMAIN scenes : /\ [scenes EXCEPT ![c] = y][s].live = scenes[s].live
                                     /\ [scenes EXCEPT ![c] = y][s].snapshot = scenes[s].snapshot
        <4> TAKE s \in DOMAIN scenes
        <4>1. CASE s = c
          BY ONLY <4>1, <3>1, <3>2, <3>3, <3>5
        <4>2. CASE s # c
          BY ONLY <4>2, <3>5, s \in DOMAIN scenes
        <4> QED  BY <4>1, <4>2
      <3> QED  BY ONLY <1>4, <3>4, <3>5, <3>6
    <2>3. PICK old, more, z : old = Kept(c) /\ more = [i \in 1..n |-> z] /\ z = Shot(c, op.text, TRUE)
      OBVIOUS
    <2>4. /\ old \in Seq(ShotRow) /\ Len(old) = Len(shots)
          /\ \A t \in DOMAIN shots : old[t].scene = shots[t].scene /\ (old[t].live => shots[t].live)
      BY <1>4, <2>3, ShotsReplacedOK
    <2>5. z \in ShotRow /\ z.scene = c
      BY <1>4, <2>1, <2>3 DEF Shot, ShotRow
    <2>6. more \in Seq(ShotRow) /\ Len(more) = n /\ \A i \in 1..n : more[i].scene = c
      <3>1. n \in Nat /\ more = [i \in 1..n |-> z]
        BY <1>4, <2>3
      <3> QED  BY ONLY <2>5, <3>1
    <2>7. /\ old \o more \in Seq(ShotRow) /\ Len(old \o more) = Len(old) + Len(more)
          /\ \A i \in 1 .. Len(old) + Len(more) : (old \o more)[i] = IF i <= Len(old) THEN old[i] ELSE more[i - Len(old)]
      BY ONLY <2>4, <2>6, ConcatProperties
    <2>8. /\ shots' \in Seq(ShotRow) /\ Len(shots') = Len(shots) + n
          /\ \A i \in 1 .. Len(shots) + n : shots'[i] = IF i <= Len(shots) THEN old[i] ELSE more[i - Len(shots)]
      <3>1. shots' = old \o more
        BY <1>5, <2>1, <2>3
      <3> QED  BY ONLY <2>4, <2>6, <2>7, <3>1
    <2>9. StoryTypes'
      BY <1>2, <1>4, <2>2, <2>8 DEF StoryTypes
    <2>10. ShotsHaveScenes'
      <3> SUFFICES ASSUME NEW t \in DOMAIN shots'
                   PROVE  shots'[t].scene \in DOMAIN scenes' /\ (shots'[t].live => scenes'[shots'[t].scene].live)
        BY DEF ShotsHaveScenes
      <3>1. t \in 1 .. Len(shots) + n /\ DOMAIN scenes' = DOMAIN scenes /\ Len(shots) \in Nat
        BY <1>4, <2>2, <2>8
      <3>2. CASE t <= Len(shots)
        <4>1. t \in DOMAIN shots /\ shots'[t] = old[t]
          BY <1>4, <2>8, <3>1, <3>2
        <4>2. PICK d : d = shots[t].scene
          OBVIOUS
        <4>3. d \in DOMAIN scenes /\ (shots[t].live => scenes[d].live)
          BY <1>4, <4>1, <4>2 DEF StoryOK, ShotsHaveScenes
        <4>4. shots'[t].scene = d /\ (shots'[t].live => shots[t].live)
          BY <2>4, <4>1, <4>2
        <4>5. scenes'[d].live = scenes[d].live
          BY <2>2, <4>3
        <4> QED  BY <3>1, <4>3, <4>4, <4>5
      <3>3. CASE ~ (t <= Len(shots))
        <4>1. t - Len(shots) \in 1..n /\ shots'[t] = more[t - Len(shots)]
          BY <1>4, <2>8, <3>1, <3>3
        <4>2. shots'[t].scene = c
          BY <2>6, <4>1
        <4>3. scenes'[c].live
          BY <2>1, <2>2
        <4> QED  BY <3>1, <4>2, <4>3
      <3> QED  BY <3>2, <3>3
    <2>11. ScenesAreConfirmed' /\ SnapshotWrittenOnce'
      <3>1. \A s \in DOMAIN scenes' : scenes'[s].snapshot # 0 =>
              s \in DOMAIN scenes /\ scenes'[s].snapshot = scenes[s].snapshot
        BY <1>4, <2>2
      <3> QED  BY <1>2, <1>4, <2>9, <3>1, SnapshotsStayWritten
    <2>12. StoryOK'
      BY <2>9, <2>10, <2>11 DEF StoryOK
    <2> QED  BY <1>2, <1>3, <1>5, <2>12, StoryStep
  <1>6. CASE Goes(o, NoOp) /\ UNCHANGED <<shots, scenes>>
    <2>1. UNCHANGED <<story, pipelines, cut>>
      BY <1>2, <1>6 DEF story
    <2> QED  BY <1>6, <2>1, NoOpOK, OpTypes, GoStep
  <1> QED  BY <1>1, <1>5, <1>6 DEF WritesShots, StillThere, Ends, Kept

\* The image of a shot changes.
LEMMA ImageOK ==
  ASSUME StoryOK, NEW t, NEW image \in {"none", "queued", "active"}, shots' = [shots EXCEPT ![t].image = image],
         UNCHANGED <<episode, snapshots, scenes>>
  PROVE  StoryOK'
  <1>1. shots \in Seq(ShotRow) /\ StoryTypes
    BY DEF StoryOK, StoryTypes
  <1>2. CASE t \in DOMAIN shots
    <2>1. PICK x \in ShotRow : x = shots[t]
      BY <1>1, <1>2
    <2>2. PICK y : y = [x EXCEPT !.image = image]
      OBVIOUS
    <2>3. y \in ShotRow /\ y.scene = x.scene /\ y.live = x.live
      BY <2>1, <2>2 DEF ShotRow
    <2>4. shots' = [shots EXCEPT ![t] = y]
      BY <2>1, <2>2
    <2>5. /\ shots' \in Seq(ShotRow) /\ DOMAIN shots' = DOMAIN shots /\ shots'[t] = y
          /\ \A u \in DOMAIN shots : u # t => shots'[u] = shots[u]
      BY ONLY <1>1, <1>2, <2>3, <2>4
    <2>6. \A u \in DOMAIN shots : shots'[u].scene = shots[u].scene /\ shots'[u].live = shots[u].live
      <3> TAKE u \in DOMAIN shots
      <3>1. CASE u = t
        BY ONLY <3>1, <2>1, <2>3, <2>5
      <3>2. CASE u # t
        BY ONLY <3>2, <2>5, u \in DOMAIN shots
      <3> QED  BY <3>1, <3>2
    <2>7. StoryTypes'
      BY <1>1, <2>5 DEF StoryTypes
    <2>8. ShotsHaveScenes'
      BY <2>5, <2>6 DEF StoryOK, ShotsHaveScenes
    <2>9. ScenesAreConfirmed'
      BY DEF StoryOK, ScenesAreConfirmed
    <2>10. SnapshotWrittenOnce'
      BY DEF StoryOK, SnapshotWrittenOnce
    <2> QED  BY <2>7, <2>8, <2>9, <2>10 DEF StoryOK
  <1>3. CASE t \notin DOMAIN shots
    <2>1. shots' = shots
      BY <1>1, <1>3
    <2> QED  BY <2>1, StoryStays DEF story
  <1> QED  BY <1>2, <1>3

LEMMA QueuesImageOK ==
  ASSUME PipelineInv, NEW o \in Ops, QueuesImage(o)
  PROVE  PipelineInv'
  <1>1. PICK op, t : op = ops[o] /\ t = Head(ops[o].todo)
    OBVIOUS
  <1>2. /\ OpOK(op, Len(snapshots), Len(pipelines)) /\ op.at = "queue"
        /\ UNCHANGED <<episode, snapshots, scenes, pipelines, cut>>
    BY <1>1, OpTypes DEF QueuesImage, At
  <1>3. OpOK([op EXCEPT !.todo = Tail(@)], Len(snapshots), Len(pipelines))
    BY <1>2 DEF OpOK, NoOp, Steps, IsPiped
  <1>4. CASE Ends(o) /\ UNCHANGED shots
    <2>1. UNCHANGED <<story, pipelines, cut>>
      BY <1>2, <1>4 DEF story
    <2> QED  BY <1>4, <2>1, EndStep
  <1>5. CASE shots' = [shots EXCEPT ![t].image = "queued"] /\ Goes(o, [op EXCEPT !.todo = Tail(@)])
    <2>1. StoryOK'
      BY <1>2, <1>5, ImageOK DEF PipelineInv
    <2> QED  BY <1>2, <1>3, <1>5, <2>1, StoryStep
  <1> QED  BY <1>1, <1>4, <1>5 DEF QueuesImage

LEMMA SavesPreviewOK ==
  ASSUME PipelineInv, NEW o \in Ops, NEW n \in PlanSizes, SavesPreview(o, n)
  PROVE  PipelineInv'
  <1>1. PICK op, s : op = ops[o] /\ s = SnapshotOf(ops[o], n)
    OBVIOUS
  <1>2. /\ OpOK(op, Len(snapshots), Len(pipelines)) /\ op.at = "analysing" /\ op.kind # "analyze"
        /\ UNCHANGED <<episode, scenes, shots, pipelines, cut>>
        /\ snapshots' = Append(snapshots, s)
        /\ Goes(o, [op EXCEPT !.at = "previewed", !.sid = Len(snapshots) + 1])
    BY <1>1, OpTypes DEF SavesPreview, At
  <1>3. s \in SnapshotRow
    BY <1>1, <1>2 DEF SnapshotOf, SnapshotRow, OpOK
  <1>4. StoryOK /\ StoryTypes /\ snapshots \in Seq(SnapshotRow) /\ RunsOK
    BY DEF PipelineInv, StoryOK, StoryTypes
  <1>5. /\ snapshots' \in Seq(SnapshotRow) /\ Len(snapshots') = Len(snapshots) + 1
        /\ \A i \in DOMAIN snapshots : i \in DOMAIN snapshots' /\ snapshots'[i] = snapshots[i]
    BY <1>2, <1>3, <1>4, AppendProperties
  <1>6. StoryTypes'
    BY <1>2, <1>4, <1>5 DEF StoryTypes
  <1>7. ShotsHaveScenes'
    BY <1>2, <1>4 DEF StoryOK, ShotsHaveScenes
  <1>8. ScenesAreConfirmed' /\ SnapshotWrittenOnce'
    <2>1. \A i \in DOMAIN snapshots :
            /\ i \in DOMAIN snapshots' /\ snapshots'[i].size = snapshots[i].size
            /\ snapshots[i].status = "confirmed" => snapshots'[i].status = "confirmed"
      BY <1>5
    <2> QED  BY <1>2, <1>4, <1>6, <2>1, SnapshotsStayWritten
  <1>9. StoryOK'
    BY <1>6, <1>7, <1>8 DEF StoryOK
  <1>10. Len(snapshots) \in Nat /\ Len(pipelines) \in Nat /\ Len(snapshots') \in Nat /\ Len(snapshots) <= Len(snapshots')
    BY <1>5, OpTypes
  <1>11. RunsOK'
    <2>1. OpOK(op, Len(snapshots'), Len(pipelines))
      BY <1>2, <1>10, OpsGrow
    <2>2. IsPiped(op) /\ op.kind # "none" /\ op.pipe # 0
      BY <1>2 DEF OpOK, IsPiped, Kinds
    <2>3. PICK m \in Nat, p \in Nat : m = Len(snapshots') /\ p = Len(pipelines)
      BY <1>10
    <2>4. Len(snapshots) + 1 = m /\ m \in 0..m
      BY <1>5, <2>3
    <2>5. OpOK([op EXCEPT !.at = "previewed", !.sid = m], m, p)
      BY <2>1, <2>2, <2>3, <2>4 DEF OpOK, NoOp, Steps, IsPiped
    <2>6. PICK next : next = [op EXCEPT !.at = "previewed", !.sid = Len(snapshots) + 1]
      OBVIOUS
    <2>7. OpOK(next, Len(snapshots'), Len(pipelines')) /\ ops' = [ops EXCEPT ![o] = next]
      BY <1>2, <2>3, <2>4, <2>5, <2>6 DEF Goes
    <2>8. pipelines' \in Seq(PipelineRow(Len(snapshots'))) /\ Len(pipelines) <= Len(pipelines')
      <3>1. pipelines \in Seq(PipelineRow(Len(snapshots))) /\ pipelines' = pipelines
        BY <1>2, <1>4 DEF RunsOK
      <3>2. PipelineRow(Len(snapshots)) \subseteq PipelineRow(Len(snapshots'))
        BY <1>10, RowsGrow
      <3> QED  BY <1>10, <3>1, <3>2
    <2> QED  BY <1>4, <1>10, <2>7, <2>8, StepKeepsRuns
  <1>12. CutTypes'
    BY <1>2, CutStays DEF Goes
  <1> QED  BY <1>9, <1>11, <1>12 DEF PipelineInv

-----------------------------------------------------------------------------
(* The user, the worker and the process.                                   *)

LEMMA UserStep ==
  ASSUME PipelineInv, StoryOK', UNCHANGED <<snapshots, pipelines, cut, ops, started, crashes>>
  PROVE  PipelineInv'
  <1>1. RunsOK'
    BY SameOpsKeepRuns DEF PipelineInv
  <1>2. CutTypes'
    BY CutStays
  <1> QED  BY <1>1, <1>2 DEF PipelineInv

LEMMA UserEditsTextOK ==
  ASSUME PipelineInv, UserEditsText
  PROVE  PipelineInv'
  <1>1. StoryOK /\ episode' = [episode EXCEPT !.text = @ + 1]
        /\ UNCHANGED <<snapshots, scenes, shots, pipelines, cut, ops, started, crashes>>
    BY DEF UserEditsText, PipelineInv
  <1>2. StoryTypes'
    BY <1>1 DEF StoryOK, StoryTypes
  <1>3. ShotsHaveScenes'
    BY <1>1 DEF StoryOK, ShotsHaveScenes
  <1>4. ScenesAreConfirmed'
    BY <1>1 DEF StoryOK, ScenesAreConfirmed
  <1>5. SnapshotWrittenOnce'
    BY <1>1 DEF StoryOK, SnapshotWrittenOnce
  <1>6. StoryOK'
    BY <1>2, <1>3, <1>4, <1>5 DEF StoryOK
  <1> QED  BY <1>1, <1>6, UserStep

LEMMA UserAddsSceneOK ==
  ASSUME PipelineInv, UserAddsScene
  PROVE  PipelineInv'
  <1>1. /\ StoryOK /\ StoryTypes /\ scenes \in Seq(SceneRow)
        /\ UNCHANGED <<episode, snapshots, shots, pipelines, cut, ops, started, crashes>>
    BY DEF UserAddsScene, PipelineInv, StoryOK, StoryTypes
  <1>2. PICK x : x = Scene(0, 0) /\ scenes' = Append(scenes, x)
    BY DEF UserAddsScene
  <1>3. x \in SceneRow /\ x.snapshot = 0
    BY <1>2 DEF Scene, SceneRow
  <1>4. /\ scenes' \in Seq(SceneRow) /\ Len(scenes') = Len(scenes) + 1 /\ scenes'[Len(scenes) + 1] = x
        /\ \A s \in DOMAIN scenes : s \in DOMAIN scenes' /\ scenes'[s] = scenes[s]
    BY <1>1, <1>2, <1>3, AppendProperties
  <1>5. StoryTypes'
    BY <1>1, <1>4 DEF StoryTypes
  <1>6. ShotsHaveScenes'
    BY <1>1, <1>4 DEF StoryOK, ShotsHaveScenes
  <1>7. ScenesAreConfirmed' /\ SnapshotWrittenOnce'
    <2>1. \A s \in DOMAIN scenes' : s \in DOMAIN scenes \/ s = Len(scenes) + 1
      BY <1>1, <1>4
    <2>2. \A s \in DOMAIN scenes' : scenes'[s].snapshot # 0 =>
              s \in DOMAIN scenes /\ scenes'[s].snapshot = scenes[s].snapshot
      BY <1>3, <1>4, <2>1
    <2> QED  BY <1>1, <1>5, <2>2, SnapshotsStayWritten
  <1>8. StoryOK'
    BY <1>5, <1>6, <1>7 DEF StoryOK
  <1> QED  BY <1>1, <1>8, UserStep

LEMMA UserDeletesSceneOK ==
  ASSUME PipelineInv, NEW s, UserDeletesScene(s)
  PROVE  PipelineInv'
  <1>1. PICK S : S = {s}
    OBVIOUS
  <1>2. /\ StoryOK /\ StoryTypes /\ scenes \in Seq(SceneRow) /\ shots \in Seq(ShotRow)
        /\ UNCHANGED <<episode, snapshots, pipelines, cut, ops, started, crashes>>
    BY DEF UserDeletesScene, PipelineInv, StoryOK, StoryTypes
  <1>3. /\ scenes' \in Seq(SceneRow) /\ Len(scenes') = Len(scenes)
        /\ \A c \in DOMAIN scenes : scenes'[c].snapshot = scenes[c].snapshot
        /\ \A c \in DOMAIN scenes : scenes'[c].live = (scenes[c].live /\ c \notin S)
        /\ shots' \in Seq(ShotRow) /\ Len(shots') = Len(shots)
        /\ \A t \in DOMAIN shots :
             shots'[t].scene = shots[t].scene /\ shots'[t].live = (shots[t].live /\ shots[t].scene \notin S)
    BY <1>1, <1>2, WithoutOK DEF UserDeletesScene
  <1>4. StoryTypes'
    BY <1>2, <1>3 DEF StoryTypes
  <1>5. ShotsHaveScenes'
    <2> SUFFICES ASSUME NEW t \in DOMAIN shots'
                 PROVE  shots'[t].scene \in DOMAIN scenes' /\ (shots'[t].live => scenes'[shots'[t].scene].live)
      BY DEF ShotsHaveScenes
    <2>1. t \in DOMAIN shots /\ DOMAIN scenes' = DOMAIN scenes
      BY <1>2, <1>3
    <2>2. PICK c : c = shots[t].scene
      OBVIOUS
    <2>3. c \in DOMAIN scenes /\ (shots[t].live => scenes[c].live)
      BY <1>2, <2>1, <2>2 DEF StoryOK, ShotsHaveScenes
    <2>4. PICK x \in SceneRow, y \in ShotRow : x = scenes[c] /\ y = shots[t]
      BY <1>2, <2>1, <2>3
    <2>5. x.live \in BOOLEAN
      BY <2>4 DEF SceneRow
    <2>6. y.live \in BOOLEAN
      BY <2>4 DEF ShotRow
    <2>7. /\ shots'[t].scene = c /\ shots'[t].live = (y.live /\ c \notin S)
          /\ scenes'[c].live = (x.live /\ c \notin S)
      BY <1>3, <2>1, <2>2, <2>3, <2>4
    <2>8. y.live => x.live
      BY <2>3, <2>4
    <2>9. shots'[t].live => scenes'[c].live
      BY ONLY <2>5, <2>6, <2>7, <2>8
    <2> QED  BY <2>1, <2>3, <2>7, <2>9
  <1>6. ScenesAreConfirmed' /\ SnapshotWrittenOnce'
    <2>1. \A c \in DOMAIN scenes' : scenes'[c].snapshot # 0 =>
              c \in DOMAIN scenes /\ scenes'[c].snapshot = scenes[c].snapshot
      BY <1>2, <1>3
    <2> QED  BY <1>2, <1>4, <2>1, SnapshotsStayWritten
  <1>7. StoryOK'
    BY <1>4, <1>5, <1>6 DEF StoryOK
  <1> QED  BY <1>2, <1>7, UserStep

LEMMA UserAddsShotOK ==
  ASSUME PipelineInv, NEW s \in LiveScenes, UserAddsShot(s)
  PROVE  PipelineInv'
  <1>1. /\ StoryOK /\ StoryTypes /\ scenes \in Seq(SceneRow) /\ shots \in Seq(ShotRow)
        /\ UNCHANGED <<episode, snapshots, scenes, pipelines, cut, ops, started, crashes>>
    BY DEF UserAddsShot, PipelineInv, StoryOK, StoryTypes
  <1>2. PICK prompt \in BOOLEAN : shots' = Append(shots, Shot(s, 0, prompt))
    BY DEF UserAddsShot
  <1>3. s \in DOMAIN scenes /\ scenes[s].live /\ s \in Nat
    BY <1>1 DEF LiveScenes
  <1>4. PICK x : x = Shot(s, 0, prompt)
    OBVIOUS
  <1>5. x \in ShotRow /\ x.scene = s
    BY <1>3, <1>4 DEF Shot, ShotRow
  <1>6. /\ shots' \in Seq(ShotRow) /\ Len(shots') = Len(shots) + 1 /\ shots'[Len(shots) + 1] = x
        /\ \A t \in DOMAIN shots : t \in DOMAIN shots' /\ shots'[t] = shots[t]
    BY <1>1, <1>2, <1>4, <1>5, AppendProperties
  <1>7. StoryTypes'
    BY <1>1, <1>6 DEF StoryTypes
  <1>8. ShotsHaveScenes'
    <2>1. \A t \in DOMAIN shots' : t \in DOMAIN shots \/ t = Len(shots) + 1
      BY <1>1, <1>6
    <2>2. \A t \in DOMAIN shots : shots'[t].scene \in DOMAIN scenes' /\ (shots'[t].live => scenes'[shots'[t].scene].live)
      BY <1>1, <1>6 DEF StoryOK, ShotsHaveScenes
    <2>3. shots'[Len(shots) + 1].scene = s /\ s \in DOMAIN scenes' /\ scenes'[s].live
      BY <1>1, <1>3, <1>5, <1>6
    <2> QED  BY <2>1, <2>2, <2>3 DEF ShotsHaveScenes
  <1>9. ScenesAreConfirmed'
    BY <1>1 DEF StoryOK, ScenesAreConfirmed
  <1>10. SnapshotWrittenOnce'
    BY <1>1 DEF StoryOK, SnapshotWrittenOnce
  <1>11. StoryOK'
    BY <1>7, <1>8, <1>9, <1>10 DEF StoryOK
  <1> QED  BY <1>1, <1>11, UserStep

LEMMA UserGeneratesOK ==
  ASSUME PipelineInv, NEW t, UserGenerates(t)
  PROVE  PipelineInv'
  <1>1. StoryOK'
    BY ImageOK DEF UserGenerates, PipelineInv
  <1> QED  BY <1>1, UserStep DEF UserGenerates

LEMMA ImageEndsOK ==
  ASSUME PipelineInv, NEW t, ImageEnds(t)
  PROVE  PipelineInv'
  <1>1. PICK image \in {"active", "none"} : shots' = [shots EXCEPT ![t].image = image]
    BY DEF ImageEnds
  <1>2. image \in {"none", "queued", "active"}
    OBVIOUS
  <1>3. StoryOK'
    BY <1>1, <1>2, ImageOK DEF ImageEnds, PipelineInv
  <1> QED  BY <1>3, UserStep DEF ImageEnds

LEMMA CrashOK ==
  ASSUME PipelineInv, Crash
  PROVE  PipelineInv'
  <1>1. UNCHANGED story /\ UNCHANGED <<pipelines, cut, started>> /\ ops' = [o \in Ops |-> NoOp]
    BY DEF Crash
  <1>2. StoryOK'
    BY <1>1, StoryStays DEF PipelineInv
  <1>3. pipelines' \in Seq(PipelineRow(Len(snapshots'))) /\ DOMAIN ops' = Ops
    BY <1>1 DEF story, PipelineInv, RunsOK
  <1>4. Len(snapshots') \in Nat /\ Len(pipelines') \in Nat
    BY <1>2, <1>3 DEF StoryOK, StoryTypes
  <1>5. \A o \in Ops : OpOK(ops'[o], Len(snapshots'), Len(pipelines'))
    BY <1>1, <1>4, NoOpOK
  <1>6. RunsOK'
    BY <1>3, <1>5 DEF RunsOK
  <1>7. CutTypes'
    BY <1>1 DEF Crash, PipelineInv, CutTypes, cut
  <1> QED  BY <1>2, <1>6, <1>7 DEF PipelineInv

-----------------------------------------------------------------------------
(* The specification.                                                      *)

LEMMA InitOK == PipelineInit => PipelineInv
  <1> SUFFICES ASSUME PipelineInit PROVE PipelineInv
    OBVIOUS
  <1>1. /\ episode = [text |-> 1, key |-> 0]
        /\ snapshots = <<>> /\ scenes = <<>> /\ shots = <<>> /\ pipelines = <<>>
        /\ ops = [o \in Ops |-> NoOp]
    BY DEF PipelineInit
  <1>2. StoryTypes
    BY <1>1 DEF StoryTypes
  <1>3. ShotsHaveScenes /\ ScenesAreConfirmed /\ SnapshotWrittenOnce
    BY <1>1 DEF ShotsHaveScenes, ScenesAreConfirmed, SnapshotWrittenOnce
  <1>4. Len(snapshots) = 0 /\ Len(pipelines) = 0
    BY <1>1
  <1>5. RunsOK
    BY <1>1, <1>4, NoOpOK DEF RunsOK
  <1>6. CutTypes
    BY DEF PipelineInit, CutTypes
  <1> QED  BY <1>2, <1>3, <1>5, <1>6 DEF PipelineInv, StoryOK

LEMMA RequestsOK ==
  ASSUME PipelineInv, NEW o \in Ops, Requests(o)
  PROVE  PipelineInv'
  <1>1. 0 \in 0..Len(pipelines) /\ 0 \in 0..Len(snapshots) /\ DOMAIN pipelines \subseteq 0..Len(pipelines)
    BY OpTypes DEF PipelineInv, RunsOK
  <1>2. {"run", "resume", "finalize", "confirm", "analyze", "plan"} \subseteq Kinds
    BY DEF Kinds
  <1>3. CASE UserStarts(o, "run", 0, 0, 0)
    BY <1>1, <1>2, <1>3, UserStartsOK
  <1>4. CASE \E p \in DOMAIN pipelines : UserStarts(o, "resume", p, 0, 0) \/ UserStarts(o, "finalize", p, 0, 0)
    BY <1>1, <1>2, <1>4, UserStartsOK
  <1>5. CASE \E p \in DOMAIN pipelines, sid \in 0..Len(snapshots) : UserStarts(o, "confirm", p, sid, 0)
    BY <1>1, <1>2, <1>5, UserStartsOK
  <1>6. CASE \E sid \in 0..Len(snapshots) : UserStarts(o, "analyze", 0, sid, 0)
    BY <1>1, <1>2, <1>6, UserStartsOK
  <1>7. CASE \E s \in LiveScenes : UserStarts(o, "plan", 0, 0, s)
    BY <1>1, <1>2, <1>7, UserStartsOK
  <1> QED  BY <1>3, <1>4, <1>5, <1>6, <1>7 DEF Requests

LEMMA OpStepsOK ==
  ASSUME PipelineInv, NEW o \in Ops, OpSteps(o)
  PROVE  PipelineInv'
  BY RunLoadsOK, ConfirmLoadsOK, ResumeLoadsOK, FinalizeLoadsOK, AnalyzeLoadsOK, PlanLoadsOK,
     WaitsForReviewOK, LlmFailsOK, ReplaysSnapshotOK, RefusesSnapshotOK, WritesSnapshotOK,
     MarksShotsOK, AsksForShotsOK, PlansAreMadeOK, ListsShotsOK, QueuesImageOK, MarksImagesOK,
     CreatesTimelineOK, ArrangesOK, QueuesRenderOK, CompletesOK,
     SavesPreviewOK, AnalysisWritesOK, WritesShotsOK DEF OpSteps

LEMMA StutterOK ==
  ASSUME PipelineInv, UNCHANGED pipelineVars
  PROVE  PipelineInv'
  <1>1. UNCHANGED story /\ UNCHANGED <<snapshots, pipelines, cut, ops, started, crashes>>
    BY DEF pipelineVars, story, cut
  <1>2. StoryOK'
    BY <1>1, StoryStays DEF PipelineInv
  <1> QED  BY <1>1, <1>2, UserStep

LEMMA NextOK == PipelineInv /\ [PipelineNext]_pipelineVars => PipelineInv'
  <1> SUFFICES ASSUME PipelineInv, [PipelineNext]_pipelineVars PROVE PipelineInv'
    OBVIOUS
  <1>1. CASE \E o \in Ops : OpSteps(o) \/ Requests(o)
    BY <1>1, OpStepsOK, RequestsOK
  <1>2. CASE UserEditsText \/ UserAddsScene \/ Crash
    BY <1>2, UserEditsTextOK, UserAddsSceneOK, CrashOK
  <1>3. CASE \E s \in LiveScenes : UserDeletesScene(s) \/ UserAddsShot(s)
    BY <1>3, UserDeletesSceneOK, UserAddsShotOK
  <1>4. CASE \E t \in DOMAIN shots : UserGenerates(t) \/ ImageEnds(t)
    BY <1>4, UserGeneratesOK, ImageEndsOK
  <1>5. CASE UNCHANGED pipelineVars
    BY <1>5, StutterOK
  <1> QED  BY <1>1, <1>2, <1>3, <1>4, <1>5 DEF PipelineNext

\* The inductive invariant: what every operation carries is in the database, only
\* a confirmed snapshot has scenes, and shots stand under scenes that live as
\* long as they do.
THEOREM PipelineInvariant == PipelineSpec => []PipelineInv
  BY InitOK, NextOK, PTL DEF PipelineSpec

\* Every variable has its type: in particular an operation that has its lock has
\* its pipeline, and one that confirms has a snapshot.
THEOREM PipelineTypeCorrect == PipelineSpec => []TypeOK
  <1>1. PipelineInv => TypeOK
    BY DEF PipelineInv, StoryOK, TypeOK
  <1> QED  BY <1>1, PipelineInvariant, PTL

\* The scenes of a reviewed analysis are written at most once, by whichever of the
\* confirmations comes first (confirm_snapshot of pipeline_service and
\* analyze_with_snapshot of script_service, which share no lock).
THEOREM SnapshotIsWrittenOnce == PipelineSpec => []SnapshotWrittenOnce
  <1>1. PipelineInv => SnapshotWrittenOnce
    BY DEF PipelineInv, StoryOK
  <1> QED  BY <1>1, PipelineInvariant, PTL

\* No live shot stands under a scene that is gone (create_shots after the model
\* answered, and the cascades of analysis and delete).
THEOREM ShotsStandUnderScenes == PipelineSpec => []NoShotWithoutScene
  <1>1. PipelineInv => NoShotWithoutScene
    BY DEF PipelineInv, StoryOK, ShotsHaveScenes, NoShotWithoutScene, LiveShots
  <1> QED  BY <1>1, PipelineInvariant, PTL

\* A snapshot changes by its confirmation, which compares it with the text, or by
\* its refusal.
LEMMA ConfirmsCurrentText ==
  ASSUME PipelineInv, [PipelineNext]_pipelineVars, NEW s \in DOMAIN snapshots,
         snapshots[s].status = "pending", snapshots'[s].status = "confirmed"
  PROVE  snapshots[s].text = episode.text
  <1>1. StoryTypes /\ snapshots \in Seq(SnapshotRow)
    BY DEF PipelineInv, StoryOK, StoryTypes
  <1>2. ASSUME UNCHANGED snapshots PROVE FALSE
    BY <1>2
  <1>3. CASE \E o \in Ops : WritesSnapshot(o)
    <2>1. PICK o \in Ops : WritesSnapshot(o)
      BY <1>3
    <2>2. PICK i : i = ops[o].sid
      OBVIOUS
    <2>3. snapshots' = [snapshots EXCEPT ![i].status = "confirmed"] /\ snapshots[i].hash = episode.text
      BY <2>1, <2>2 DEF WritesSnapshot, Accepts, Current
    <2>4. s = i
      <3> SUFFICES ASSUME s # i PROVE FALSE
        OBVIOUS
      <3>1. snapshots'[s] = snapshots[s]
        BY <1>1, <2>3
      <3> QED  BY <3>1
    <2>5. PICK x \in SnapshotRow : x = snapshots[s]
      BY <1>1
    <2>6. x.hash = x.text
      BY <2>5 DEF SnapshotRow
    <2> QED  BY <2>3, <2>4, <2>5, <2>6
  <1>4. CASE \E o \in Ops : RefusesSnapshot(o)
    <2>1. PICK o \in Ops : RefusesSnapshot(o)
      BY <1>4
    <2>2. PICK i : i = ops[o].sid
      OBVIOUS
    <2>3. snapshots' = [snapshots EXCEPT ![i].status = "expired"]
      BY <2>1, <2>2 DEF RefusesSnapshot
    <2>4. CASE s = i
      <3>1. PICK x \in SnapshotRow : x = snapshots[s]
        BY <1>1
      <3>2. snapshots'[s] = [x EXCEPT !.status = "expired"]
        BY <1>1, <2>3, <2>4, <3>1
      <3>3. [x EXCEPT !.status = "expired"].status = "expired"
        BY <3>1 DEF SnapshotRow
      <3> QED  BY <3>2, <3>3
    <2>5. CASE s # i
      <3>1. snapshots'[s] = snapshots[s]
        BY <1>1, <2>3, <2>5
      <3> QED  BY <3>1
    <2> QED  BY <2>4, <2>5
  <1>5. CASE \E o \in Ops, n \in PlanSizes : SavesPreview(o, n)
    <2>1. PICK x : snapshots' = Append(snapshots, x)
      BY <1>5 DEF SavesPreview
    <2>2. snapshots'[s] = snapshots[s]
      BY <1>1, <2>1
    <2> QED  BY <2>2
  <1>6. CASE \E o \in Ops : \/ RunLoads(o) \/ ConfirmLoads(o) \/ ResumeLoads(o) \/ FinalizeLoads(o)
                            \/ AnalyzeLoads(o) \/ PlanLoads(o) \/ WaitsForReview(o) \/ LlmFails(o)
                            \/ ReplaysSnapshot(o)
    <2>1. UNCHANGED snapshots
      BY <1>6 DEF RunLoads, ConfirmLoads, ResumeLoads, AsksForPreview, FinalizeLoads, AnalyzeLoads, PlanLoads,
                  WaitsForReview, LlmFails, ReplaysSnapshot, story
    <2> QED  BY <1>2, <2>1
  <1>7. CASE \E o \in Ops : \/ MarksShots(o) \/ AsksForShots(o) \/ PlansAreMade(o)
                            \/ ListsShots(o) \/ QueuesImage(o) \/ MarksImages(o)
                            \/ CreatesTimeline(o) \/ Arranges(o) \/ QueuesRender(o) \/ Completes(o)
    <2>1. UNCHANGED snapshots
      BY <1>7 DEF MarksShots, AsksForShots, PlansAreMade, ListsShots, QueuesImage, MarksImages,
                  CreatesTimeline, Arranges, QueuesRender, Completes, story
    <2> QED  BY <1>2, <2>1
  <1>8. CASE \E o \in Ops, n \in PlanSizes : AnalysisWrites(o, n) \/ WritesShots(o, n)
    <2>1. UNCHANGED snapshots
      BY <1>8 DEF AnalysisWrites, WritesShots
    <2> QED  BY <1>2, <2>1
  <1>9. CASE \E o \in Ops : Requests(o)
    <2>1. UNCHANGED snapshots
      BY <1>9 DEF Requests, UserStarts, story
    <2> QED  BY <1>2, <2>1
  <1>10. CASE \/ UserEditsText \/ UserAddsScene \/ Crash
              \/ \E c \in LiveScenes : UserDeletesScene(c) \/ UserAddsShot(c)
              \/ \E t \in DOMAIN shots : UserGenerates(t) \/ ImageEnds(t)
    <2>1. UNCHANGED snapshots
      BY <1>10 DEF UserEditsText, UserAddsScene, Crash, UserDeletesScene, UserAddsShot, UserGenerates, ImageEnds, story
    <2> QED  BY <1>2, <2>1
  <1>11. CASE UNCHANGED pipelineVars
    BY <1>2, <1>11 DEF pipelineVars
  <1> QED  BY <1>3, <1>4, <1>5, <1>6, <1>7, <1>8, <1>9, <1>10, <1>11 DEF PipelineNext, OpSteps

\* What a confirmation writes is of the text the episode has at that moment: the
\* key of a snapshot is of the text the model was asked about, and the
\* confirmation compares it again.
THEOREM ReviewedIsCurrent == PipelineSpec => ReviewedTextIsCurrent
  <1>1. PipelineInv /\ [PipelineNext]_pipelineVars =>
          [\A s \in DOMAIN snapshots :
             snapshots[s].status = "pending" /\ snapshots'[s].status = "confirmed"
               => snapshots[s].text = episode.text]_pipelineVars
    BY ConfirmsCurrentText
  <1> QED  BY <1>1, PipelineInvariant, PTL DEF PipelineSpec, ReviewedTextIsCurrent

=============================================================================
