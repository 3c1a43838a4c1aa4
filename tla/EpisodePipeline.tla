--------------------------- MODULE EpisodePipeline ---------------------------
(***************************************************************************)
(* The way of an episode from its text to a render: a preview of the       *)
(* analysis, its confirmation, shot plans, images, timeline and render.    *)
(* The pipeline row records the finished stages; operations of the event   *)
(* loop drive it under one lock, the analysis and the shot planning of the *)
(* episode page run under other locks, and finalize runs in a thread       *)
(* without one.  A step is what happens between two awaits or commits.     *)
(***************************************************************************)
EXTENDS Integers, FiniteSets, Sequences

CONSTANTS Ops,          \* operations and requests that may run at the same time
          PlanSizes,    \* how many scenes or shots the model may plan
          MaxSource, MaxSnapshots, MaxScenes, MaxShots, MaxPipelines, MaxRenders,
          MaxOps, MaxCrashes  \* bounds

ASSUME PipelineAssumption == PlanSizes \subseteq Nat /\ MaxSource \in Nat

VARIABLES episode,    \* the text (as its version) and the key of the last analysis
          snapshots,  \* reviewed analyses
          scenes, shots,
          pipelines,  \* rows of episode_pipelines, oldest first
          timeline,   \* whether it exists, and the shots it shows
          renders,    \* render generations queued
          ops,        \* what each operation is doing
          started, crashes  \* counters of bounded events

pipelineVars == <<episode, snapshots, scenes, shots, pipelines, timeline, renders, ops, started, crashes>>
story == <<episode, snapshots, scenes, shots>>
cut == <<timeline, renders>>

Stages == {"analyze", "shots", "images", "timeline", "render"}
Kinds == {"run", "confirm", "resume", "finalize", "analyze", "plan"}
Fresh == [status |-> "running", done |-> {}, snapshot |-> 0]
NoOp == [kind |-> "none", at |-> "none", pipe |-> 0, sid |-> 0, scene |-> 0, text |-> 0,
         row |-> Fresh, base |-> Fresh, todo |-> <<>>, existing |-> FALSE]

Scene(key, snapshot) == [key |-> key, snapshot |-> snapshot, planned |-> 0, live |-> TRUE]
Shot(scene, key, prompt) == [scene |-> scene, key |-> key, prompt |-> prompt, live |-> TRUE, image |-> "none"]

LiveScenes == {s \in DOMAIN scenes : scenes[s].live}
LiveShots == {t \in DOMAIN shots : shots[t].live}
AiScenes == {s \in LiveScenes : scenes[s].key # 0}
InOrder(S) == CHOOSE f \in [1..Cardinality(S) -> S] : \A i, j \in DOMAIN f : i < j => f[i] < f[j]

PipelineInit ==
  /\ episode = [text |-> 1, key |-> 0]
  /\ snapshots = <<>> /\ scenes = <<>> /\ shots = <<>> /\ pipelines = <<>>
  /\ timeline = [exists |-> FALSE, clips |-> {}]
  /\ renders = 0
  /\ ops = [o \in Ops |-> NoOp]
  /\ started = 0 /\ crashes = 0

(***************************************************************************)
(* Operations: started by a request, each waits for its lock.              *)
(***************************************************************************)
UserStarts(o, kind, pipe, sid, scene) ==
  /\ ops[o] = NoOp /\ started < MaxOps
  /\ kind \in {"confirm", "resume", "finalize"} => pipe \in DOMAIN pipelines
  /\ kind = "plan" => scene \in LiveScenes
  /\ sid # 0 => sid \in DOMAIN snapshots
  /\ ops' = [ops EXCEPT ![o] = [NoOp EXCEPT !.kind = kind, !.at = "waits", !.pipe = pipe, !.sid = sid, !.scene = scene]]
  /\ started' = started + 1
  /\ UNCHANGED <<story, pipelines, cut, crashes>>

LockOf(op) ==
  CASE op.kind = "analyze" -> <<"analyze">>
    [] op.kind = "plan" -> <<"shots", op.scene>>
    [] OTHER -> <<"pipeline">>
HasLock(o) == ops[o].at \notin {"none", "waits"} /\ ops[o].kind # "finalize"

(* Between two awaits nothing else of the loop runs; finalize and the      *)
(* requests of the user run in threads and get in at every step.           *)
LoopIsFree(o) ==
  \/ ops[o].kind = "finalize"
  \/ \A q \in Ops \ {o} : ops[q].kind = "finalize" \/ ops[q].at \in {"none", "waits", "analysing", "planning"}

At(o, pc) == ops[o].at = pc /\ LoopIsFree(o)
Enters(o, kinds) ==
  /\ At(o, "waits") /\ ops[o].kind \in kinds
  /\ \A q \in Ops \ {o} : HasLock(q) => LockOf(ops[q]) # LockOf(ops[o])
Goes(o, op) == ops' = [ops EXCEPT ![o] = op] /\ UNCHANGED <<started, crashes>>
Ends(o) == Goes(o, NoOp)

(* A session writes back the columns it has changed since it read or       *)
(* wrote them, and leaves the others as they are in the database.          *)
Flushed(op) == [f \in DOMAIN Fresh |-> IF op.row[f] # op.base[f] THEN op.row[f] ELSE pipelines[op.pipe][f]]
Commits(op) == pipelines' = [pipelines EXCEPT ![op.pipe] = Flushed(op)]
Changed(op, row) == [op EXCEPT !.row = row]
Clean(op) == [op EXCEPT !.base = op.row]
WithStages(row, S) == [row EXCEPT !.done = @ \cup S]
Loaded(op, p) == [op EXCEPT !.pipe = p, !.row = pipelines[p], !.base = pipelines[p]]
Latest == IF pipelines # <<>> /\ pipelines[Len(pipelines)].status # "completed" THEN Len(pipelines) ELSE 0

(***************************************************************************)
(* The preview: the model is asked about the text that is loaded, and the  *)
(* snapshot is of this text even if the episode has been edited since.     *)
(***************************************************************************)
AsksForPreview(o) ==
  \/ /\ Latest # 0
     /\ Goes(o, [Loaded(ops[o], Latest) EXCEPT !.at = "analysing", !.text = episode.text])
     /\ UNCHANGED <<story, pipelines, cut>>
  \/ /\ Latest = 0 /\ Len(pipelines) < MaxPipelines
     /\ pipelines' = Append(pipelines, Fresh)
     /\ Goes(o, [ops[o] EXCEPT !.at = "analysing", !.text = episode.text, !.pipe = Len(pipelines) + 1,
                               !.row = Fresh, !.base = Fresh])
     /\ UNCHANGED <<story, cut>>

RunLoads(o) == Enters(o, {"run"}) /\ AsksForPreview(o)

SnapshotOfMutant(op, n) == [hash |-> episode.text, text |-> op.text, size |-> n, status |-> "pending"]
SnapshotOf(op, n) == [hash |-> op.text, text |-> op.text, size |-> n, status |-> "pending"]

SavesPreview(o, n) ==
  /\ At(o, "analysing") /\ ops[o].kind # "analyze" /\ Len(snapshots) < MaxSnapshots
  /\ snapshots' = Append(snapshots, SnapshotOf(ops[o], n))
  /\ Goes(o, [ops[o] EXCEPT !.at = "previewed", !.sid = Len(snapshots) + 1])
  /\ UNCHANGED <<episode, scenes, shots, pipelines, cut>>

WaitsForReview(o) ==
  /\ At(o, "previewed")
  /\ Commits(Changed(ops[o], [WithStages(ops[o].row, {"analyze"}) EXCEPT !.snapshot = ops[o].sid, !.status = "waiting_confirm"]))
  /\ Ends(o)
  /\ UNCHANGED <<story, cut>>

LlmFails(o) ==
  /\ At(o, "analysing") \/ At(o, "planning")
  /\ Ends(o)
  /\ UNCHANGED <<story, pipelines, cut>>

(***************************************************************************)
(* The confirmation: the reviewed scenes replace those of the analysis     *)
(* before; scenes the user has made stay.                                  *)
(***************************************************************************)
HasToPlan(op) == [op EXCEPT !.at = IF "shots" \in op.row.done THEN "images" ELSE "confirm",
                            !.sid = IF @ # 0 THEN @ ELSE op.row.snapshot]

ConfirmLoads(o) ==
  LET op == Loaded(ops[o], ops[o].pipe) IN
  /\ Enters(o, {"confirm"})
  /\ IF op.row.status = "completed" \/ "analyze" \notin op.row.done \/ HasToPlan(op).sid = 0
     THEN Ends(o) ELSE Goes(o, HasToPlan(op))
  /\ UNCHANGED <<story, pipelines, cut>>

ResumeLoads(o) ==
  LET op == [Loaded(ops[o], ops[o].pipe) EXCEPT !.sid = 0] IN
  /\ Enters(o, {"resume"})
  /\ \/ /\ op.row.status # "completed" /\ "analyze" \notin op.row.done
        /\ AsksForPreview(o)
     \/ /\ op.row.status = "completed" \/ "analyze" \in op.row.done
        /\ IF op.row.status = "completed" \/ op.row.snapshot = 0 \/ Stages \subseteq op.row.done THEN Ends(o)
           ELSE IF {"shots", "images"} \subseteq op.row.done
           THEN Goes(o, [op EXCEPT !.at = "timeline", !.existing = timeline.exists])
           ELSE Goes(o, HasToPlan(op))
        /\ UNCHANGED <<story, pipelines, cut>>

AfterConfirm(op) == IF op.kind = "analyze" THEN NoOp ELSE [op EXCEPT !.at = "mark"]
Current(s) == s.hash = episode.text

ReplaysSnapshot(o) ==
  /\ At(o, "confirm") /\ snapshots[ops[o].sid].status = "confirmed"
  /\ Goes(o, AfterConfirm(ops[o]))
  /\ UNCHANGED <<story, pipelines, cut>>

RefusesSnapshot(o) ==
  LET s == snapshots[ops[o].sid] IN
  /\ At(o, "confirm")
  /\ s.status = "expired" \/ (s.status = "pending" /\ ~ Current(s))
  /\ snapshots' = [snapshots EXCEPT ![ops[o].sid].status = "expired"]
  /\ Ends(o)
  /\ UNCHANGED <<episode, scenes, shots, pipelines, cut>>

(* Scenes of the analysis before go with all their shots. *)
Replaced == AiScenes
WithoutScenes(S) == [s \in DOMAIN scenes |-> [scenes[s] EXCEPT !.live = @ /\ s \notin S]]
WithoutShotsOf(S) == [t \in DOMAIN shots |-> [shots[t] EXCEPT !.live = @ /\ shots[t].scene \notin S]]
WritesScenes(n, key, snapshot) ==
  /\ Len(scenes) + n <= MaxScenes
  /\ scenes' = WithoutScenes(Replaced) \o [i \in 1..n |-> Scene(key, snapshot)]
  /\ shots' = WithoutShotsOf(Replaced)
  /\ episode' = [episode EXCEPT !.key = key]

AcceptsMutant(s) == s.status # "expired" /\ Current(s)
Accepts(s) == s.status = "pending" /\ Current(s)

WritesSnapshot(o) ==
  LET s == snapshots[ops[o].sid] IN
  /\ At(o, "confirm") /\ Accepts(s)
  /\ WritesScenes(s.size, s.hash, ops[o].sid)
  /\ snapshots' = [snapshots EXCEPT ![ops[o].sid].status = "confirmed"]
  /\ Goes(o, AfterConfirm(ops[o]))
  /\ UNCHANGED <<pipelines, cut>>

(***************************************************************************)
(* The analysis of the episode page, with and without a snapshot.          *)
(***************************************************************************)
AnalyzeLoads(o) ==
  /\ Enters(o, {"analyze"})
  /\ \/ ops[o].sid # 0 /\ Goes(o, [ops[o] EXCEPT !.at = "confirm"])
     \/ /\ ops[o].sid = 0
        /\ IF episode.key = episode.text /\ \E s \in LiveScenes : scenes[s].key = episode.text
           THEN Ends(o) ELSE Goes(o, [ops[o] EXCEPT !.at = "analysing", !.text = episode.text])
  /\ UNCHANGED <<story, pipelines, cut>>

AnalysisWrites(o, n) ==
  /\ At(o, "analysing") /\ ops[o].kind = "analyze"
  /\ WritesScenes(n, ops[o].text, 0)
  /\ Ends(o)
  /\ UNCHANGED <<snapshots, pipelines, cut>>

(***************************************************************************)
(* Shot plans.  The stage is committed before the plans are made.          *)
(***************************************************************************)
MarksShots(o) ==
  LET op == Changed(ops[o], WithStages(ops[o].row, {"shots"}))
      list == InOrder(LiveScenes) IN
  /\ At(o, "mark")
  /\ Commits(op)
  /\ Goes(o, [Clean(op) EXCEPT !.at = "plan",
                !.todo = [i \in DOMAIN list |-> [scene |-> list[i], planned |-> scenes[list[i]].planned]]])
  /\ UNCHANGED <<story, cut>>

PlanLoads(o) ==
  /\ Enters(o, {"plan"})
  /\ Goes(o, [ops[o] EXCEPT !.at = "plan", !.todo = <<[scene |-> ops[o].scene, planned |-> scenes[ops[o].scene].planned]>>])
  /\ UNCHANGED <<story, pipelines, cut>>

IsPlanned(e) == e.planned = episode.text /\ \E t \in LiveShots : shots[t].scene = e.scene /\ shots[t].key = episode.text
AsksForShots(o) ==
  LET e == Head(ops[o].todo) IN
  /\ At(o, "plan") /\ ops[o].todo # <<>>
  /\ CASE e.scene \notin LiveScenes -> Ends(o)
       [] e.scene \in LiveScenes /\ IsPlanned(e) -> Goes(o, [ops[o] EXCEPT !.todo = Tail(@)])
       [] OTHER -> Goes(o, [ops[o] EXCEPT !.at = "planning", !.text = episode.text])
  /\ UNCHANGED <<story, pipelines, cut>>

(* create_shots looks the scene up again: it may have been deleted while   *)
(* the model was asked.  Shots the user has made stay.                     *)
StillThereMutant(scene) == TRUE
StillThere(scene) == scene \in LiveScenes
WritesShots(o, n) ==
  LET e == Head(ops[o].todo) IN
  /\ At(o, "planning")
  /\ \/ /\ StillThere(e.scene) /\ Len(shots) + n <= MaxShots
        /\ shots' = [t \in DOMAIN shots |-> [shots[t] EXCEPT !.live = @ /\ ~ (shots[t].scene = e.scene /\ shots[t].key # 0)]]
                    \o [i \in 1..n |-> Shot(e.scene, ops[o].text, TRUE)]
        /\ scenes' = IF e.planned = ops[o].text THEN scenes ELSE [scenes EXCEPT ![e.scene].planned = ops[o].text]
        /\ Goes(o, [ops[o] EXCEPT !.at = "plan", !.todo = Tail(@)])
     \/ /\ ~ StillThere(e.scene)
        /\ Ends(o)
        /\ UNCHANGED <<shots, scenes>>
  /\ UNCHANGED <<episode, snapshots, pipelines, cut>>

PlansAreMade(o) ==
  /\ At(o, "plan") /\ ops[o].todo = <<>>
  /\ Goes(o, IF ops[o].kind = "plan" THEN NoOp ELSE [ops[o] EXCEPT !.at = "images"])
  /\ UNCHANGED <<story, pipelines, cut>>

(***************************************************************************)
(* Images: one generation per shot without an active image; a shot that    *)
(* already has one in flight counts as covered, a shot without a prompt    *)
(* fails the operation.                                                    *)
(***************************************************************************)
ListsShots(o) ==
  /\ At(o, "images")
  /\ IF "images" \in ops[o].row.done THEN Ends(o)
     ELSE Goes(o, [ops[o] EXCEPT !.at = "queue", !.todo = InOrder({t \in LiveShots : shots[t].image # "active"})])
  /\ UNCHANGED <<story, pipelines, cut>>

QueuesImage(o) ==
  LET t == Head(ops[o].todo) IN
  /\ At(o, "queue") /\ ops[o].todo # <<>>
  /\ IF ~ shots[t].live \/ (~ shots[t].prompt /\ shots[t].image # "queued")
     THEN Ends(o) /\ UNCHANGED shots
     ELSE /\ shots' = [shots EXCEPT ![t].image = "queued"]
          /\ Goes(o, [ops[o] EXCEPT !.todo = Tail(@)])
  /\ UNCHANGED <<episode, snapshots, scenes, pipelines, cut>>

MarksImages(o) ==
  /\ At(o, "queue") /\ ops[o].todo = <<>>
  /\ Commits(Changed(ops[o], [WithStages(ops[o].row, {"images"}) EXCEPT !.status = "running"]))
  /\ Ends(o)
  /\ UNCHANGED <<story, cut>>

(***************************************************************************)
(* Timeline and render, by finalize or by resume.                          *)
(***************************************************************************)
FinalizeLoads(o) ==
  LET op == Loaded(ops[o], ops[o].pipe) IN
  /\ At(o, "waits") /\ ops[o].kind = "finalize"
  /\ IF op.row.status = "completed" THEN Ends(o)
     ELSE Goes(o, [op EXCEPT !.at = "timeline", !.existing = timeline.exists])
  /\ UNCHANGED <<story, pipelines, cut>>

CreatesTimeline(o) ==
  /\ At(o, "timeline") /\ ~ ops[o].existing
  /\ IF timeline.exists THEN Ends(o) ELSE Goes(o, [ops[o] EXCEPT !.existing = TRUE])
  /\ timeline' = [timeline EXCEPT !.exists = TRUE]
  /\ UNCHANGED <<story, pipelines, renders>>

(* The commit of the timeline comes before the stage is changed; the stage *)
(* reaches the database with the commit of the render.                     *)
Arranges(o) ==
  /\ At(o, "timeline") /\ ops[o].existing
  /\ timeline' = [timeline EXCEPT !.clips = {t \in LiveShots : shots[t].image = "active"}]
  /\ Goes(o, [Changed(ops[o], WithStages(ops[o].row, {"timeline"})) EXCEPT !.at = "render"])
  /\ UNCHANGED <<story, pipelines, renders>>

QueuesRender(o) ==
  /\ At(o, "render")
  /\ \/ /\ timeline.clips # {} /\ renders < MaxRenders
        /\ renders' = renders + 1
        /\ Commits(ops[o])
        /\ Goes(o, [Clean(ops[o]) EXCEPT !.at = "close"])
     \/ /\ timeline.clips = {}
        /\ Ends(o)
        /\ UNCHANGED <<renders, pipelines>>
  /\ UNCHANGED <<story, timeline>>

Completes(o) ==
  /\ At(o, "close")
  /\ Commits(Changed(ops[o], [WithStages(ops[o].row, {"render"}) EXCEPT !.status = "completed"]))
  /\ Ends(o)
  /\ UNCHANGED <<story, cut>>

(***************************************************************************)
(* The user, the worker and the process.                                   *)
(***************************************************************************)
UserEditsText ==
  /\ episode.text < MaxSource
  /\ episode' = [episode EXCEPT !.text = @ + 1]
  /\ UNCHANGED <<snapshots, scenes, shots, pipelines, cut, ops, started, crashes>>

UserAddsScene ==
  /\ Len(scenes) < MaxScenes
  /\ scenes' = Append(scenes, Scene(0, 0))
  /\ UNCHANGED <<episode, snapshots, shots, pipelines, cut, ops, started, crashes>>

UserDeletesScene(s) ==
  /\ scenes' = WithoutScenes({s})
  /\ shots' = WithoutShotsOf({s})
  /\ UNCHANGED <<episode, snapshots, pipelines, cut, ops, started, crashes>>

UserAddsShot(s) ==
  /\ Len(shots) < MaxShots
  /\ \E prompt \in BOOLEAN : shots' = Append(shots, Shot(s, 0, prompt))
  /\ UNCHANGED <<episode, snapshots, scenes, pipelines, cut, ops, started, crashes>>

(* Images are generated on the user's request as well. *)
UserGenerates(t) ==
  /\ shots[t].live /\ shots[t].prompt /\ shots[t].image # "queued"
  /\ shots' = [shots EXCEPT ![t].image = "queued"]
  /\ UNCHANGED <<episode, snapshots, scenes, pipelines, cut, ops, started, crashes>>

ImageEnds(t) ==
  /\ shots[t].image = "queued"
  /\ \E image \in {"active", "none"} : shots' = [shots EXCEPT ![t].image = image]
  /\ UNCHANGED <<episode, snapshots, scenes, pipelines, cut, ops, started, crashes>>

Crash ==
  /\ crashes < MaxCrashes /\ \E o \in Ops : ops[o] # NoOp
  /\ ops' = [o \in Ops |-> NoOp]
  /\ crashes' = crashes + 1
  /\ UNCHANGED <<story, pipelines, cut, started>>

OpSteps(o) ==
  \/ RunLoads(o) \/ ConfirmLoads(o) \/ ResumeLoads(o) \/ FinalizeLoads(o) \/ AnalyzeLoads(o) \/ PlanLoads(o)
  \/ WaitsForReview(o) \/ LlmFails(o)
  \/ ReplaysSnapshot(o) \/ RefusesSnapshot(o) \/ WritesSnapshot(o)
  \/ MarksShots(o) \/ AsksForShots(o) \/ PlansAreMade(o)
  \/ ListsShots(o) \/ QueuesImage(o) \/ MarksImages(o)
  \/ CreatesTimeline(o) \/ Arranges(o) \/ QueuesRender(o) \/ Completes(o)
  \/ \E n \in PlanSizes : SavesPreview(o, n) \/ AnalysisWrites(o, n) \/ WritesShots(o, n)

Requests(o) ==
  \/ UserStarts(o, "run", 0, 0, 0)
  \/ \E p \in DOMAIN pipelines : UserStarts(o, "resume", p, 0, 0) \/ UserStarts(o, "finalize", p, 0, 0)
  \/ \E p \in DOMAIN pipelines, sid \in 0..Len(snapshots) : UserStarts(o, "confirm", p, sid, 0)
  \/ \E sid \in 0..Len(snapshots) : UserStarts(o, "analyze", 0, sid, 0)
  \/ \E s \in LiveScenes : UserStarts(o, "plan", 0, 0, s)

PipelineNext ==
  \/ \E o \in Ops : OpSteps(o) \/ Requests(o)
  \/ UserEditsText \/ UserAddsScene \/ Crash
  \/ \E s \in LiveScenes : UserDeletesScene(s) \/ UserAddsShot(s)
  \/ \E t \in DOMAIN shots : UserGenerates(t) \/ ImageEnds(t)

PipelineSpec == PipelineInit /\ [][PipelineNext]_pipelineVars

(***************************************************************************)
(* Properties.                                                             *)
(***************************************************************************)
\* The scenes a confirmation writes are of the text the episode has at that
\* moment, whatever was edited while the model was asked or the user reviewed
\* (preview_analysis keeps the loaded text, confirm_snapshot compares).
ReviewedTextIsCurrent ==
  [][\A s \in DOMAIN snapshots :
       snapshots[s].status = "pending" /\ snapshots'[s].status = "confirmed" => snapshots[s].text = episode.text]_pipelineVars

\* A snapshot is written once: its confirmation by the pipeline, by a resumed
\* pipeline and by the analysis of the episode page, which hold different locks,
\* never write its scenes twice.
SnapshotWrittenOnce ==
  \A i \in DOMAIN snapshots : Cardinality({s \in DOMAIN scenes : scenes[s].snapshot = i}) <= snapshots[i].size

\* No shot plan is written under a scene that was replaced or deleted while the
\* model was asked (create_shots looks the scene up again).
NoShotWithoutScene == \A t \in LiveShots : scenes[shots[t].scene].live
=============================================================================
