----------------------------- MODULE StudioWindow -----------------------------
(***************************************************************************)
(* What the studio's window does with an event: the query cache that an    *)
(* event invalidates, the store of live generations, and the store of the  *)
(* director's panel with the requests the panel sends.                     *)
(*                                                                         *)
(* Only the three kinds of state an event can leave wrong are kept.  Of a  *)
(* query: whether its data is behind the database, whether it is invalid   *)
(* and whether an answer is on its way.  Of the live store: which rows are *)
(* in it.  Of the panel: its run and its status.  The module has no        *)
(* behaviour of its own: EventGateway delivers the events.                 *)
(*                                                                         *)
(* Queries do not act on each other, so one query is modelled: any of the  *)
(* watched ones.                                                           *)
(***************************************************************************)
EXTENDS Integers, FiniteSets

CONSTANTS
  Rows,     \* generations
  Renders,  \* those that render an episode
  Runs,     \* agent runs, of this window and of others
  NoId,     \* no row and no run
  Watched   \* the queries the window may have mounted

ASSUME WindowAssumption ==
  /\ Renders \subseteq Rows
  /\ Rows \cap Runs = {}
  /\ NoId \notin Rows \cup Runs

-----------------------------------------------------------------------------
(* Events and the queries they are about.                                  *)

\* An event of the bus, without its payload.
Event(type, id) == [type |-> type, id |-> id]

GenerationEnds == {"generation.completed", "generation.interrupted"}
RunEnds == {"agent.run.completed", "agent.run.failed", "agent.run.cancelled"}

\* The families of queries an answer of the database is cached in.
Views == {"storyboard", "shots", "scenes", "episodes", "projects", "trash",
          "characters", "documents", "projectAssets", "generations", "versions",
          "jobs", "job", "pipeline", "timeline", "finalVideo", "changeSets",
          "agentRun", "proposals", "sceneContinuity", "continuityWarnings",
          "shotContinuity"}

\* The queries with a refetchInterval.
Polled == {"generations", "versions", "jobs", "agentRun"}

ShotViews == {"storyboard", "shots"}
RunViews  == {"agentRun", "proposals"}

\* The queries whose answer changes with what the event announces.  Completed stands
\* for completed, failed and cancelled.
Touches(e) ==
  CASE e.type = "generation.completed" ->
         {"generations"} \cup
         IF e.id \in Renders THEN {"timeline", "finalVideo"} ELSE ShotViews \cup {"versions"}
    [] e.type \in {"generation.queued", "generation.started", "generation.interrupted"} ->
         {"generations"}
    [] e.type \in {"shot.updated", "shot.active_version.changed"} -> ShotViews
    [] e.type \in {"shot.created", "shot.deleted", "shot.restored"} -> ShotViews \cup {"trash"}
    [] e.type \in {"scene.created", "scene.updated"} -> {"scenes", "storyboard"}
    [] e.type \in {"scene.deleted", "scene.restored"} -> {"scenes", "storyboard", "trash"}
    [] e.type \in {"episode.created", "episode.deleted", "episode.restored"} ->
         {"episodes", "scenes", "storyboard", "trash"}
    [] e.type \in {"project.created", "project.deleted", "project.restored"} ->
         {"projects", "trash"}
    [] e.type \in {"character.created", "character.updated"} -> {"characters"}
    [] e.type \in {"character.deleted", "character.restored"} -> {"characters", "trash"}
    [] e.type = "asset.created" -> {"projects", "projectAssets"}
    [] e.type \in {"timeline.updated", "timeline.clip.updated"} -> {"timeline"}
    [] e.type = "timeline.rendered" -> {"timeline", "finalVideo"}
    [] e.type \in {"job.updated", "job.task.updated"} -> {"jobs", "job"}
    [] e.type = "pipeline.updated" -> {"pipeline"}
    [] e.type = "continuity.warning.created" -> {"sceneContinuity", "continuityWarnings", "shotContinuity"}
    [] e.type \in {"agent.change_set.created", "agent.change_set.undone"} ->
         ShotViews \cup {"changeSets"}
    [] e.type = "agent.proposal.created" -> RunViews
    [] e.type \in {"agent.plan.created", "agent.tool.started", "agent.run.updated"} \cup RunEnds ->
         {"agentRun"}
    [] OTHER -> {}

VARIABLES
  query,     \* a mounted query
  \* the stores
  live,      \* the rows in the store of live generations
  panel,     \* the run and the status of the director's panel
  request,   \* the request of the panel that the backend has served
  astray     \* history: the rows and runs whose store entry no event will correct

stores == <<live, panel, request, astray>>
window == <<query, stores>>

\* A query.  It is behind if it shows something else than the database says, and due
\* if it is invalid.  An answer on its way is current, or old if the database has
\* changed since.  Unheard is history: the query is behind through a change whose
\* event the window ignores or has no case for.
Queries ==
  [view : Watched, behind : BOOLEAN, due : BOOLEAN,
   answer : {"none", "current", "old"}, unheard : BOOLEAN]

Fresh(view) ==
  [view |-> view, behind |-> FALSE, due |-> FALSE, answer |-> "none", unheard |-> FALSE]

\* A request of the panel: what was asked, and of which run.
NoRequest == [ask |-> "nothing", run |-> NoId]

EmptyPanel == [run |-> NoId, status |-> "idle"]

WindowInit ==
  /\ query \in {Fresh(v) : v \in Watched}
  /\ live = {}
  /\ panel = EmptyPanel
  /\ request = NoRequest
  /\ astray = {}

-----------------------------------------------------------------------------
(* The query cache.                                                        *)

\* A query of a run is mounted for the run in the panel.
IsMounted == query.view \in RunViews => panel.run # NoId
IsAbout(e) == query.view \in RunViews => e.id = panel.run /\ IsMounted

\* EventRouter.handle, the agent's events: the queries each invalidates.
InvalidatesOfAgent(e) ==
  CASE e.type = "agent.run.completed" -> ShotViews
    [] e.type \in {"agent.change_set.created", "agent.change_set.undone"} ->
         ShotViews \cup {"changeSets"}
    [] e.type = "agent.proposal.created" /\ e.id = panel.run -> RunViews
       \* its payload has no run: the panel takes it for an approval of its own run
    [] e.type = "agent.approval.required" /\ panel.run # NoId -> RunViews
    [] OTHER -> {}

\* EventRouter.handle, the events of generations (refreshAfterGeneration).
InvalidatesOfGeneration(e) ==
  IF e.type = "generation.completed"
  THEN ShotViews \cup {"generations", "versions"} \cup
       IF e.id \in Renders THEN {"timeline", "finalVideo"} ELSE {}
  ELSE {}

\* EventRouter.handle, the events of resources.
InvalidatesOfResource(e) ==
  CASE e.type = "asset.created" -> {"projects", "projectAssets"}
    [] e.type \in {"shot.updated", "shot.active_version.changed", "shot.restored"} -> ShotViews
    [] e.type \in {"character.created", "character.updated",
                   "character.deleted", "character.restored"} -> {"characters"}
    [] e.type = "pipeline.updated" -> {"pipeline"}
    [] e.type \in {"job.updated", "job.task.updated"} -> {"jobs", "job"}
    [] e.type = "continuity.warning.created" -> {"sceneContinuity", "continuityWarnings", "shotContinuity"}
    [] e.type = "scene.created" -> {"scenes"}
    [] e.type = "scene.restored" -> {"scenes", "storyboard", "trash"}
    [] e.type = "episode.restored" -> {"episodes", "scenes", "storyboard", "trash"}
    [] e.type = "project.restored" -> {"projects", "trash"}
    [] e.type \in {"shot.created", "shot.deleted", "scene.deleted", "episode.created",
                   "episode.deleted", "project.created", "project.deleted"} -> {"trash"}
    [] e.type \in {"timeline.updated", "timeline.clip.updated", "timeline.rendered"} ->
         {"timeline", "finalVideo"}
    [] OTHER -> {}

Invalidates(e) ==
  query.view \in InvalidatesOfAgent(e) \cup InvalidatesOfGeneration(e) \cup InvalidatesOfResource(e)

\* A mutated form: an answer on its way is taken for the fetch that is due.
InvalidatedMutant(really) ==
  query' = [query EXCEPT !.due = @ \/ (really /\ query.answer = "none")]

\* invalidateQueries: an answer on its way is given up, the query is fetched again.
Invalidated(really) ==
  query' = IF really THEN [query EXCEPT !.due = TRUE, !.answer = "none"] ELSE query

\* A commit of the backend: a query it touches falls behind, without notice if no
\* case of the router invalidates it.
Commits(e) ==
  query' = IF query.view \in Touches(e) /\ IsAbout(e)
           THEN [query EXCEPT !.behind = TRUE,
                              !.answer = IF @ = "none" THEN "none" ELSE "old",
                              !.unheard = @ \/ ~Invalidates(e)]
           ELSE query

\* The backend answers the fetch of an invalid or a polled query ...
BackendAnswers ==
  /\ query.due \/ (query.view \in Polled /\ query.behind)
  /\ query.answer = "none"
  /\ query' = [query EXCEPT !.due = FALSE, !.answer = "current"]
  /\ UNCHANGED stores

\* ... and the window shows the answer.
ShowsAnswer ==
  /\ query.answer # "none"
  /\ query' = IF query.answer = "current"
              THEN Fresh(query.view)
              ELSE [query EXCEPT !.answer = "none"]
  /\ UNCHANGED stores

\* The query of the panel's run is mounted anew, or is not mounted.
Mounts(run) ==
  query' = IF run = panel.run \/ query.view \notin RunViews
           THEN query
           ELSE [Fresh(query.view) EXCEPT !.behind = run # NoId, !.due = run # NoId]

\* EventRouter.reconcile: every mounted query is invalid.  The stores stay as they are.
Reconcile ==
  /\ Invalidated(IsMounted)
  /\ UNCHANGED stores

-----------------------------------------------------------------------------
(* The stores.                                                             *)

\* The panel waits for its run: nothing can be submitted.
BusyStatuses == {"thinking", "planning", "executing"}
Over == {"completed", "failed", "cancelled"}
PanelStatuses == BusyStatuses \cup Over \cup {"idle", "waiting_human", "cancelling"}

\* The status an event of an agent gives the panel: of whichever run it is.
StatusAfter(e) ==
  CASE e.type = "agent.plan.created"      -> "planning"
    [] e.type = "agent.tool.started"      -> "executing"
    [] e.type = "agent.approval.required" -> "waiting_human"
    [] e.type = "agent.run.completed"     -> "completed"
    [] e.type = "agent.run.failed"        -> "failed"
    [] e.type = "agent.run.cancelled"     -> "cancelled"
    [] OTHER -> panel.status

\* normalizeRunStatus
Normalized(status) ==
  CASE status \in Over \cup {"cancelling"} -> status
    [] status = "waiting"                  -> "waiting_human"
    [] OTHER                               -> "executing"

\* A mutated form: the end of a row is one more upsert.
LiveAfterMutant(e) ==
  IF e.type \in {"generation.queued", "generation.started", "generation.completed"}
  THEN live \cup {e.id}
  ELSE live

\* upsert and remove; an interrupted row has no case.
LiveAfter(e) ==
  CASE e.type \in {"generation.queued", "generation.started"} -> live \cup {e.id}
    [] e.type = "generation.completed" -> live \ {e.id}
    [] OTHER -> live

\* The event will take its row out of the live store, or its run out of the busy
\* statuses.
Corrects(e) == e.type = "generation.completed" \/ e.type \in RunEnds

\* EventRouter.handle; after a gap everything is invalid.
Route(e, gap) ==
  /\ Invalidated((gap /\ IsMounted) \/ Invalidates(e))
  /\ live' = LiveAfter(e)
  /\ panel' = [panel EXCEPT !.status = StatusAfter(e)]
  /\ astray' = IF e.type \in RunEnds
               THEN astray \ {e.id}
               ELSE IF e.id # panel.run /\ StatusAfter(e) # panel.status
                    THEN astray \cup {panel.run}
                    ELSE astray
  /\ UNCHANGED request

\* An ignored or a lost event corrects nothing any more.
Loses(events) == astray' = astray \cup {e.id : e \in {f \in events : Corrects(f)}}

\* The answer to a request of the panel, whichever run it shows by then.  Gone are the
\* runs that have ended and of whose end no event is to come.
TakesRequest(gone) ==
  /\ request.ask # "nothing"
  /\ request' = NoRequest
  /\ CASE request.ask = "start" ->
            /\ panel' = [run |-> request.run, status |-> "thinking"]
            /\ Mounts(request.run)
       [] request.ask = "cancel" ->
            /\ panel' = [panel EXCEPT !.status = "cancelled"]
            /\ UNCHANGED query
       [] request.ask = "resume" ->
            /\ panel' = [panel EXCEPT !.status = "executing"]
            /\ Invalidated(IsMounted /\ query.view \in RunViews)
  /\ astray' = astray \cup ({panel'.run} \cap gone)
  /\ UNCHANGED live

\* The last run of the project, in a panel that shows nothing.
Hydrates(run, status) ==
  /\ panel = EmptyPanel
  /\ panel' = [run |-> run, status |-> Normalized(status)]
  /\ Mounts(run)
  /\ UNCHANGED <<live, request, astray>>

\* The user begins a new session.
Resets ==
  /\ panel.status \in Over
  /\ panel' = EmptyPanel
  /\ Mounts(NoId)
  /\ UNCHANGED <<live, request, astray>>

WindowTypeOK ==
  /\ query \in Queries
  /\ live \subseteq Rows
  /\ panel \in [run : Runs \cup {NoId}, status : PanelStatuses]
  /\ request \in [ask : {"nothing", "start", "cancel", "resume"}, run : Runs \cup {NoId}]
  /\ astray \subseteq Rows \cup Runs \cup {NoId}
=============================================================================
