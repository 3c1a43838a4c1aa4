--------------------------- MODULE ContinuityChain ---------------------------
(***************************************************************************)
(* The continuity engine of one scene (services/continuity_service.py).    *)
(* Every shot has a stored row with its resolved state: what the shot      *)
(* itself states, else what held before.  An edit commits first; then, in  *)
(* transactions of their own, a hook resolves the rows from the edited     *)
(* shot to the end of the scene again and marks their active images as     *)
(* stale.  Requests run in threads.                                        *)
(*                                                                         *)
(* "What held before" is meant to be the end of the shot before.  But      *)
(* _resolve_shot hands back the prev_end it was given, so that all shots   *)
(* of one recompute are resolved from the state before the first of them:  *)
(* the stored end of the shot before it, or, at the head of the scene, the *)
(* base.  The model does what the code does.                               *)
(*                                                                         *)
(* The state of a shot (environment, characters, props) is abstracted to   *)
(* one fact that is stated or inherited like each of theirs, and to the    *)
(* version of the character that is in every shot, which only the base     *)
(* states: the master version at the time the base was computed.           *)
(***************************************************************************)
EXTENDS Integers, FiniteSetsExt

CONSTANTS Shots,      \* ids of shots
          FirstShots, \* the shots the scene starts with
          Facts,      \* values of the fact
          Versions,   \* versions of the character
          None,       \* not stated, not known, no row
          Clients,    \* threads that serve requests
          MaxOps,     \* bound: requests
          Drawn,      \* bound: the shots that images are generated for
          MaxImages,  \* bound: images per shot
          MaxFailures \* bound: hooks and reads that fail half-way

ASSUME ContinuityAssumption ==
  /\ FirstShots \subseteq Shots /\ Drawn \subseteq Shots
  /\ Shots \subseteq Nat \ {0} /\ IsFiniteSet(Shots) /\ None \notin Shots
  /\ None \notin Facts \cup Versions /\ Versions # {}
  /\ MaxOps \in Nat /\ MaxImages \in Nat /\ MaxFailures \in Nat

VARIABLES live,     \* the live shots of the scene
          num,      \* shot_number and shot_order, which are kept equal; 0: not created
          fact,     \* what each shot states
          scene,    \* what the scene row states
          master,   \* the master version of the character
          base,     \* scene_continuity_states: the stored base, or None
          chain,    \* shot_continuity_states: the stored row of each shot
          image,    \* the active image of each shot
          running,  \* the generation that runs for each shot
          req,      \* what each thread is doing
          ops,      \* requests so far
          failures, \* requests that failed half-way
          suspect   \* history: what earlier requests may have left out of date

story == <<live, num, fact, scene, master>>
continuityVars == <<story, base, chain, image, running, req, ops, failures, suspect>>

Nothing == [s \in {} |-> None]
NoRow   == [end |-> None, warnings |-> {}]
NoImage == [n |-> 0, status |-> "none", of |-> None, overtaken |-> FALSE]

(* pc: the next step; from: the shot the dirty range starts at, None for   *)
(* the head; todo: the shots to start at after it, with the numbers they   *)
(* were listed by; sees: the scene and the active images of shots as the   *)
(* session holds them; rows: what the next commit writes, inserts: the     *)
(* rows it creates; alone: no other request has met this one.              *)
Request(kind, pc, from) ==
  [kind |-> kind, pc |-> pc, from |-> from, todo |-> Nothing,
   sees |-> [scene |-> scene, images |-> Nothing],
   rows |-> Nothing, inserts |-> {}, alone |-> TRUE]
Idle == [Request("none", "idle", None) EXCEPT !.sees.scene = None]
Held(S) == [s \in S |-> image[s].n]

Busy == {c \in Clients : req[c].pc # "idle"}

(* The live shots, ORDER BY shot_order: those before s and the last of them,*)
(* and those from s on, which are all of them without an s.                *)
Latest(S) == {t \in S : \A u \in S : num[u] <= num[t]}
OneOf(S)  == CHOOSE t \in S : TRUE

Before(s) == {t \in live : num[t] < num[s]}

Previous(s) == IF s = None \/ Before(s) = {} THEN None ELSE OneOf(Latest(Before(s)))

FromOn(s) == {t \in live : s # None => num[t] >= num[s]}

ChainInit ==
  /\ live = FirstShots
  /\ num = [s \in Shots |-> IF s \in FirstShots THEN s ELSE 0]
  /\ fact = [s \in Shots |-> None]
  /\ scene \in Facts /\ master \in Versions
  /\ base = None
  /\ chain = [s \in Shots |-> NoRow]
  /\ image = [s \in Shots |-> NoImage]
  /\ running = [s \in Shots |-> NoImage]
  /\ req = [c \in Clients |-> Idle]
  /\ ops = 0
  /\ failures = 0
  /\ suspect = {}

-----------------------------------------------------------------------------
(* Resolving.                                                              *)

(* What holds in a shot: what it states itself, else what holds before it. *)
Stated(s, before) == IF fact[s] = None THEN before ELSE [before EXCEPT !.fact = fact[s]]

(* The base: what the scene states and, for the characters that its shots   *)
(* have, the master version.                                               *)
BaseState(stated) == [fact |-> stated, version |-> IF live = {} THEN None ELSE master]

(* A jump against what held before, a change against the base, a version   *)
(* that is not the master any more.                                        *)
Jumps(prev, start) == prev # None /\ start.fact # prev.fact
Changed(start, b)  == start.fact # b.fact
Outdated(start)    == start.version \notin {None, master}

Rules(prev, start, b) ==
  {w \in {"jump", "changed", "outdated"} :
     CASE w = "jump" -> Jumps(prev, start)
       [] w = "changed" -> Changed(start, b)
       [] w = "outdated" -> Outdated(start)}

(* The rows from a shot on, all of them resolved from prev, the end of the *)
(* shot before it, or, without one, from the base b.                       *)
ResolvedMutant(from, prev, b) ==  \* mutant: the first of them alone
  [s \in {t \in FromOn(from) : \A u \in FromOn(from) : num[t] <= num[u]} |->
     LET end == Stated(s, IF prev # None THEN prev ELSE b) IN
     [end |-> end, warnings |-> Rules(prev, end, b)]]
Resolved(from, prev, b) ==
  [s \in FromOn(from) |->
     LET end == Stated(s, IF prev # None THEN prev ELSE b) IN
     [end |-> end, warnings |-> Rules(prev, end, b)]]

(* For the images: what a shot shows is what it states, else what the      *)
(* nearest earlier shot that states it does, else what the scene does.     *)
Stating(s) == {t \in live : num[t] <= num[s] /\ fact[t] # None}

Shown(s) ==
  [fact |-> IF Stating(s) = {} THEN scene ELSE fact[OneOf(Latest(Stating(s)))],
   version |-> master]

-----------------------------------------------------------------------------
(* Requests.                                                               *)

(* Two requests at once: each may resolve from what the other is about to  *)
(* write.                                                                  *)
Met == IF Busy = {} THEN {} ELSE {"rows", "images"}

Joined == [c \in Clients |-> [req[c] EXCEPT !.alone = c \notin Busy]]

Starts(c, r) ==
  /\ ops < MaxOps
  /\ ops' = ops + 1
  /\ req' = [Joined EXCEPT ![c] = [r EXCEPT !.alone = Busy = {}]]
  /\ suspect' = suspect \cup Met

Goes(c, pc) == req' = [req EXCEPT ![c].pc = pc]
Ended(c)    == req' = [req EXCEPT ![c] = Idle]

(* A change of the story: what generations are running from is old.        *)
Overtakes == running' = [s \in Shots |-> [running[s] EXCEPT !.overtaken = running[s].n > 0]]

(* update_shot: commit, then the hook.                                     *)
EditShot(c, s, v) ==
  /\ req[c].pc = "idle" /\ s \in live /\ v # fact[s]
  /\ Overtakes
  /\ fact' = [fact EXCEPT ![s] = v]
  /\ Starts(c, [Request("shot", "load", s) EXCEPT !.sees.images = Held({s})])
  /\ UNCHANGED <<live, num, scene, master, base, chain, image, failures>>

(* update_scene: commit, then the hook.                                    *)
EditScene(c, v) ==
  /\ req[c].pc = "idle" /\ v # scene
  /\ Overtakes
  /\ scene' = v
  /\ Starts(c, [Request("scene", "base", None) EXCEPT !.sees.scene = v])
  /\ UNCHANGED <<live, num, fact, master, base, chain, image, failures>>

(* activate_version: commit, then the hook, which does not compute the     *)
(* base again: resolved states keep their version.                         *)
ActivateVersion(c, v) ==
  /\ req[c].pc = "idle" /\ v # master
  /\ Overtakes
  /\ master' = v
  /\ Starts(c, Request("version", "list", None))
  /\ UNCHANGED <<live, num, fact, scene, base, chain, image, failures>>

FirstOf(list) == CHOOSE s \in DOMAIN list : \A t \in DOMAIN list : list[s] <= list[t]
RestOf(list)  == [s \in DOMAIN list \ {FirstOf(list)} |-> list[s]]

(* Every shot of the scene in turn starts a recompute to its end; the list *)
(* comes in the order of the partial index on scene_id and shot_order.     *)
ListsShots(c) ==
  /\ req[c].pc = "list"
  /\ IF live = {} THEN Ended(c)
     ELSE LET list == [s \in live |-> num[s]] IN
          req' = [req EXCEPT ![c].pc = "load", ![c].from = FirstOf(list), ![c].todo = RestOf(list),
                             ![c].sees.images = Held(live)]
  /\ UNCHANGED <<story, base, chain, image, running, ops, suspect, failures>>

(* POST .../continuity/recompute.                                          *)
Recompute(c) ==
  /\ req[c].pc = "idle"
  /\ Starts(c, Request("recompute", "base", None))
  /\ UNCHANGED <<story, base, chain, image, running, failures>>

(* GET .../continuity of the scene: computes what is missing.              *)
ReadScene(c) ==
  /\ req[c].pc = "idle"
  /\ base = None \/ \E s \in live : chain[s] = NoRow
  /\ Starts(c, Request("read", IF base = None THEN "base" ELSE "load", None))
  /\ UNCHANGED <<story, base, chain, image, running, failures>>

(* GET .../continuity-state of a shot without a row.                       *)
ReadShot(c, s) ==
  /\ req[c].pc = "idle" /\ s \in live
  /\ chain[s] = NoRow
  /\ Starts(c, Request("read", "load", s))
  /\ UNCHANGED <<story, base, chain, image, running, failures>>

(* compute_scene_base.                                                     *)
BaseCommits(c) ==
  /\ req[c].pc = "base"
  /\ base' = BaseState(req[c].sees.scene)
  /\ IF req[c].kind = "read" /\ \A s \in live : chain[s] # NoRow THEN Ended(c) ELSE Goes(c, "load")
  /\ UNCHANGED <<story, chain, image, running, ops, suspect, failures>>

(* Where a recompute starts: behind a shot whose row holds what it ended   *)
(* with, else at the head.                                                 *)
From(s) == IF Previous(s) # None /\ chain[Previous(s)] = NoRow THEN None ELSE s

Seed(s) == IF Previous(s) = None THEN None ELSE chain[Previous(s)].end

(* compute_shot_states reads the base, the shots and the row before them;  *)
(* a shot that is gone raises, and an empty scene has nothing to write.    *)
ChainLoads(c) ==
  LET r == req[c] IN
  /\ r.pc = "load"
  /\ IF base = None THEN req' = [req EXCEPT ![c].pc = "base", ![c].sees.scene = scene]
     ELSE IF live = {} \/ r.from \notin live \cup {None} THEN Ended(c)
     ELSE LET from == From(r.from)
              rows == Resolved(from, Seed(from), base) IN
          req' = [req EXCEPT ![c].pc = "commit", ![c].rows = rows,
                             ![c].inserts = {s \in DOMAIN rows : chain[s] = NoRow}]
  /\ UNCHANGED <<story, base, chain, image, running, ops, suspect, failures>>

(* It commits; a row that another thread has inserted meanwhile raises.    *)
ChainCommits(c) ==
  LET r == req[c] IN
  /\ r.pc = "commit"
  /\ IF \E s \in r.inserts : chain[s] # NoRow
     THEN Ended(c) /\ UNCHANGED <<chain, suspect>>
     ELSE /\ chain' = [s \in Shots |-> IF s \in DOMAIN r.rows THEN r.rows[s] ELSE chain[s]]
          /\ suspect' = IF r.kind \in {"scene", "recompute"} /\ r.alone THEN suspect \ {"rows"} ELSE suspect
          /\ CASE r.todo # Nothing ->
                    req' = [req EXCEPT ![c].pc = "load", ![c].from = FirstOf(r.todo), ![c].todo = RestOf(r.todo),
                                       ![c].rows = Nothing, ![c].inserts = {}]
               [] r.todo = Nothing /\ r.kind \in {"shot", "scene", "version"} ->
                    req' = [req EXCEPT ![c].pc = "stale", ![c].rows = Nothing, ![c].inserts = {}]
               [] OTHER -> Ended(c)
  /\ UNCHANGED <<story, base, image, running, ops, failures>>

(* _stale_assets_from: the active images from the edited shot on, all of   *)
(* them for a scene or a version.  The session still holds the edited shot *)
(* or the listed shots as they were.                                       *)
DownstreamMutant(s) == {t \in live : s # None /\ s \in live => num[t] = num[s]}  \* mutant: the shot alone
Downstream(s) == {t \in live : s # None /\ s \in live => num[t] >= num[s]}

StaleMarks(c) ==
  LET r == req[c]
      marked == {s \in Downstream(IF r.kind = "shot" THEN r.from ELSE None) :
                   image[s].n > 0 /\ (s \in DOMAIN r.sees.images => image[s].n = r.sees.images[s])} IN
  /\ r.pc = "stale"
  /\ image' = [s \in Shots |-> IF s \in marked THEN [image[s] EXCEPT !.status = "stale"] ELSE image[s]]
  /\ suspect' = IF r.kind = "scene" /\ r.alone THEN suspect \ {"images"} ELSE suspect
  /\ Ended(c)
  /\ UNCHANGED <<story, base, chain, running, ops, failures>>

(* An exception in the hook, which is logged and swallowed, or the end of  *)
(* the process.                                                            *)
HookFails(c) ==
  /\ req[c].pc # "idle" /\ failures < MaxFailures
  /\ failures' = failures + 1
  /\ Ended(c)
  /\ suspect' = {"rows", "images"}
  /\ UNCHANGED <<story, base, chain, image, running, ops>>

-----------------------------------------------------------------------------
(* Requests without a hook.                                                *)

Rearranges(doubt) ==
  /\ ops < MaxOps
  /\ ops' = ops + 1
  /\ Overtakes
  /\ req' = Joined
  /\ suspect' = suspect \cup doubt
  /\ UNCHANGED <<fact, scene, master, base, chain, image, failures>>

(* create_shot: at the end of the scene.                                   *)
CreateShot(s) ==
  /\ num[s] = 0
  /\ live' = live \cup {s}
  /\ num' = [num EXCEPT ![s] = 1 + Max({0} \cup {num[t] : t \in live})]
  /\ Rearranges(Met)

DeleteShot(s) ==
  /\ s \in live
  /\ live' = live \ {s}
  /\ Rearranges({"rows", "images"})
  /\ UNCHANGED num

(* restore_shot: refused when its number is in use.                        *)
RestoreShot(s) ==
  /\ num[s] > 0 /\ s \notin live
  /\ \A t \in live : num[t] # num[s]
  /\ live' = live \cup {s}
  /\ Rearranges({"rows", "images"})
  /\ UNCHANGED num

(* reorder_shots: the live shots are numbered anew.                        *)
ReorderShots(order) ==
  /\ num' = [s \in Shots |-> IF s \in live THEN order[s] ELSE num[s]]
  /\ Rearranges({"rows", "images"})
  /\ UNCHANGED live

(* An image is requested and delivered as active.                          *)
Generates(s) ==
  /\ s \in live \cap Drawn /\ running[s].n = 0 /\ image[s].n < MaxImages
  /\ running' = [running EXCEPT ![s] =
       [n |-> image[s].n + 1, status |-> "ready", of |-> Shown(s), overtaken |-> FALSE]]
  /\ UNCHANGED <<story, base, chain, image, req, ops, suspect, failures>>

Delivers(s) ==
  /\ running[s].n > 0
  /\ image' = [image EXCEPT ![s] = running[s]]
  /\ running' = [running EXCEPT ![s] = NoImage]
  /\ UNCHANGED <<story, base, chain, req, ops, suspect, failures>>

-----------------------------------------------------------------------------

Serves(c) == ListsShots(c) \/ BaseCommits(c) \/ ChainLoads(c) \/ ChainCommits(c) \/ StaleMarks(c) \/ HookFails(c)

ChainNext ==
  \/ \E c \in Clients, s \in Shots, v \in Facts \cup {None} : EditShot(c, s, v)
  \/ \E c \in Clients, v \in Facts : EditScene(c, v)
  \/ \E c \in Clients, v \in Versions : ActivateVersion(c, v)
  \/ \E c \in Clients : Recompute(c) \/ ReadScene(c) \/ Serves(c)
  \/ \E c \in Clients, s \in Shots : ReadShot(c, s)
  \/ \E s \in Shots : CreateShot(s) \/ DeleteShot(s) \/ RestoreShot(s) \/ Generates(s) \/ Delivers(s)
  \/ \E order \in Bijection(live, 1..Cardinality(live)) : ReorderShots(order)

ChainSpec == ChainInit /\ [][ChainNext]_continuityVars

-----------------------------------------------------------------------------
(* Properties                                                              *)

(* A shot starts with what the shot before it ends with, and with its own  *)
(* overrides: what _resolve_start promises.  The code does not keep it.    *)
StartsWhereThePreviousEnds ==
  Busy = {} /\ "rows" \notin suspect =>
    \A s \in {t \in live : Previous(t) # None} :
      LET prev == chain[Previous(s)]
          row  == chain[s]
      IN  prev # NoRow /\ row # NoRow => row.end = Stated(s, prev.end)

(* Resolving the dirty range keeps every stored row true to the story as   *)
(* it is now: while no two requests have met and no shot was deleted,      *)
(* restored or moved since the last full recompute, a row holds what its   *)
(* shot states, else what the scene or an earlier shot states now, never a *)
(* fact that an edit has removed; and its warnings tell of a fact that is  *)
(* not the scene's and of a version that is not the master.                *)
RowsComeFromTheStory ==
  Busy = {} /\ "rows" \notin suspect =>
    \A s \in live : chain[s] # NoRow =>
      LET end == chain[s].end IN
      /\ end.fact \in IF fact[s] # None THEN {fact[s]}
                      ELSE {scene} \cup ({fact[t] : t \in Before(s)} \ {None})
      /\ "changed" \in chain[s].warnings <=> end.fact # scene
      /\ "outdated" \in chain[s].warnings <=> end.version \notin {None, master}

(* Under the same conditions, an active image that is not marked as stale  *)
(* shows what its shot states or inherits now and the master version,      *)
(* unless it was running while the story changed.                          *)
ReadyImagesAreCurrent ==
  Busy = {} /\ "images" \notin suspect =>
    \A s \in live : image[s].status = "ready" /\ ~image[s].overtaken => image[s].of = Shown(s)

=============================================================================
