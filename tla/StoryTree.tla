------------------------------ MODULE StoryTree ------------------------------
(***************************************************************************)
(* The story tree: a project, its episodes, their scenes, their shots, and *)
(* the library of the project: its characters, locations, costumes and     *)
(* documents.  Rows are soft-deleted, a delete of a project or an episode  *)
(* cascades, a restore revives what shares the deletion time, siblings     *)
(* carry numbers a partial unique index keeps apart.  Every request runs   *)
(* in a thread of its own with a session of its own: it reads first (the   *)
(* reads take no lock) and writes in one transaction later, so a request   *)
(* is two steps, Begin and Commit.                                         *)
(***************************************************************************)
EXTENDS Integers, FiniteSets, SequencesExt

CONSTANTS Projects, Episodes, Scenes, Shots, Library,  \* row identities
          Above,        \* the row a row belongs to
          Given,        \* numbers a client may ask for (scenes and shots)
          TreeClients,  \* request threads
          MaxClock,     \* bound on the number of deletes
          NoRow

VARIABLES at,        \* at[r]: Absent, Live or the deletion time (deleted_at)
          kind,      \* the table of a library row, never changed
          num,       \* episode_number / scene_number / shot_number (= shot_order)
          clock,     \* the time of the last delete
          req,       \* req[c]: the request client c has begun
          overlapped,\* history: two requests have been under way at once
          by,        \* history until then: the row whose delete call removed r
          raised     \* history until then: requests ended by an IntegrityError

treeVars == <<at, kind, num, clock, req, overlapped, by, raised>>

Rows == Projects \cup Episodes \cup Scenes \cup Shots \cup Library
Kinds == {"character", "location", "costume", "document"}
Numbered == Episodes \cup Scenes \cup Shots
Absent == -1
Live == 0
Idle == [op |-> "idle"]

ASSUME AboveAssumption ==
  /\ Above \in [Rows \ Projects -> Rows]
  /\ \A r \in Episodes \cup Library : Above[r] \in Projects
  /\ \A r \in Scenes : Above[r] \in Episodes
  /\ \A r \in Shots : Above[r] \in Scenes

\* Every kind of row has a table and ids of its own.
ASSUME TreeAssumption ==
  /\ IsFiniteSet(Rows) /\ NoRow \notin Rows
  /\ Projects \cap (Episodes \cup Scenes \cup Shots \cup Library) = {}
  /\ Episodes \cap (Scenes \cup Shots \cup Library) = {}
  /\ Scenes \cap (Shots \cup Library) = {} /\ Shots \cap Library = {}
  /\ Given \subseteq Nat /\ MaxClock \in Nat

IsLive(r) == at[r] = Live
IsDeleted(r) == at[r] > 0
Siblings(r) == {s \in Rows \ Projects : Above[s] = Above[r] /\ s \in Numbered}
LiveUnder(r) == {s \in Rows \ Projects : Above[s] = r /\ IsLive(s)}

TreeInit ==
  /\ at = [r \in Rows |-> IF r \in Projects THEN Live ELSE Absent]
  /\ kind \in [Library -> Kinds]
  /\ num = [r \in Rows |-> 0]
  /\ clock = 0
  /\ req = [c \in TreeClients |-> Idle]
  /\ by = [r \in Rows |-> NoRow]
  /\ raised = {}
  /\ overlapped = FALSE

(* Sequence numbers count live rows only, so a deleted number is free.     *)
NextNumber(parent) == Max({num[s] : s \in LiveUnder(parent)} \cup {0}) + 1

(* The partial unique indexes: no two live siblings share a number.        *)
UniqueIn(a, n) ==
  \A r, s \in Numbered :
    r # s /\ Above[r] = Above[s] /\ a[r] = Live /\ a[s] = Live => n[r] # n[s]

Begin(c, request) ==
  /\ req[c] = Idle
  /\ req' = [req EXCEPT ![c] = request]
  /\ IF \E d \in TreeClients \ {c} : req[d] # Idle
     THEN overlapped' = TRUE /\ by' = [r \in Rows |-> NoRow] /\ raised' = {}
     ELSE UNCHANGED <<overlapped, by, raised>>

Raise(c) == raised' = IF overlapped THEN {} ELSE raised \cup {req[c].op}

(* The write of a request.  The index refuses it as a whole: the thread    *)
(* answers 500 and its session is rolled back.                             *)
WriteOrRaise(c, a, n) ==
  /\ IF UniqueIn(a, n)
     THEN at' = a /\ num' = n /\ UNCHANGED raised
     ELSE Raise(c) /\ UNCHANGED <<at, num>>
  /\ req' = [req EXCEPT ![c] = Idle]

----------------------------------------------------------------------------
(* The creates.  A live parent is required; scenes and shots may be given  *)
(* a number, otherwise the next one is read.  A library row has none.      *)
Creates(c, r, numbers) ==
  /\ at[r] = Absent /\ IsLive(Above[r])
  /\ \A d \in TreeClients : req[d] # Idle => req[d].row # r
  /\ \E n \in numbers : Begin(c, [op |-> "create", row |-> r, n |-> n])
  /\ UNCHANGED <<at, kind, num, clock>>

BeginCreateEpisode(c, e) == Creates(c, e, {NextNumber(Above[e])})
BeginCreateScene(c, s) == Creates(c, s, Given \cup {NextNumber(Above[s])})
BeginCreateShot(c, h) == Creates(c, h, Given \cup {NextNumber(Above[h])})
BeginCreateCharacter(c, k) == kind[k] = "character" /\ Creates(c, k, {0})
BeginCreateLocation(c, k) == kind[k] = "location" /\ Creates(c, k, {0})
BeginCreateCostume(c, k) == kind[k] = "costume" /\ Creates(c, k, {0})
BeginCreateDocument(c, k) == kind[k] = "document" /\ Creates(c, k, {0})

CommitCreate(c) ==
  /\ req[c].op = "create"
  /\ LET r == req[c].row IN
       WriteOrRaise(c, [at EXCEPT ![r] = Live], [num EXCEPT ![r] = req[c].n])
  /\ UNCHANGED <<kind, clock, by, overlapped>>

----------------------------------------------------------------------------
EpisodeCascadeMutant(e) == LiveUnder(e)  \* mutant: the shots are forgotten

(* The deletes.  The rows a call removes are the live ones it reads level  *)
(* by level; a scene, a shot or a library row takes nothing along.         *)
EpisodeCascade(e) ==
  LET scenes == LiveUnder(e) IN scenes \cup UNION {LiveUnder(s) : s \in scenes}

ProjectCascade(p) ==
  LET below == LiveUnder(p)
  IN below \cup UNION {EpisodeCascade(e) : e \in below \cap Episodes}

Deletes(c, r, below) ==
  /\ IsLive(r)
  /\ Begin(c, [op |-> "delete", row |-> r, rows |-> {r} \cup below])
  /\ UNCHANGED <<at, kind, num, clock>>

BeginDeleteProject(c, p) == Deletes(c, p, ProjectCascade(p))
BeginDeleteEpisode(c, e) == Deletes(c, e, EpisodeCascade(e))
BeginDeleteScene(c, s) == Deletes(c, s, {})
BeginDeleteShot(c, h) == IsLive(Above[h]) /\ Deletes(c, h, {})
BeginDeleteCharacter(c, k) == kind[k] = "character" /\ Deletes(c, k, {})
BeginDeleteLocation(c, k) == kind[k] = "location" /\ Deletes(c, k, {})
BeginDeleteCostume(c, k) == kind[k] = "costume" /\ Deletes(c, k, {})
BeginDeleteDocument(c, k) == kind[k] = "document" /\ Deletes(c, k, {})

CommitDelete(c) ==
  /\ req[c].op = "delete"
  /\ clock < MaxClock
  /\ clock' = clock + 1
  /\ at' = [r \in Rows |-> IF r \in req[c].rows THEN clock + 1 ELSE at[r]]
  /\ by' = [r \in Rows |-> IF r \in req[c].rows /\ ~overlapped THEN req[c].row ELSE by[r]]
  /\ req' = [req EXCEPT ![c] = Idle]
  /\ UNCHANGED <<kind, num, raised, overlapped>>

----------------------------------------------------------------------------
(* The restores.  A live parent and a free number are checked first (a     *)
(* project has neither, a character needs neither; the rest of the library *)
(* has no restore of its own); what shares the time of deletion comes back *)
(* with its project or episode.                                            *)
SharesTime(r, t) == {s \in Rows \ Projects : Above[s] = r /\ at[s] = t}
EpisodeRevivalMutant(e, t) ==  \* mutant: whatever is deleted below comes back
  LET scenes == {s \in Scenes : Above[s] = e /\ IsDeleted(s)}
  IN scenes \cup {h \in Shots : Above[h] \in scenes /\ IsDeleted(h)}

EpisodeRevival(e, t) ==
  LET scenes == SharesTime(e, t) IN scenes \cup UNION {SharesTime(s, t) : s \in scenes}

(* restore_project reads the scenes after it has flushed the episodes: it  *)
(* looks below every episode that is live by then.                         *)
ProjectRevival(p, t) ==
  LET below == SharesTime(p, t)
      scenes == UNION {SharesTime(e, t) : e \in (below \cup LiveUnder(p)) \cap Episodes}
  IN below \cup scenes \cup UNION {SharesTime(s, t) : s \in scenes}
RestoreAllowedMutant(r) == r \in Numbered => IsLive(Above[r])  \* mutant: number unchecked

RestoreAllowed(r) ==
  r \in Numbered => /\ IsLive(Above[r])
                    /\ \A s \in Siblings(r) : IsLive(s) => num[s] # num[r]

Restores(c, r, below) ==
  /\ IsDeleted(r) /\ RestoreAllowed(r)
  /\ Begin(c, [op |-> "restore", row |-> r, rows |-> {r} \cup below])
  /\ UNCHANGED <<at, kind, num, clock>>

BeginRestoreProject(c, p) == Restores(c, p, ProjectRevival(p, at[p]))
BeginRestoreEpisode(c, e) == Restores(c, e, EpisodeRevival(e, at[e]))
BeginRestoreScene(c, s) == Restores(c, s, {})
BeginRestoreShot(c, h) == Restores(c, h, {})
BeginRestoreCharacter(c, k) == kind[k] = "character" /\ Restores(c, k, {})

CommitRestore(c) ==
  /\ req[c].op = "restore"
  /\ WriteOrRaise(c, [r \in Rows |-> IF r \in req[c].rows THEN Live ELSE at[r]], num)
  /\ UNCHANGED <<kind, clock, by, overlapped>>

----------------------------------------------------------------------------
(* reorder_shots: exactly the live shots of the scene, renumbered 1..n.    *)
(* Phase one adds n + 1 to every number, row by row in the order of the    *)
(* primary keys (random UUIDs): where a moved number meets one that has    *)
(* not moved yet, the index raises or not depending on that order.         *)

BeginReorder(c, s) ==
  /\ s \in Scenes /\ IsLive(s)
  /\ \E order \in SetToSeqs(LiveUnder(s)) :
       Begin(c, [op |-> "reorder", row |-> s, order |-> order,
                 read |-> [h \in LiveUnder(s) |-> num[h]]])
  /\ UNCHANGED <<at, kind, num, clock>>

PhaseOneCollides(read) ==
  LET offset == Cardinality(DOMAIN read) + 1
  IN \E h \in DOMAIN read, k \in Shots :
       /\ k # h /\ IsLive(k) /\ IsLive(h) /\ Above[k] = Above[h]
       /\ num[k] = read[h] + offset

Renumbered(order) ==
  [r \in Rows |-> IF r \in Range(order) THEN CHOOSE i \in DOMAIN order : order[i] = r
                                        ELSE num[r]]

CommitReorder(c) ==
  /\ req[c].op = "reorder"
  /\ \E collides \in {PhaseOneCollides(req[c].read), FALSE} :
       IF collides
       THEN /\ Raise(c)
            /\ req' = [req EXCEPT ![c] = Idle]
            /\ UNCHANGED <<at, num>>
       ELSE WriteOrRaise(c, at, Renumbered(req[c].order))
  /\ UNCHANGED <<kind, clock, by, overlapped>>

----------------------------------------------------------------------------
TreeNext ==
  \E c \in TreeClients :
    \/ \E p \in Projects : BeginDeleteProject(c, p) \/ BeginRestoreProject(c, p)
    \/ \E e \in Episodes :
         BeginCreateEpisode(c, e) \/ BeginDeleteEpisode(c, e) \/ BeginRestoreEpisode(c, e)
    \/ \E s \in Scenes :
         \/ BeginCreateScene(c, s) \/ BeginDeleteScene(c, s) \/ BeginRestoreScene(c, s)
         \/ BeginReorder(c, s)
    \/ \E h \in Shots :
         BeginCreateShot(c, h) \/ BeginDeleteShot(c, h) \/ BeginRestoreShot(c, h)
    \/ \E k \in Library :
         \/ BeginCreateCharacter(c, k) \/ BeginDeleteCharacter(c, k)
         \/ BeginRestoreCharacter(c, k)
         \/ BeginCreateLocation(c, k) \/ BeginDeleteLocation(c, k)
         \/ BeginCreateCostume(c, k) \/ BeginDeleteCostume(c, k)
         \/ BeginCreateDocument(c, k) \/ BeginDeleteDocument(c, k)
    \/ CommitCreate(c)
    \/ CommitDelete(c)
    \/ CommitRestore(c)
    \/ CommitReorder(c)

TreeSpec == TreeInit /\ [][TreeNext]_treeVars

----------------------------------------------------------------------------
(* Types of the variables.                                                 *)
TreeTypeOK ==
  /\ at \in [Rows -> Absent .. MaxClock]
  /\ kind \in [Library -> Kinds]
  /\ num \in [Rows -> Nat]
  /\ clock \in 0 .. MaxClock
  /\ by \in [Rows -> Rows \cup {NoRow}]
  /\ raised \subseteq {"create", "restore", "reorder"}
  /\ overlapped \in BOOLEAN
  /\ \A c \in TreeClients :
       req[c] = Idle \/ (req[c].op \in {"create", "delete", "restore", "reorder"}
                         /\ req[c].row \in Rows)

(* As long as requests do not overlap, a live row under a deleted ancestor *)
(* is one of two kinds: a character restored on its own (restore_character *)
(* does not look at the project) or a shot whose scene was deleted by      *)
(* delete_scene, which takes no shot along and hides it from later         *)
(* cascades.                                                               *)
OnlyKnownOrphans ==
  ~overlapped =>
    \A r \in Rows \ Projects : IsLive(r) /\ ~IsLive(Above[r]) =>
      (r \in Library /\ kind[r] = "character") \/ (r \in Shots /\ by[Above[r]] = Above[r])

(* As long as requests do not overlap, the checks a restore makes are      *)
(* enough: the bulk revival of a project or an episode never meets a live  *)
(* row with the same number.                                               *)
RestoreNeverRaises == "restore" \notin raised

(* As long as requests do not overlap, a restore brings back exactly the   *)
(* rows that the delete call on the same row removed: what was deleted on  *)
(* its own before stays deleted, and nothing is forgotten.                 *)
RestoreUndoesItsDelete ==
  [][\A c \in TreeClients : req[c].op = "restore" /\ req'[c] = Idle /\ ~overlapped =>
       \A r \in Rows : IsLive(r)' <=> \/ IsLive(r) \/ r = req[c].row
                                      \/ IsDeleted(r) /\ by[r] = req[c].row]_treeVars
=============================================================================
