---------------------------- MODULE EpisodeTimeline ----------------------------
(***************************************************************************)
(* The timeline of an episode (services/timeline_service.py): tracks and   *)
(* clips, edited by requests in threads, with the change sets that undo    *)
(* the edits (services/change_set_service.py), the voiceovers              *)
(* (services/audio_service.py) and renders (services/render_service.py)    *)
(* queued for it, and the worker that ends them (generations/worker.py).   *)
(* A clip has a revision.  An edit that sends the revision its client      *)
(* knows is written by a conditional UPDATE; an edit without one, and a    *)
(* replaced asset, write the revision they have loaded plus one.           *)
(***************************************************************************)
EXTENDS Integers, Sequences, FiniteSets

CONSTANTS Clips,      \* identities of clips
          Media,      \* image and video assets of the project
          Threads,    \* request threads
          NoText,     \* text IS NULL
          Texts,      \* texts a client writes
          MaxOps, MaxRows, MaxCrashes  \* bounds: requests, queued rows, crashes

ASSUME TimelineAssumption ==
  /\ NoText \notin Texts /\ Media \cap Nat = {}
  /\ MaxOps \in Nat /\ MaxRows \in Nat /\ MaxCrashes \in Nat

VARIABLES created,    \* the episode has a timeline
          status,     \* DRAFT or RENDERED
          tracks,     \* the tracks there are
          clips,      \* clips[c]: life, track, text, asset, rev
          media,      \* assets that are not archived
          voices,     \* voices[c]: versions of the group vg:clip:c:AUDIO
          finals,     \* versions of the group vg:episode:FINAL_VIDEO
          rows,       \* generations of type audio and render, in their order
          changes,    \* change sets of source timeline
          req,        \* what each thread is doing
          ops, crashes, \* counters of bounded events
          blind       \* history: clips an edit without revision wrote too late

world == <<created, status, tracks, clips, media, voices, finals>>
timelineVars == <<world, rows, changes, req, ops, crashes, blind>>

(* DEFAULT_TRACK_TYPES, and a second VOICE lane a user may add.  Lanes are  *)
(* named by their type, as far as anything depends on it.                  *)
Tracks == {"VIDEO", "VOICE", "VOICE 2"}
VoiceTracks == {"VOICE", "VOICE 2"}
Fields == {"text", "track", "asset"}

NoClip == [life |-> "none", track |-> "VIDEO", text |-> NoText, asset |-> NoText, rev |-> 0]
Idle == [op |-> "idle"]

IsLive(c) == clips[c].life = "live"
On(k) == {c \in Clips : IsLive(c) /\ clips[c].track = k}
(* A clip is bound to a file of the library or to a version of its voice.  *)
HasAudio(c) == clips[c].asset \in Nat

TimelineInit ==
  /\ created = FALSE /\ status = "DRAFT" /\ tracks = {}
  /\ clips = [c \in Clips |-> NoClip]
  /\ media = Media /\ voices = [c \in Clips |-> 0] /\ finals = 0
  /\ rows = <<>> /\ changes = <<>>
  /\ req = [t \in Threads |-> Idle]
  /\ ops = 0 /\ crashes = 0 /\ blind = {}

Begins(t, r) ==
  /\ created /\ req[t] = Idle /\ ops < MaxOps
  /\ ops' = ops + 1 /\ req' = [req EXCEPT ![t] = r]
At(t, op) == req[t].op = op
Goes(t, r) == req' = [req EXCEPT ![t] = r] /\ UNCHANGED ops
Ends(t) == Goes(t, Idle)

-----------------------------------------------------------------------------
(* Timeline and tracks.                                                    *)

CreateTimeline ==
  /\ ~created
  /\ created' = TRUE /\ tracks' = {"VIDEO", "VOICE"}
  /\ UNCHANGED <<status, clips, media, voices, finals, rows, changes, req, ops, crashes, blind>>

UpdateTimeline ==
  /\ created /\ ops < MaxOps /\ ops' = ops + 1
  /\ status' = "DRAFT"
  /\ UNCHANGED <<created, tracks, clips, media, voices, finals, rows, changes, req, crashes, blind>>

AddTrack(k) ==
  /\ created /\ ops < MaxOps /\ ops' = ops + 1
  /\ k \notin tracks /\ On(k) = {}
  /\ tracks' = tracks \cup {k}
  /\ UNCHANGED <<created, status, clips, media, voices, finals, rows, changes, req, crashes, blind>>

Without(gone) == [c \in Clips |-> IF c \in gone THEN [NoClip EXCEPT !.life = "gone"] ELSE clips[c]]

DeleteTrackReads(t, k) ==
  /\ k \in tracks
  /\ Begins(t, [op |-> "delete track", track |-> k, listed |-> On(k)])
  /\ UNCHANGED <<world, rows, changes, crashes, blind>>

CascadesMutant(t) == req[t].listed  \* mutant: foreign keys off

(* The clips that were listed go, wherever they are by now, and the        *)
(* foreign key takes those that are on the track.                          *)
Cascades(t) == req[t].listed \cup On(req[t].track)

DeleteTrackCommits(t) ==
  /\ At(t, "delete track")
  /\ clips' = Without(Cascades(t))
  /\ tracks' = tracks \ {req[t].track}
  /\ Ends(t)
  /\ UNCHANGED <<created, status, media, voices, finals, rows, changes, crashes, blind>>

-----------------------------------------------------------------------------
(* Clips.  A write that names a track that is gone is refused by the       *)
(* foreign key.                                                            *)

IsFree(c) == clips[c].life = "none" /\ \A t \in Threads : "c" \in DOMAIN req[t] => req[t].c # c
Placed(k, x, a) == [life |-> "live", track |-> k, text |-> x, asset |-> a, rev |-> 1]

AddClipReads(t, c, k, x, a) ==
  /\ IsFree(c) /\ k \in tracks /\ a \in media
  /\ Begins(t, [op |-> "add", c |-> c, new |-> Placed(k, x, a)])
  /\ UNCHANGED <<world, rows, changes, crashes, blind>>

AddClipCommits(t) ==
  /\ At(t, "add")
  /\ clips' = IF req[t].new.track \in tracks THEN [clips EXCEPT ![req[t].c] = req[t].new] ELSE clips
  /\ Ends(t)
  /\ UNCHANGED <<created, status, tracks, media, voices, finals, rows, changes, crashes, blind>>

DeleteClip(c) ==
  /\ IsLive(c) /\ ops < MaxOps /\ ops' = ops + 1
  /\ clips' = Without({c})
  /\ UNCHANGED <<created, status, tracks, media, voices, finals, rows, changes, req, crashes, blind>>

(* A client has seen a clip and sends an edit of one field, with the       *)
(* revision it has seen or without.                                        *)
ClientEdits(t, c, f, v, guarded) ==
  /\ IsLive(c)
  /\ guarded => f # "asset"
  /\ Begins(t, [op |-> "ask", c |-> c, field |-> f, value |-> v, guarded |-> guarded,
                seen |-> clips[c], old |-> clips[c]])
  /\ UNCHANGED <<world, rows, changes, crashes, blind>>

(* Answers without a write: the clip is gone, what the edit names does not *)
(* exist, or the field has the value already.                              *)
IsRefused(t) ==
  LET r == req[t] IN
  \/ ~IsLive(r.c)
  \/ r.field = "track" /\ r.value \notin tracks
  \/ r.field = "asset" /\ r.value \notin media /\ r.value \notin 1..voices[r.c]
  \/ clips[r.c][r.field] = r.value

UpdateReads(t) ==
  /\ At(t, "ask")
  /\ IF IsRefused(t) THEN Ends(t)
     ELSE Goes(t, [req[t] EXCEPT !.op = "write", !.old = clips[req[t].c]])
  /\ UNCHANGED <<world, rows, changes, crashes, blind>>

MatchesMutant(t) ==  \* mutant: the revision is compared when the row is loaded
  LET r == req[t] IN
  /\ IsLive(r.c)
  /\ r.guarded => r.old.rev = r.seen.rev
  /\ r.field = "track" => r.value \in tracks

(* The UPDATE: conditional on the revision of the client, or the loaded    *)
(* row with its revision plus one.                                         *)
Matches(t) ==
  LET r == req[t] IN
  /\ IsLive(r.c)
  /\ r.guarded => clips[r.c].rev = r.seen.rev
  /\ r.field = "track" => r.value \in tracks

Writes(t) ==
  LET r == req[t]
      rev == 1 + IF r.guarded THEN clips[r.c].rev ELSE r.old.rev
  IN /\ clips' = [clips EXCEPT ![r.c] = [[@ EXCEPT ![r.field] = r.value] EXCEPT !.rev = rev]]
     /\ blind' = IF r.guarded \/ clips[r.c].rev = r.old.rev THEN blind ELSE blind \cup {r.c}

UpdateCommits(t) ==
  /\ At(t, "write")
  /\ \/ Matches(t) /\ Writes(t) /\ Goes(t, [req[t] EXCEPT !.op = "record"])
     \/ ~Matches(t) /\ Ends(t) /\ UNCHANGED <<clips, blind>>
  /\ UNCHANGED <<created, status, tracks, media, voices, finals, rows, changes, crashes>>

RecordsChangeSet(t) ==
  LET r == req[t] IN
  /\ At(t, "record")
  /\ changes' = Append(changes, [c |-> r.c, field |-> r.field, before |-> r.old[r.field],
                                 after |-> r.value, undone |-> FALSE])
  /\ Ends(t)
  /\ UNCHANGED <<world, rows, crashes, blind>>

-----------------------------------------------------------------------------
(* sequence_from_shots: the clips of the VIDEO track that were listed are  *)
(* replaced by a clip for the shot, bound to its active asset.             *)

ArrangeReads(t, c) ==
  /\ IsFree(c) /\ "VIDEO" \in tracks
  /\ Begins(t, [op |-> "arrange", c |-> c, listed |-> On("VIDEO")])
  /\ UNCHANGED <<world, rows, changes, crashes, blind>>

ArrangeCommits(t, a) ==
  /\ At(t, "arrange")
  /\ clips' = IF "VIDEO" \in tracks
              THEN [Without(req[t].listed) EXCEPT ![req[t].c] = Placed("VIDEO", NoText, a)]
              ELSE clips
  /\ Ends(t)
  /\ UNCHANGED <<created, status, tracks, media, voices, finals, rows, changes, crashes, blind>>

-----------------------------------------------------------------------------
(* The undo of a change set: it is refused if the field has another value  *)
(* than the change set wrote, unless forced, and goes the way of an edit   *)
(* with the revision it has loaded (of a replaced asset: without).  A      *)
(* value of NULL is no part of a patch: such an undo writes nothing.       *)

UndoReads(t, i, force) ==
  LET h == changes[i] IN
  /\ ~h.undone /\ IsLive(h.c)
  /\ force \/ clips[h.c][h.field] = h.after
  /\ Begins(t, [op |-> "undo", c |-> h.c, field |-> h.field, value |-> h.before,
                guarded |-> h.field # "asset", seen |-> clips[h.c], old |-> clips[h.c], change |-> i])
  /\ UNCHANGED <<world, rows, changes, crashes, blind>>

IsNoChange(t) == LET r == req[t] IN r.value = NoText \/ r.old[r.field] = r.value
IsMissing(t) == req[t].field = "asset" /\ req[t].value \in Media \ media

UndoWrites(t) ==
  /\ At(t, "undo")
  /\ \/ IsNoChange(t) /\ Goes(t, [req[t] EXCEPT !.op = "mark"]) /\ UNCHANGED <<clips, blind>>
     \/ /\ ~IsNoChange(t) /\ ~IsMissing(t) /\ Matches(t)
        /\ Writes(t) /\ Goes(t, [req[t] EXCEPT !.op = "mark"])
     \/ /\ ~IsNoChange(t) /\ (IsMissing(t) \/ ~Matches(t))
        /\ Ends(t) /\ UNCHANGED <<clips, blind>>
  /\ UNCHANGED <<created, status, tracks, media, voices, finals, rows, changes, crashes>>

UndoMarks(t) ==
  /\ At(t, "mark")
  /\ changes' = [changes EXCEPT ![req[t].change].undone = TRUE]
  /\ Ends(t)
  /\ UNCHANGED <<world, rows, crashes, blind>>

-----------------------------------------------------------------------------
(* Voiceovers.  The text is read when the row is queued; the batch takes   *)
(* what it has listed, in one transaction per clip.                        *)

Speaks(c) == IsLive(c) /\ clips[c].track \in VoiceTracks /\ clips[c].text # NoText
VoiceRow(c, x) == [kind |-> "audio", c |-> c, text |-> x, plan |-> {}, status |-> "queued"]
Queues(row) == Len(rows) < MaxRows /\ rows' = Append(rows, row)

CreateVoiceover(c) ==
  /\ Speaks(c) /\ ops < MaxOps /\ ops' = ops + 1
  /\ Queues(VoiceRow(c, clips[c].text))
  /\ UNCHANGED <<world, changes, req, crashes, blind>>

BatchReads(t) ==
  LET silent == {c \in Clips : Speaks(c) /\ ~HasAudio(c)} IN
  /\ Begins(t, [op |-> "batch", todo |-> {<<c, clips[c].text>> : c \in silent}])
  /\ UNCHANGED <<world, rows, changes, crashes, blind>>

BatchQueues(t) ==
  /\ At(t, "batch")
  /\ \/ req[t].todo = {} /\ Ends(t) /\ UNCHANGED rows
     \/ \E x \in req[t].todo : Queues(VoiceRow(x[1], x[2])) /\ Goes(t, [req[t] EXCEPT !.todo = @ \ {x}])
  /\ UNCHANGED <<world, changes, crashes, blind>>

(* Renders.  The plan, what the VIDEO track shows, is of the moment the row*)
(* is queued; an asset archived since is skipped.                          *)

RenderPlan == {clips[c].asset : c \in On("VIDEO")} \cap media

CreateRender ==
  /\ RenderPlan # {} /\ ops < MaxOps /\ ops' = ops + 1
  /\ Queues([kind |-> "render", c |-> NoText, text |-> NoText, plan |-> RenderPlan, status |-> "queued"])
  /\ UNCHANGED <<world, changes, req, crashes, blind>>

Running == {i \in DOMAIN rows : rows[i].status = "running"}
Becomes(i, s) == rows' = [rows EXCEPT ![i].status = s]

(* The worker takes one row at a time, the oldest first.                   *)
WorkerTakes(i) ==
  /\ Running = {} /\ rows[i].status = "queued"
  /\ \A j \in DOMAIN rows : rows[j].status = "queued" => i <= j
  /\ Becomes(i, "running")
  /\ UNCHANGED <<world, changes, req, ops, crashes, blind>>

(* One transaction: the asset, its version number, the clip that is bound  *)
(* to it if there still is one, and the end of the row.                    *)
PersistVoiceover(i) ==
  LET c == rows[i].c IN
  /\ i \in Running /\ rows[i].kind = "audio"
  /\ voices' = [voices EXCEPT ![c] = @ + 1]
  /\ clips' = IF IsLive(c) THEN [clips EXCEPT ![c].asset = voices[c] + 1] ELSE clips
  /\ Becomes(i, "completed")
  /\ UNCHANGED <<created, status, tracks, media, finals, changes, req, ops, crashes, blind>>

RenderSources(i) == rows[i].plan \cap media

PersistRender(i) ==
  /\ i \in Running /\ rows[i].kind = "render" /\ RenderSources(i) # {}
  /\ finals' = finals + 1 /\ status' = "RENDERED"
  /\ Becomes(i, "completed")
  /\ UNCHANGED <<created, tracks, clips, media, voices, changes, req, ops, crashes, blind>>

(* A failure (there is one attempt), a cancel, or the expiry of the lease. *)
RowStops(i) ==
  /\ rows[i].status \in {"queued", "running"}
  /\ \E s \in {"failed", "cancelled"} :
       /\ s = "failed" => i \in Running
       /\ Becomes(i, s)
  /\ UNCHANGED <<world, changes, req, ops, crashes, blind>>

-----------------------------------------------------------------------------
ArchiveAsset(a) ==  \* refused while a clip uses the asset
  /\ a \in media /\ ops < MaxOps /\ ops' = ops + 1
  /\ \A c \in Clips : IsLive(c) => clips[c].asset # a
  /\ media' = media \ {a}
  /\ UNCHANGED <<created, status, tracks, clips, voices, finals, rows, changes, req, crashes, blind>>

Crash ==
  /\ crashes < MaxCrashes /\ crashes' = crashes + 1
  /\ req' = [t \in Threads |-> Idle]
  /\ UNCHANGED <<world, rows, changes, ops, blind>>

ValuesOf(f, c) == CASE f = "text" -> Texts
                    [] f = "track" -> Tracks
                    [] f = "asset" -> Media \cup 1..voices[c]

TimelineNext ==
  \/ CreateTimeline \/ UpdateTimeline \/ CreateRender \/ Crash
  \/ \E k \in Tracks : AddTrack(k)
  \/ \E a \in Media : ArchiveAsset(a)
  \/ \E c \in Clips : DeleteClip(c) \/ CreateVoiceover(c)
  \/ \E i \in DOMAIN rows : WorkerTakes(i) \/ PersistVoiceover(i) \/ PersistRender(i) \/ RowStops(i)
  \/ \E t \in Threads :
       \/ \E k \in Tracks : DeleteTrackReads(t, k)
       \/ \E c \in Clips, k \in Tracks, a \in Media, x \in Texts \cup {NoText} : AddClipReads(t, c, k, x, a)
       \/ \E c \in Clips, f \in Fields, g \in BOOLEAN : \E v \in ValuesOf(f, c) : ClientEdits(t, c, f, v, g)
       \/ \E c \in Clips : ArrangeReads(t, c)
       \/ \E a \in media : ArrangeCommits(t, a)
       \/ \E i \in DOMAIN changes, force \in BOOLEAN : UndoReads(t, i, force)
       \/ DeleteTrackCommits(t) \/ AddClipCommits(t)
       \/ UpdateReads(t) \/ UpdateCommits(t) \/ RecordsChangeSet(t)
       \/ UndoWrites(t) \/ UndoMarks(t)
       \/ BatchReads(t) \/ BatchQueues(t)

TimelineSpec == TimelineInit /\ [][TimelineNext]_timelineVars

-----------------------------------------------------------------------------
(* Whatever moves, adds, arranges or rebinds clips while tracks are        *)
(* deleted, a clip stands on a track there is (the handlers check the      *)
(* track when they read and write later; delete_track deletes what it has  *)
(* listed; the foreign key of the models stands between them).             *)
ClipsHaveTracks == \A c \in Clips : IsLive(c) => clips[c].track \in tracks

(* An edit that sends its revision, and an undo, replace only the value    *)
(* their client has seen ("never a silent overwrite", update_clip), unless *)
(* an edit without a revision has written the clip with a revision that    *)
(* was given out before.                                                   *)
Replaces(t) ==
  LET r == req[t] IN
  /\ r.op \in {"write", "undo"} /\ req'[t] # r
  /\ clips'[r.c] # clips[r.c]

GuardedEditsSee ==
  [][\A t \in Threads : Replaces(t) =>
       LET r == req[t] IN
       r.guarded /\ r.c \notin blind => clips[r.c][r.field] = r.seen[r.field]]_timelineVars
===============================================================================
