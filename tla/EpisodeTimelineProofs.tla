------------------------ MODULE EpisodeTimelineProofs ------------------------
(***************************************************************************)
(* Proofs about EpisodeTimeline, for any clips, assets, texts and threads. *)
(* A request reads at one moment and writes at a later one; what it knows  *)
(* of a clip is true of it until somebody else writes the clip with a new  *)
(* revision.                                                               *)
(***************************************************************************)
EXTENDS EpisodeTimeline, SequenceTheorems, TLAPS

USE TimelineAssumption

AllTexts  == Texts \cup {NoText}
AllAssets == Media \cup Nat \cup {NoText}
ClipRow == [life : {"none", "live", "gone"}, track : Tracks, text : AllTexts, asset : AllAssets, rev : Nat]

IsValueOf(f, v) ==
  /\ f = "text" => v \in AllTexts
  /\ f = "track" => v \in Tracks
  /\ f = "asset" => v \in AllAssets

GenerationRow == {x \in [kind : {"audio", "render"}, c : Clips \cup {NoText}, text : AllTexts, plan : SUBSET Media,
                         status : {"queued", "running", "completed", "failed", "cancelled"}] :
                    x.kind = "audio" => x.c \in Clips}
ChangesOf(f, V) == [c : Clips, field : {f}, before : V, after : V, undone : BOOLEAN]
ChangeRow == ChangesOf("text", AllTexts) \cup ChangesOf("track", Tracks) \cup ChangesOf("asset", AllAssets)

EditOps == {"ask", "write", "record", "undo", "mark"}
NewOps  == {"add", "arrange"}

(* What a thread may hold of an edit.                                      *)
EditOK(r) ==
  /\ r.c \in Clips /\ r.field \in Fields /\ IsValueOf(r.field, r.value)
  /\ r.guarded \in BOOLEAN /\ (r.guarded => r.field # "asset")
  /\ r.seen \in ClipRow /\ r.old \in ClipRow

EditFields == {"op", "c", "field", "value", "guarded", "seen", "old"}

RequestOK(r) ==
  \/ r = Idle
  \/ r \in [op : {"delete track"}, track : Tracks, listed : SUBSET Clips]
  \/ r \in [op : {"add"}, c : Clips, new : ClipRow] /\ r.new.life = "live"
  \/ r \in [op : {"arrange"}, c : Clips, listed : SUBSET Clips]
  \/ r \in [op : {"batch"}, todo : SUBSET (Clips \X AllTexts)]
  \/ DOMAIN r = EditFields /\ r.op \in {"ask", "write", "record"} /\ EditOK(r)
  \/ DOMAIN r = EditFields \cup {"change"} /\ r.op \in {"undo", "mark"} /\ EditOK(r) /\ r.change \in Nat

(* A revision is of one text and one track, as long as no edit without a   *)
(* revision has given a revision out twice.                                *)
Knows(r) ==
  IsLive(r.c) /\ r.c \notin blind =>
    /\ r.seen.rev <= clips[r.c].rev
    /\ r.seen.rev = clips[r.c].rev => r.seen.text = clips[r.c].text /\ r.seen.track = clips[r.c].track

ThreadOK(r) ==
  /\ RequestOK(r)
  /\ r.op \in NewOps => clips[r.c].life = "none"
  /\ r.op \in EditOps => clips[r.c].life # "none" /\ Knows(r)
  /\ r.op \in {"arrange", "delete track"} => \A c \in r.listed : clips[c].life # "none"

\* Two requests that make a clip make two clips.
Exclusive ==
  \A t, u \in Threads : t # u /\ req[t].op \in NewOps /\ req[u].op \in NewOps => req[t].c # req[u].c

ThreadsOK ==
  /\ DOMAIN req = Threads
  /\ \A t \in Threads : ThreadOK(req[t])
  /\ Exclusive

WorldTypes ==
  /\ created \in BOOLEAN /\ status \in {"DRAFT", "RENDERED"}
  /\ tracks \in SUBSET Tracks /\ (created \/ tracks = {})
  /\ clips \in [Clips -> ClipRow]
  /\ media \in SUBSET Media
  /\ voices \in [Clips -> Nat] /\ finals \in Nat
  /\ blind \in SUBSET Clips

RowTypes ==
  /\ rows \in Seq(GenerationRow) /\ changes \in Seq(ChangeRow)
  /\ ops \in Nat /\ crashes \in Nat

TypeOK ==
  /\ WorldTypes /\ RowTypes
  /\ DOMAIN req = Threads /\ \A t \in Threads : RequestOK(req[t])

TimelineInv == WorldTypes /\ RowTypes /\ ClipsHaveTracks /\ ThreadsOK

-----------------------------------------------------------------------------
(* Requests.                                                               *)

LEMMA IdleOK == RequestOK(Idle) /\ Idle.op = "idle"
  BY DEF RequestOK, Idle

\* What the operation of a request says of its other fields.
LEMMA EditFacts ==
  ASSUME NEW r, RequestOK(r), r.op \in EditOps
  PROVE  EditOK(r)
  BY IdleOK DEF RequestOK, EditOps

LEMMA NewFacts ==
  ASSUME NEW r, RequestOK(r), r.op \in NewOps
  PROVE  r.c \in Clips /\ "c" \in DOMAIN r
  BY IdleOK DEF RequestOK, NewOps

LEMMA ListFacts ==
  ASSUME NEW r, RequestOK(r), r.op \in {"arrange", "delete track"}
  PROVE  r.listed \in SUBSET Clips
  BY IdleOK DEF RequestOK

LEMMA ValueOfField ==
  ASSUME NEW x \in ClipRow, NEW f \in Fields
  PROVE  IsValueOf(f, x[f])
  <1>1. x.text \in AllTexts /\ x.track \in Tracks /\ x.asset \in AllAssets
    BY DEF ClipRow
  <1> QED  BY <1>1 DEF Fields, IsValueOf

\* An edit of a field gives a clip with this field and this revision.
Edited(x, f, v, rev) == [[x EXCEPT ![f] = v] EXCEPT !.rev = rev]

LEMMA EditedClip ==
  ASSUME NEW x \in ClipRow, NEW f \in Fields, NEW v, IsValueOf(f, v), NEW rev \in Nat,
         NEW y, y = Edited(x, f, v, rev)
  PROVE  /\ y \in ClipRow /\ y.life = x.life /\ y.rev = rev
         /\ y.track = x.track \/ (f = "track" /\ y.track = v)
  <1>1. CASE f = "text"
    BY <1>1 DEF ClipRow, IsValueOf, Edited
  <1>2. CASE f = "track"
    BY <1>2 DEF ClipRow, IsValueOf, Edited
  <1>3. CASE f = "asset"
    BY <1>3 DEF ClipRow, IsValueOf, Edited
  <1> QED  BY <1>1, <1>2, <1>3 DEF Fields

\* A step may end a clip, give it a new revision, rebind its asset, or write it
\* without looking: what the others know of it stays true.
Evolves(c) ==
  \/ clips[c].life # "none" /\ clips'[c].life = "gone"
  \/ clips[c].life = "none" /\ clips'[c].life = "live"
  \/ /\ clips'[c].life = clips[c].life
     /\ \/ clips'[c].rev = clips[c].rev /\ clips'[c].text = clips[c].text /\ clips'[c].track = clips[c].track
        \/ clips'[c].rev > clips[c].rev
        \/ c \in blind'

LEMMA OtherStays ==
  ASSUME clips \in [Clips -> ClipRow], clips' \in [Clips -> ClipRow], blind \subseteq blind',
         \A c \in Clips : Evolves(c),
         NEW r, ThreadOK(r), r.op \in NewOps => clips'[r.c].life = "none"
  PROVE  ThreadOK(r)'
  <1>1. RequestOK(r)
    BY DEF ThreadOK
  <1>2. \A c \in Clips : clips[c].life # "none" => clips'[c].life # "none"
    BY DEF Evolves
  <1>3. ASSUME r.op \in EditOps PROVE clips'[r.c].life # "none" /\ Knows(r)'
    <2>1. EditOK(r)
      BY <1>1, <1>3, EditFacts
    <2>2. r.c \in Clips /\ r.seen.rev \in Nat
      BY <2>1 DEF EditOK, ClipRow
    <2>3. clips[r.c].life # "none" /\ Knows(r)
      BY <1>3 DEF ThreadOK
    <2>4. PICK x \in ClipRow, y \in ClipRow : x = clips[r.c] /\ y = clips'[r.c]
      BY <2>2
    <2>5. x.rev \in Nat /\ y.rev \in Nat
      BY <2>4 DEF ClipRow
    <2>6. SUFFICES ASSUME y.life = "live", r.c \notin blind'
                   PROVE  /\ r.seen.rev <= y.rev
                          /\ r.seen.rev = y.rev => r.seen.text = y.text /\ r.seen.track = y.track
      BY <1>2, <2>2, <2>3, <2>4 DEF Knows, IsLive
    <2>7. x.life = "live" /\ r.c \notin blind
          /\ \/ y.rev = x.rev /\ y.text = x.text /\ y.track = x.track
             \/ y.rev > x.rev
      BY <2>2, <2>3, <2>4, <2>6 DEF Evolves
    <2>8. /\ r.seen.rev <= x.rev
          /\ r.seen.rev = x.rev => r.seen.text = x.text /\ r.seen.track = x.track
      BY <2>3, <2>4, <2>7 DEF Knows, IsLive
    <2> QED  BY <2>2, <2>5, <2>7, <2>8
  <1>4. ASSUME r.op \in {"arrange", "delete track"} PROVE \A c \in r.listed : clips'[c].life # "none"
    <2>1. r.listed \in SUBSET Clips /\ \A c \in r.listed : clips[c].life # "none"
      BY <1>1, <1>4, ListFacts DEF ThreadOK
    <2> QED  BY <1>2, <2>1
  <1> QED  BY <1>1, <1>3, <1>4 DEF ThreadOK

\* A step of one thread, which leaves it with the request r.
LEMMA StepKeepsThreads ==
  ASSUME ThreadsOK, NEW t \in Threads, NEW r, req' = [req EXCEPT ![t] = r],
         NEW old, old = req, ThreadOK(r)', \A u \in Threads \ {t} : ThreadOK(old[u])',
         r.op \in NewOps => \A u \in Threads \ {t} : req[u].op \in NewOps => req[u].c # r.c
  PROVE  ThreadsOK'
  <1>1. DOMAIN req' = Threads /\ req'[t] = r /\ \A u \in Threads \ {t} : req'[u] = req[u]
    BY DEF ThreadsOK
  <1>2. ASSUME NEW u \in Threads PROVE ThreadOK(req[u])'
    <2>1. CASE u = t
      BY <1>1, <2>1
    <2>2. CASE u # t
      <3>1. req'[u] = old[u] /\ ThreadOK(old[u])'
        BY <1>1, <2>2
      <3> QED  BY <3>1
    <2> QED  BY <2>1, <2>2
  <1>3. Exclusive'
    <2> SUFFICES ASSUME NEW u \in Threads, NEW v \in Threads, u # v,
                        req'[u].op \in NewOps, req'[v].op \in NewOps
                 PROVE  req'[u].c # req'[v].c
      BY DEF Exclusive
    <2>1. CASE u = t
      BY <1>1, <2>1
    <2>2. CASE v = t
      BY <1>1, <2>2
    <2>3. CASE u # t /\ v # t
      BY <1>1, <2>3 DEF ThreadsOK, Exclusive
    <2> QED  BY <2>1, <2>2, <2>3
  <1> QED  BY <1>1, <1>2, <1>3 DEF ThreadsOK

LEMMA IdleThread == ThreadOK(Idle) /\ Idle.op \notin NewOps
  BY IdleOK DEF ThreadOK, NewOps, EditOps

LEMMA NobodyMoves ==
  ASSUME TimelineInv, UNCHANGED <<clips, blind>>, NEW r, ThreadOK(r)
  PROVE  ThreadOK(r)'
  BY DEF ThreadOK, Knows, IsLive

LEMMA ThreadsStay ==
  ASSUME TimelineInv, UNCHANGED <<clips, blind, req>>
  PROVE  ThreadsOK'
  <1>1. ThreadsOK
    BY DEF TimelineInv
  <1>2. PICK old : old = req
    OBVIOUS
  <1>3. \A t \in Threads : ThreadOK(old[t])'
    BY <1>1, <1>2, NobodyMoves DEF ThreadsOK
  <1>4. \A t \in Threads : ThreadOK(req[t])'
    BY <1>2, <1>3
  <1>5. Exclusive'
    BY <1>1 DEF ThreadsOK, Exclusive
  <1> QED  BY <1>1, <1>4, <1>5 DEF ThreadsOK

\* A step of a thread that leaves the clips alone.
LEMMA QuietThreads ==
  ASSUME TimelineInv, UNCHANGED <<clips, blind>>, NEW t \in Threads, NEW r, req' = [req EXCEPT ![t] = r],
         ThreadOK(r), r.op \in NewOps => \A u \in Threads \ {t} : req[u].op \in NewOps => req[u].c # r.c
  PROVE  ThreadsOK'
  <1>1. ThreadsOK
    BY DEF TimelineInv
  <1>2. PICK old : old = req
    OBVIOUS
  <1>3. \A u \in Threads \ {t} : ThreadOK(old[u])'
    BY <1>1, <1>2, NobodyMoves DEF ThreadsOK
  <1>4. ThreadOK(r)'
    BY NobodyMoves
  <1> QED  BY <1>1, <1>2, <1>3, <1>4, StepKeepsThreads

\* A step that moves clips, of a thread that is done with it.
LEMMA LoudThreads ==
  ASSUME TimelineInv, clips' \in [Clips -> ClipRow], blind \subseteq blind', \A c \in Clips : Evolves(c),
         NEW t \in Threads, NEW r, req' = [req EXCEPT ![t] = r], ThreadOK(r)', r.op \notin NewOps,
         \A c \in Clips : clips[c].life = "none" =>
            clips'[c].life = "none" \/ \A u \in Threads \ {t} : req[u].op \in NewOps => req[u].c # c
  PROVE  ThreadsOK'
  <1>1. ThreadsOK /\ clips \in [Clips -> ClipRow]
    BY DEF TimelineInv, WorldTypes
  <1>2. PICK old : old = req
    OBVIOUS
  <1>3. ASSUME NEW u \in Threads \ {t} PROVE ThreadOK(old[u])'
    <2>1. PICK x : x = old[u]
      OBVIOUS
    <2>2. ThreadOK(x)
      BY <1>1, <1>2, <2>1 DEF ThreadsOK
    <2>3. x.op \in NewOps => clips'[x.c].life = "none"
      <3> SUFFICES ASSUME x.op \in NewOps PROVE clips'[x.c].life = "none"
        OBVIOUS
      <3>1. x.c \in Clips /\ clips[x.c].life = "none"
        BY <2>2, NewFacts DEF ThreadOK
      <3> QED  BY <1>2, <2>1, <3>1
    <2>4. ThreadOK(x)'
      BY <1>1, <2>2, <2>3, OtherStays
    <2> QED  BY <2>1, <2>4
  <1> QED  BY <1>1, <1>2, <1>3, StepKeepsThreads

\* A step of nobody that moves clips.
LEMMA ClipsMove ==
  ASSUME TimelineInv, clips' \in [Clips -> ClipRow], blind \subseteq blind', \A c \in Clips : Evolves(c),
         \A c \in Clips : clips[c].life = "none" => clips'[c].life = "none", UNCHANGED req
  PROVE  ThreadsOK'
  <1>1. ThreadsOK /\ clips \in [Clips -> ClipRow]
    BY DEF TimelineInv, WorldTypes
  <1>2. PICK old : old = req
    OBVIOUS
  <1>3. ASSUME NEW u \in Threads PROVE ThreadOK(old[u])'
    <2>1. PICK x : x = old[u]
      OBVIOUS
    <2>2. ThreadOK(x)
      BY <1>1, <1>2, <2>1 DEF ThreadsOK
    <2>3. x.op \in NewOps => clips'[x.c].life = "none"
      BY <2>2, NewFacts DEF ThreadOK
    <2>4. ThreadOK(x)'
      BY <1>1, <2>2, <2>3, OtherStays
    <2> QED  BY <2>1, <2>4
  <1>4. \A u \in Threads : ThreadOK(req[u])'
    BY <1>2, <1>3
  <1>5. Exclusive'
    BY <1>1 DEF ThreadsOK, Exclusive
  <1> QED  BY <1>1, <1>4, <1>5 DEF ThreadsOK

LEMMA ThreadFacts ==
  ASSUME TimelineInv, NEW t \in Threads
  PROVE  ThreadOK(req[t]) /\ RequestOK(req[t]) /\ t \in DOMAIN req
  BY DEF TimelineInv, ThreadsOK, ThreadOK

-----------------------------------------------------------------------------
(* Steps that move no clip.                                                *)

LEMMA TracksStay ==
  ASSUME TimelineInv, UNCHANGED clips, tracks \subseteq tracks'
  PROVE  ClipsHaveTracks'
  BY DEF TimelineInv, ClipsHaveTracks, IsLive

\* A request begins, goes on or ends, and nothing else happens.
LEMMA QuietStep ==
  ASSUME TimelineInv, NEW t \in Threads, NEW r, req' = [req EXCEPT ![t] = r], ops' \in Nat,
         UNCHANGED <<world, crashes, blind>>, rows' \in Seq(GenerationRow), changes' \in Seq(ChangeRow),
         ThreadOK(r), r.op \in NewOps => \A u \in Threads \ {t} : req[u].op \in NewOps => req[u].c # r.c
  PROVE  TimelineInv'
  <1>1. WorldTypes'
    BY DEF TimelineInv, WorldTypes, world
  <1>2. RowTypes'
    BY DEF TimelineInv, RowTypes
  <1>3. ClipsHaveTracks'
    BY TracksStay DEF world
  <1>4. ThreadsOK'
    BY QuietThreads DEF world
  <1> QED  BY <1>1, <1>2, <1>3, <1>4 DEF TimelineInv

LEMMA BeginStep ==
  ASSUME TimelineInv, NEW t \in Threads, NEW r, Begins(t, r), UNCHANGED <<world, rows, changes, crashes, blind>>,
         ThreadOK(r), r.op \in NewOps => \A u \in Threads \ {t} : req[u].op \in NewOps => req[u].c # r.c
  PROVE  TimelineInv'
  <1>1. req' = [req EXCEPT ![t] = r] /\ ops' \in Nat
    BY DEF Begins, TimelineInv, RowTypes
  <1>2. rows' \in Seq(GenerationRow) /\ changes' \in Seq(ChangeRow)
    BY DEF TimelineInv, RowTypes
  <1> QED  BY <1>1, <1>2, QuietStep

LEMMA GoStep ==
  ASSUME TimelineInv, NEW t \in Threads, NEW r, Goes(t, r), UNCHANGED <<world, crashes, blind>>,
         rows' \in Seq(GenerationRow), changes' \in Seq(ChangeRow), ThreadOK(r), r.op \notin NewOps
  PROVE  TimelineInv'
  <1>1. req' = [req EXCEPT ![t] = r] /\ ops' \in Nat
    BY DEF Goes, TimelineInv, RowTypes
  <1> QED  BY <1>1, QuietStep

LEMMA EndStep ==
  ASSUME TimelineInv, NEW t \in Threads, Ends(t), UNCHANGED <<world, rows, changes, crashes, blind>>
  PROVE  TimelineInv'
  <1>1. rows' \in Seq(GenerationRow) /\ changes' \in Seq(ChangeRow)
    BY DEF TimelineInv, RowTypes
  <1> QED  BY <1>1, IdleThread, GoStep DEF Ends

LEMMA WorldFacts ==
  ASSUME TimelineInv
  PROVE  /\ tracks \in SUBSET Tracks /\ clips \in [Clips -> ClipRow] /\ media \in SUBSET Media
         /\ voices \in [Clips -> Nat] /\ blind \in SUBSET Clips
         /\ rows \in Seq(GenerationRow) /\ changes \in Seq(ChangeRow)
  BY DEF TimelineInv, WorldTypes, RowTypes

LEMMA OnTypes ==
  ASSUME NEW k
  PROVE  On(k) \in SUBSET Clips /\ \A c \in On(k) : clips[c].life # "none"
  BY DEF On, IsLive

LEMMA PlacedTypes ==
  ASSUME NEW k \in Tracks, NEW x \in AllTexts, NEW a \in AllAssets
  PROVE  /\ Placed(k, x, a) \in ClipRow /\ Placed(k, x, a).life = "live" /\ Placed(k, x, a).track = k
  BY DEF Placed, ClipRow

\* Nobody else is making the clip that a request takes.
LEMMA FreeIsExclusive ==
  ASSUME TimelineInv, NEW c \in Clips, IsFree(c)
  PROVE  /\ clips[c].life = "none"
         /\ \A u \in Threads : req[u].op \in NewOps => req[u].c # c
  <1>1. ASSUME NEW u \in Threads, req[u].op \in NewOps PROVE req[u].c # c
    <2>1. "c" \in DOMAIN req[u]
      BY <1>1, ThreadFacts, NewFacts
    <2> QED  BY <2>1 DEF IsFree
  <1> QED  BY <1>1 DEF IsFree

LEMMA DeleteTrackReadsOK ==
  ASSUME TimelineInv, NEW t \in Threads, NEW k, DeleteTrackReads(t, k)
  PROVE  TimelineInv'
  <1>1. PICK r, listed : r = [op |-> "delete track", track |-> k, listed |-> listed] /\ listed = On(k)
    OBVIOUS
  <1>2. Begins(t, r) /\ UNCHANGED <<world, rows, changes, crashes, blind>> /\ k \in tracks
    BY <1>1 DEF DeleteTrackReads
  <1>3. k \in Tracks /\ listed \in SUBSET Clips /\ \A c \in listed : clips[c].life # "none"
    BY <1>1, <1>2, WorldFacts, OnTypes
  <1>4. RequestOK(r) /\ r.op = "delete track" /\ r.listed = listed
    BY <1>1, <1>3 DEF RequestOK
  <1>5. ThreadOK(r) /\ r.op \notin NewOps
    BY <1>3, <1>4 DEF ThreadOK, NewOps, EditOps
  <1> QED  BY <1>2, <1>5, BeginStep

LEMMA AddClipReadsOK ==
  ASSUME TimelineInv, NEW t \in Threads, NEW c \in Clips, NEW k \in Tracks, NEW a \in Media, NEW x \in AllTexts,
         AddClipReads(t, c, k, x, a)
  PROVE  TimelineInv'
  <1>1. PICK r, new : r = [op |-> "add", c |-> c, new |-> new] /\ new = Placed(k, x, a)
    OBVIOUS
  <1>2. Begins(t, r) /\ UNCHANGED <<world, rows, changes, crashes, blind>> /\ IsFree(c)
    BY <1>1 DEF AddClipReads
  <1>3. new \in ClipRow /\ new.life = "live"
    BY <1>1, PlacedTypes DEF AllAssets
  <1>4. RequestOK(r) /\ r.op = "add" /\ r.c = c
    BY <1>1, <1>3 DEF RequestOK
  <1>5. ThreadOK(r) /\ \A u \in Threads \ {t} : req[u].op \in NewOps => req[u].c # r.c
    BY <1>2, <1>4, FreeIsExclusive DEF ThreadOK, NewOps, EditOps
  <1> QED  BY <1>2, <1>5, BeginStep

LEMMA ArrangeReadsOK ==
  ASSUME TimelineInv, NEW t \in Threads, NEW c \in Clips, ArrangeReads(t, c)
  PROVE  TimelineInv'
  <1>1. PICK r, listed : r = [op |-> "arrange", c |-> c, listed |-> listed] /\ listed = On("VIDEO")
    OBVIOUS
  <1>2. Begins(t, r) /\ UNCHANGED <<world, rows, changes, crashes, blind>> /\ IsFree(c)
    BY <1>1 DEF ArrangeReads
  <1>3. listed \in SUBSET Clips /\ \A d \in listed : clips[d].life # "none"
    BY <1>1, OnTypes
  <1>4. RequestOK(r) /\ r.op = "arrange" /\ r.c = c /\ r.listed = listed
    BY <1>1, <1>3 DEF RequestOK
  <1>5. ThreadOK(r) /\ \A u \in Threads \ {t} : req[u].op \in NewOps => req[u].c # r.c
    BY <1>2, <1>3, <1>4, FreeIsExclusive DEF ThreadOK, NewOps, EditOps
  <1> QED  BY <1>2, <1>5, BeginStep

LEMMA ClientEditsOK ==
  ASSUME TimelineInv, NEW t \in Threads, NEW c \in Clips, NEW f \in Fields, NEW v \in ValuesOf(f, c),
         NEW guarded \in BOOLEAN, ClientEdits(t, c, f, v, guarded)
  PROVE  TimelineInv'
  <1>1. PICK x \in ClipRow : x = clips[c]
    BY WorldFacts
  <1>2. PICK r : r = [op |-> "ask", c |-> c, field |-> f, value |-> v, guarded |-> guarded, seen |-> x, old |-> x]
    OBVIOUS
  <1>3. Begins(t, r) /\ UNCHANGED <<world, rows, changes, crashes, blind>> /\ IsLive(c) /\ (guarded => f # "asset")
    BY <1>1, <1>2 DEF ClientEdits
  <1>4. voices[c] \in Nat
    BY WorldFacts
  <1>5. IsValueOf(f, v)
    <2>1. CASE f = "text"
      BY <2>1 DEF ValuesOf, IsValueOf, AllTexts
    <2>2. CASE f = "track"
      BY <2>2 DEF ValuesOf, IsValueOf
    <2>3. CASE f = "asset"
      BY <1>4, <2>3 DEF ValuesOf, IsValueOf, AllAssets
    <2> QED  BY <2>1, <2>2, <2>3 DEF Fields
  <1>6. /\ DOMAIN r = EditFields /\ r.op = "ask" /\ r.c = c /\ r.field = f /\ r.value = v
        /\ r.seen = x /\ r.old = x
    BY <1>2 DEF EditFields
  <1>7. r.guarded = guarded
    BY <1>2
  <1>8. EditOK(r)
    BY <1>3, <1>5, <1>6, <1>7 DEF EditOK
  <1>9. RequestOK(r)
    BY <1>6, <1>8 DEF RequestOK
  <1>10. x.rev \in Nat /\ clips[c].life # "none"
    BY <1>1, <1>3 DEF ClipRow, IsLive
  <1>11. Knows(r)
    BY <1>1, <1>6, <1>10 DEF Knows
  <1>12. ThreadOK(r) /\ r.op \notin NewOps
    BY <1>6, <1>9, <1>10, <1>11 DEF ThreadOK, NewOps, EditOps
  <1> QED  BY <1>3, <1>12, BeginStep

\* A request that goes on with what it knows.
LEMMA GoesOn ==
  ASSUME NEW r, ThreadOK(r), r.op \in EditOps, NEW s, DOMAIN s = DOMAIN r, s.op \in EditOps,
         s.op \in {"undo", "mark"} <=> r.op \in {"undo", "mark"},
         s.c = r.c, s.field = r.field, s.value = r.value, s.guarded = r.guarded, s.seen = r.seen,
         s.old \in ClipRow, r.op \in {"undo", "mark"} => s.change = r.change
  PROVE  ThreadOK(s)
  <1>1. RequestOK(r) /\ EditOK(r)
    BY EditFacts DEF ThreadOK
  <1>2. EditOK(s)
    BY <1>1 DEF EditOK
  <1>3. CASE r.op \in {"undo", "mark"}
    <2>1. DOMAIN r = EditFields \cup {"change"} /\ r.change \in Nat
      BY <1>1, <1>3, IdleOK DEF RequestOK
    <2>2. RequestOK(s)
      BY <1>2, <1>3, <2>1 DEF RequestOK
    <2> QED  BY <1>3, <2>2 DEF ThreadOK, Knows, EditOps, NewOps
  <1>4. CASE r.op \notin {"undo", "mark"}
    <2>1. DOMAIN r = EditFields
      BY <1>1, <1>4, IdleOK DEF RequestOK, EditOps
    <2>2. s.op \in {"ask", "write", "record"}
      BY <1>4 DEF EditOps
    <2>3. RequestOK(s)
      BY <1>2, <2>1, <2>2 DEF RequestOK
    <2> QED  BY <1>4, <2>2, <2>3 DEF ThreadOK, Knows, EditOps, NewOps
  <1> QED  BY <1>3, <1>4

\* An edit with the next operation, and what it has loaded.
LEMMA NextOp ==
  ASSUME NEW r, ThreadOK(r), r.op \in EditOps, NEW o \in EditOps, NEW x \in ClipRow,
         o \in {"undo", "mark"} <=> r.op \in {"undo", "mark"},
         NEW s, s = [r EXCEPT !.op = o] \/ s = [r EXCEPT !.op = o, !.old = x]
  PROVE  ThreadOK(s) /\ s.op \notin NewOps /\ s.op = o /\ s.c = r.c
  <1>1. RequestOK(r) /\ EditOK(r)
    BY EditFacts DEF ThreadOK
  <1>2. DOMAIN r = EditFields \/ DOMAIN r = EditFields \cup {"change"}
    BY <1>1, IdleOK DEF RequestOK, EditOps
  <1>3. /\ DOMAIN s = DOMAIN r /\ s.op = o /\ s.c = r.c /\ s.field = r.field /\ s.value = r.value
        /\ s.guarded = r.guarded /\ s.seen = r.seen
    BY <1>2 DEF EditFields
  <1>4. s.old \in ClipRow
    BY <1>1, <1>2 DEF EditFields, EditOK
  <1>5. r.op \in {"undo", "mark"} => s.change = r.change
    <2>1. r.op \in {"undo", "mark"} => DOMAIN r = EditFields \cup {"change"}
      BY <1>1, IdleOK DEF RequestOK
    <2> QED  BY <2>1 DEF EditFields
  <1>6. ThreadOK(s)
    BY <1>3, <1>4, <1>5, GoesOn
  <1> QED  BY <1>3, <1>6 DEF NewOps, EditOps

LEMMA UpdateReadsOK ==
  ASSUME TimelineInv, NEW t \in Threads, UpdateReads(t)
  PROVE  TimelineInv'
  <1>1. PICK r : r = req[t]
    OBVIOUS
  <1>2. ThreadOK(r) /\ r.op = "ask" /\ UNCHANGED <<world, rows, changes, crashes, blind>>
    BY <1>1, ThreadFacts DEF UpdateReads, At
  <1>3. CASE Ends(t)
    BY <1>2, <1>3, EndStep
  <1>4. CASE ~ Ends(t)
    <2>1. r.c \in Clips
      BY <1>2, EditFacts DEF ThreadOK, EditOps, EditOK
    <2>2. PICK x \in ClipRow : x = clips[r.c]
      BY <2>1, WorldFacts
    <2>3. PICK s : s = [r EXCEPT !.op = "write", !.old = x]
      OBVIOUS
    <2>4. Goes(t, s)
      BY <1>1, <1>4, <2>2, <2>3 DEF UpdateReads
    <2>5. ThreadOK(s) /\ s.op \notin NewOps
      <3>1. r.op \in EditOps /\ "write" \in EditOps /\ ("write" \in {"undo", "mark"} <=> r.op \in {"undo", "mark"})
        BY <1>2 DEF EditOps
      <3> QED  BY ONLY <1>2, <2>3, <3>1, x \in ClipRow, NextOp
    <2> QED  BY <1>2, <2>4, <2>5, GoStep, WorldFacts
  <1> QED  BY <1>3, <1>4

LEMMA RecordsChangeSetOK ==
  ASSUME TimelineInv, NEW t \in Threads, RecordsChangeSet(t)
  PROVE  TimelineInv'
  <1>1. PICK r : r = req[t]
    OBVIOUS
  <1>2. PICK h : h = [c |-> r.c, field |-> r.field, before |-> r.old[r.field], after |-> r.value, undone |-> FALSE]
    OBVIOUS
  <1>3. ThreadOK(r) /\ r.op = "record" /\ UNCHANGED <<world, rows, crashes, blind>>
        /\ changes' = Append(changes, h) /\ Ends(t)
    BY <1>1, <1>2, ThreadFacts DEF RecordsChangeSet, At
  <1>4. EditOK(r)
    BY <1>3, EditFacts DEF ThreadOK, EditOps
  <1>5. r.c \in Clips /\ r.field \in Fields /\ IsValueOf(r.field, r.value) /\ IsValueOf(r.field, r.old[r.field])
    BY <1>4, ValueOfField DEF EditOK
  <1>6. h \in ChangeRow
    <2>1. CASE r.field = "text"
      BY <1>2, <1>5, <2>1 DEF IsValueOf, ChangeRow, ChangesOf
    <2>2. CASE r.field = "track"
      BY <1>2, <1>5, <2>2 DEF IsValueOf, ChangeRow, ChangesOf
    <2>3. CASE r.field = "asset"
      BY <1>2, <1>5, <2>3 DEF IsValueOf, ChangeRow, ChangesOf
    <2> QED  BY <1>5, <2>1, <2>2, <2>3 DEF Fields
  <1>7. changes' \in Seq(ChangeRow) /\ rows' \in Seq(GenerationRow)
    BY <1>3, <1>6, WorldFacts
  <1> QED  BY <1>3, <1>7, IdleThread, GoStep DEF Ends

LEMMA ChangeFacts ==
  ASSUME NEW h \in ChangeRow
  PROVE  h.c \in Clips /\ h.field \in Fields /\ IsValueOf(h.field, h.before)
         /\ [h EXCEPT !.undone = TRUE] \in ChangeRow
  BY DEF ChangeRow, ChangesOf, Fields, IsValueOf

LEMMA UndoReadsOK ==
  ASSUME TimelineInv, NEW t \in Threads, NEW i \in DOMAIN changes, NEW force, UndoReads(t, i, force)
  PROVE  TimelineInv'
  <1>1. PICK h \in ChangeRow : h = changes[i]
    BY WorldFacts
  <1>2. h.c \in Clips /\ h.field \in Fields /\ IsValueOf(h.field, h.before) /\ i \in Nat
    <2>1. i \in Nat
      BY WorldFacts
    <2> QED  BY <2>1, ChangeFacts
  <1>3. PICK x \in ClipRow : x = clips[h.c]
    BY <1>2, WorldFacts
  <1>4. PICK g \in BOOLEAN : g = (h.field # "asset")
    OBVIOUS
  <1>5. PICK r : r = [op |-> "undo", c |-> h.c, field |-> h.field, value |-> h.before,
                      guarded |-> g, seen |-> x, old |-> x, change |-> i]
    OBVIOUS
  <1>6. Begins(t, r) /\ UNCHANGED <<world, rows, changes, crashes, blind>> /\ IsLive(h.c)
    BY <1>1, <1>3, <1>4, <1>5 DEF UndoReads
  <1>7. /\ DOMAIN r = EditFields \cup {"change"} /\ r.op = "undo" /\ r.c = h.c /\ r.field = h.field /\ r.value = h.before
        /\ r.seen = x /\ r.old = x /\ r.change = i
    BY <1>5 DEF EditFields
  <1>8. r.guarded = g
    BY <1>5
  <1>9. EditOK(r)
    BY <1>2, <1>4, <1>7, <1>8 DEF EditOK
  <1>10. RequestOK(r)
    BY <1>2, <1>7, <1>9 DEF RequestOK
  <1>11. x.rev \in Nat /\ clips[h.c].life # "none"
    BY <1>1, <1>3, <1>6 DEF ClipRow, IsLive
  <1>12. Knows(r)
    BY <1>3, <1>7, <1>11 DEF Knows
  <1>13. ThreadOK(r) /\ r.op \notin NewOps
    BY <1>7, <1>10, <1>11, <1>12 DEF ThreadOK, NewOps, EditOps
  <1> QED  BY <1>6, <1>13, BeginStep

LEMMA UndoMarksOK ==
  ASSUME TimelineInv, NEW t \in Threads, UndoMarks(t)
  PROVE  TimelineInv'
  <1>1. PICK i : i = req[t].change
    OBVIOUS
  <1>2. UNCHANGED <<world, rows, crashes, blind>> /\ Ends(t) /\ changes' = [changes EXCEPT ![i].undone = TRUE]
    BY <1>1 DEF UndoMarks
  <1>3. changes' \in Seq(ChangeRow)
    <2>1. changes \in Seq(ChangeRow)
      BY WorldFacts
    <2>2. CASE i \in DOMAIN changes
      <3>1. PICK h \in ChangeRow : h = changes[i]
        BY <2>1, <2>2
      <3>2. PICK k \in ChangeRow : k = [h EXCEPT !.undone = TRUE]
        BY ChangeFacts
      <3>3. changes' = [changes EXCEPT ![i] = k]
        BY <1>2, <3>1, <3>2
      <3> QED  BY <2>1, <2>2, <3>3
    <2>3. CASE i \notin DOMAIN changes
      <3>1. changes' = changes
        BY <1>2, <2>1, <2>3
      <3> QED  BY <2>1, <3>1
    <2> QED  BY <2>2, <2>3
  <1>4. rows' \in Seq(GenerationRow)
    BY <1>2, WorldFacts
  <1> QED  BY <1>2, <1>3, <1>4, IdleThread, GoStep DEF Ends

LEMMA BatchThread ==
  ASSUME NEW todo \in SUBSET (Clips \X AllTexts), NEW r, r = [op |-> "batch", todo |-> todo]
  PROVE  ThreadOK(r) /\ r.op \notin NewOps
  <1>1. RequestOK(r) /\ r.op = "batch"
    BY DEF RequestOK
  <1> QED  BY <1>1 DEF ThreadOK, NewOps, EditOps

LEMMA BatchReadsOK ==
  ASSUME TimelineInv, NEW t \in Threads, BatchReads(t)
  PROVE  TimelineInv'
  <1>1. PICK silent : silent = {c \in Clips : Speaks(c) /\ ~HasAudio(c)}
    OBVIOUS
  <1>2. PICK todo : todo = {<<c, clips[c].text>> : c \in silent}
    OBVIOUS
  <1>3. PICK r : r = [op |-> "batch", todo |-> todo]
    OBVIOUS
  <1>4. Begins(t, r) /\ UNCHANGED <<world, rows, changes, crashes, blind>>
    BY <1>1, <1>2, <1>3 DEF BatchReads
  <1>5. \A c \in silent : c \in Clips /\ clips[c].text \in AllTexts
    BY <1>1, WorldFacts DEF ClipRow
  <1>6. todo \in SUBSET (Clips \X AllTexts)
    BY <1>2, <1>5
  <1> QED  BY <1>3, <1>4, <1>6, BatchThread, BeginStep

LEMMA VoiceRowTypes ==
  ASSUME NEW c \in Clips, NEW x \in AllTexts
  PROVE  VoiceRow(c, x) \in GenerationRow
  BY DEF VoiceRow, GenerationRow

LEMMA QueuesTypes ==
  ASSUME TimelineInv, NEW row \in GenerationRow, Queues(row)
  PROVE  rows' \in Seq(GenerationRow)
  BY WorldFacts DEF Queues

LEMMA BatchQueuesOK ==
  ASSUME TimelineInv, NEW t \in Threads, BatchQueues(t)
  PROVE  TimelineInv'
  <1>1. PICK r : r = req[t]
    OBVIOUS
  <1>2. RequestOK(r) /\ r.op = "batch" /\ UNCHANGED <<world, changes, crashes, blind>>
    BY <1>1, ThreadFacts DEF BatchQueues, At
  <1>3. r \in [op : {"batch"}, todo : SUBSET (Clips \X AllTexts)]
    BY <1>2, IdleOK DEF RequestOK
  <1>4. CASE Ends(t) /\ UNCHANGED rows
    BY <1>2, <1>4, EndStep
  <1>5. CASE \E x \in r.todo : Queues(VoiceRow(x[1], x[2])) /\ Goes(t, [r EXCEPT !.todo = @ \ {x}])
    <2>1. PICK x \in r.todo : Queues(VoiceRow(x[1], x[2])) /\ Goes(t, [r EXCEPT !.todo = @ \ {x}])
      BY <1>5
    <2>2. x[1] \in Clips /\ x[2] \in AllTexts
      BY <1>3
    <2>3. rows' \in Seq(GenerationRow)
      BY <2>1, <2>2, VoiceRowTypes, QueuesTypes
    <2>4. PICK s, todo : s = [r EXCEPT !.todo = @ \ {x}] /\ todo = r.todo \ {x}
      OBVIOUS
    <2>5. todo \in SUBSET (Clips \X AllTexts) /\ s = [op |-> "batch", todo |-> todo]
      BY <1>3, <2>4
    <2>6. ThreadOK(s) /\ s.op \notin NewOps
      BY <2>5, BatchThread
    <2> QED  BY <1>2, <2>1, <2>3, <2>4, <2>6, GoStep, WorldFacts
  <1> QED  BY <1>1, <1>4, <1>5 DEF BatchQueues

\* A step that moves no clip and no request.
LEMMA WorldStep ==
  ASSUME TimelineInv, UNCHANGED <<clips, req, blind>>, tracks \subseteq tracks', WorldTypes', RowTypes'
  PROVE  TimelineInv'
  BY TracksStay, ThreadsStay DEF TimelineInv

LEMMA CreateTimelineOK ==
  ASSUME TimelineInv, CreateTimeline
  PROVE  TimelineInv'
  <1>1. tracks \subseteq tracks'
    BY DEF CreateTimeline, TimelineInv, WorldTypes
  <1>2. WorldTypes'
    BY DEF CreateTimeline, TimelineInv, WorldTypes, Tracks
  <1>3. RowTypes'
    BY DEF CreateTimeline, TimelineInv, RowTypes
  <1> QED  BY <1>1, <1>2, <1>3, WorldStep DEF CreateTimeline

LEMMA UpdateTimelineOK ==
  ASSUME TimelineInv, UpdateTimeline
  PROVE  TimelineInv'
  <1>1. WorldTypes'
    BY DEF UpdateTimeline, TimelineInv, WorldTypes
  <1>2. RowTypes'
    BY DEF UpdateTimeline, TimelineInv, RowTypes
  <1> QED  BY <1>1, <1>2, WorldStep DEF UpdateTimeline

LEMMA AddTrackOK ==
  ASSUME TimelineInv, NEW k \in Tracks, AddTrack(k)
  PROVE  TimelineInv'
  <1>1. WorldTypes'
    BY DEF AddTrack, TimelineInv, WorldTypes
  <1>2. RowTypes'
    BY DEF AddTrack, TimelineInv, RowTypes
  <1> QED  BY <1>1, <1>2, WorldStep DEF AddTrack

LEMMA ArchiveAssetOK ==
  ASSUME TimelineInv, NEW a, ArchiveAsset(a)
  PROVE  TimelineInv'
  <1>1. WorldTypes'
    BY DEF ArchiveAsset, TimelineInv, WorldTypes
  <1>2. RowTypes'
    BY DEF ArchiveAsset, TimelineInv, RowTypes
  <1> QED  BY <1>1, <1>2, WorldStep DEF ArchiveAsset

\* A step that writes rows and nothing else.
LEMMA RowStep ==
  ASSUME TimelineInv, UNCHANGED <<world, changes, req, crashes, blind>>, ops' \in Nat, rows' \in Seq(GenerationRow)
  PROVE  TimelineInv'
  <1>1. WorldTypes'
    BY DEF TimelineInv, WorldTypes, world
  <1>2. RowTypes'
    BY DEF TimelineInv, RowTypes
  <1> QED  BY <1>1, <1>2, WorldStep DEF world

LEMMA CreateVoiceoverOK ==
  ASSUME TimelineInv, NEW c \in Clips, CreateVoiceover(c)
  PROVE  TimelineInv'
  <1>1. clips[c].text \in AllTexts
    BY WorldFacts DEF ClipRow
  <1>2. rows' \in Seq(GenerationRow)
    BY <1>1, VoiceRowTypes, QueuesTypes DEF CreateVoiceover
  <1>3. ops' \in Nat
    BY DEF CreateVoiceover, TimelineInv, RowTypes
  <1> QED  BY <1>2, <1>3, RowStep DEF CreateVoiceover

LEMMA CreateRenderOK ==
  ASSUME TimelineInv, CreateRender
  PROVE  TimelineInv'
  <1>1. PICK row : row = [kind |-> "render", c |-> NoText, text |-> NoText, plan |-> RenderPlan, status |-> "queued"]
    OBVIOUS
  <1>2. RenderPlan \in SUBSET Media
    BY WorldFacts DEF RenderPlan
  <1>3. row \in GenerationRow
    BY <1>1, <1>2 DEF GenerationRow, AllTexts
  <1>4. rows' \in Seq(GenerationRow) /\ ops' \in Nat
    BY <1>1, <1>3, QueuesTypes DEF CreateRender, TimelineInv, RowTypes
  <1> QED  BY <1>4, RowStep DEF CreateRender

LEMMA BecomesTypes ==
  ASSUME TimelineInv, NEW i \in DOMAIN rows, NEW s \in {"running", "completed", "failed", "cancelled"}, Becomes(i, s)
  PROVE  rows' \in Seq(GenerationRow)
  <1>1. rows \in Seq(GenerationRow)
    BY WorldFacts
  <1>2. PICK x \in GenerationRow : x = rows[i]
    BY <1>1
  <1>3. [x EXCEPT !.status = s] \in GenerationRow
    BY DEF GenerationRow
  <1>4. PICK y \in GenerationRow : y = [x EXCEPT !.status = s]
    BY <1>3
  <1>5. rows' = [rows EXCEPT ![i] = y]
    BY <1>2, <1>4 DEF Becomes
  <1> QED  BY <1>1, <1>5

LEMMA WorkerTakesOK ==
  ASSUME TimelineInv, NEW i \in DOMAIN rows, WorkerTakes(i)
  PROVE  TimelineInv'
  <1>1. rows' \in Seq(GenerationRow) /\ ops' \in Nat
    BY BecomesTypes DEF WorkerTakes, TimelineInv, RowTypes
  <1> QED  BY <1>1, RowStep DEF WorkerTakes

LEMMA RowStopsOK ==
  ASSUME TimelineInv, NEW i \in DOMAIN rows, RowStops(i)
  PROVE  TimelineInv'
  <1>1. rows' \in Seq(GenerationRow) /\ ops' \in Nat
    BY BecomesTypes DEF RowStops, TimelineInv, RowTypes
  <1> QED  BY <1>1, RowStep DEF RowStops

LEMMA PersistRenderOK ==
  ASSUME TimelineInv, NEW i \in DOMAIN rows, PersistRender(i)
  PROVE  TimelineInv'
  <1>1. rows' \in Seq(GenerationRow)
    BY BecomesTypes DEF PersistRender
  <1>2. WorldTypes'
    BY DEF PersistRender, TimelineInv, WorldTypes
  <1>3. RowTypes'
    BY <1>1 DEF PersistRender, TimelineInv, RowTypes
  <1> QED  BY <1>2, <1>3, WorldStep DEF PersistRender

LEMMA CrashOK ==
  ASSUME TimelineInv, Crash
  PROVE  TimelineInv'
  <1>1. UNCHANGED <<world, rows, changes, ops, blind>> /\ req' = [t \in Threads |-> Idle] /\ crashes' \in Nat
    BY DEF Crash, TimelineInv, RowTypes
  <1>2. WorldTypes'
    BY <1>1 DEF TimelineInv, WorldTypes, world
  <1>3. RowTypes'
    BY <1>1 DEF TimelineInv, RowTypes
  <1>4. ClipsHaveTracks'
    BY <1>1, TracksStay DEF world
  <1>5. ThreadOK(Idle)'
    BY <1>1, IdleThread, NobodyMoves DEF world
  <1>6. PICK idle : idle = Idle
    OBVIOUS
  <1>7. \A t \in Threads : req'[t] = idle
    BY <1>1, <1>6
  <1>8. ASSUME NEW t \in Threads PROVE ThreadOK(req[t])'
    <2>1. req'[t] = idle /\ ThreadOK(idle)'
      BY <1>5, <1>6, <1>7
    <2> QED  BY <2>1
  <1>9. Exclusive'
    BY <1>6, <1>7, IdleThread DEF Exclusive
  <1>10. ThreadsOK'
    BY <1>1, <1>8, <1>9 DEF ThreadsOK
  <1> QED  BY <1>2, <1>3, <1>4, <1>10 DEF TimelineInv

-----------------------------------------------------------------------------
(* Steps that move clips.                                                  *)

LEMMA WithoutTypes ==
  ASSUME clips \in [Clips -> ClipRow], NEW gone
  PROVE  /\ Without(gone) \in [Clips -> ClipRow]
         /\ \A c \in Clips : c \in gone => Without(gone)[c].life = "gone"
         /\ \A c \in Clips : c \notin gone => Without(gone)[c] = clips[c]
  <1>1. [NoClip EXCEPT !.life = "gone"] \in ClipRow /\ [NoClip EXCEPT !.life = "gone"].life = "gone"
    BY DEF NoClip, ClipRow, Tracks, AllTexts, AllAssets
  <1>2. PICK x \in ClipRow : x = [NoClip EXCEPT !.life = "gone"] /\ x.life = "gone"
    BY <1>1
  <1>3. Without(gone) = [c \in Clips |-> IF c \in gone THEN x ELSE clips[c]]
    BY <1>2 DEF Without
  <1> QED  BY <1>2, <1>3

LEMMA DeleteClipOK ==
  ASSUME TimelineInv, NEW c \in Clips, DeleteClip(c)
  PROVE  TimelineInv'
  <1>1. /\ clips' \in [Clips -> ClipRow] /\ clips'[c].life = "gone" /\ clips[c].life = "live"
        /\ \A d \in Clips : d # c => clips'[d] = clips[d]
    BY WorldFacts, WithoutTypes DEF DeleteClip, IsLive
  <1>2. UNCHANGED <<tracks, req, blind>>
    BY DEF DeleteClip
  <1>3. WorldTypes'
    BY <1>1 DEF DeleteClip, TimelineInv, WorldTypes
  <1>4. RowTypes'
    BY DEF DeleteClip, TimelineInv, RowTypes
  <1>5. ClipsHaveTracks'
    BY <1>1, <1>2 DEF TimelineInv, ClipsHaveTracks, IsLive
  <1>6. \A d \in Clips : Evolves(d) /\ (clips[d].life = "none" => clips'[d].life = "none")
    BY <1>1 DEF Evolves
  <1>7. ThreadsOK'
    BY <1>1, <1>2, <1>6, ClipsMove
  <1> QED  BY <1>3, <1>4, <1>5, <1>7 DEF TimelineInv

LEMMA DeleteTrackCommitsOK ==
  ASSUME TimelineInv, NEW t \in Threads, DeleteTrackCommits(t)
  PROVE  TimelineInv'
  <1>1. PICK r, gone : r = req[t] /\ gone = r.listed \cup On(r.track)
    OBVIOUS
  <1>2. ThreadOK(r) /\ RequestOK(r) /\ r.op = "delete track"
    BY <1>1, ThreadFacts DEF DeleteTrackCommits, At
  <1>3. /\ clips' = Without(gone) /\ tracks' = tracks \ {r.track} /\ Ends(t)
        /\ UNCHANGED <<created, status, media, voices, finals, rows, changes, crashes, blind>>
    BY <1>1 DEF DeleteTrackCommits, Cascades
  <1>4. r.listed \in SUBSET Clips /\ \A c \in r.listed : clips[c].life # "none"
    BY <1>2, ListFacts DEF ThreadOK
  <1>5. gone \in SUBSET Clips /\ \A c \in gone : clips[c].life # "none"
    BY <1>1, <1>4, OnTypes
  <1>6. /\ clips' \in [Clips -> ClipRow]
        /\ \A c \in Clips : c \in gone => clips'[c].life = "gone"
        /\ \A c \in Clips : c \notin gone => clips'[c] = clips[c]
    BY <1>3, WorldFacts, WithoutTypes
  <1>7. WorldTypes'
    BY <1>3, <1>6 DEF TimelineInv, WorldTypes
  <1>8. RowTypes'
    BY <1>3 DEF Ends, Goes, TimelineInv, RowTypes
  <1>9. ClipsHaveTracks'
    <2> SUFFICES ASSUME NEW c \in Clips, clips'[c].life = "live" PROVE clips'[c].track \in tracks'
      BY DEF ClipsHaveTracks, IsLive
    <2>1. c \notin gone /\ clips'[c] = clips[c]
      BY <1>6
    <2>2. clips[c].track \in tracks
      BY <2>1 DEF TimelineInv, ClipsHaveTracks, IsLive
    <2>3. clips[c].track # r.track
      BY <1>1, <2>1 DEF On, IsLive
    <2> QED  BY <1>3, <2>1, <2>2, <2>3
  <1>10. \A c \in Clips : Evolves(c) /\ (clips[c].life = "none" => clips'[c].life = "none")
    BY <1>5, <1>6 DEF Evolves
  <1>11. ThreadOK(Idle)' /\ Idle.op \notin NewOps
    BY IdleOK DEF ThreadOK, NewOps, EditOps
  <1>12. ThreadsOK'
    BY <1>3, <1>6, <1>10, <1>11, LoudThreads DEF Ends, Goes
  <1> QED  BY <1>7, <1>8, <1>9, <1>12 DEF TimelineInv

LEMMA IdleAlways ==
  ThreadOK(Idle)' /\ Idle.op \notin NewOps
  BY IdleOK DEF ThreadOK, NewOps, EditOps

LEMMA AddClipCommitsOK ==
  ASSUME TimelineInv, NEW t \in Threads, AddClipCommits(t)
  PROVE  TimelineInv'
  <1>1. PICK r, c, new : r = req[t] /\ c = r.c /\ new = r.new
    OBVIOUS
  <1>2. ThreadOK(r) /\ RequestOK(r) /\ r.op = "add"
    BY <1>1, ThreadFacts DEF AddClipCommits, At
  <1>3. c \in Clips /\ new \in ClipRow /\ new.life = "live"
    BY <1>1, <1>2, IdleOK DEF RequestOK
  <1>4. clips[c].life = "none"
    BY <1>1, <1>2 DEF ThreadOK, NewOps
  <1>5. /\ Ends(t) /\ UNCHANGED <<created, status, tracks, media, voices, finals, rows, changes, crashes, blind>>
        /\ (clips' = [clips EXCEPT ![c] = new] /\ new.track \in tracks) \/ clips' = clips
    BY <1>1 DEF AddClipCommits
  <1>6. CASE clips' = clips
    <2>1. UNCHANGED <<world, rows, changes, crashes, blind>>
      BY <1>5, <1>6 DEF world
    <2> QED  BY <1>5, <2>1, EndStep
  <1>7. CASE clips' = [clips EXCEPT ![c] = new] /\ new.track \in tracks
    <2>1. clips' \in [Clips -> ClipRow] /\ clips'[c] = new /\ \A d \in Clips : d # c => clips'[d] = clips[d]
      BY <1>3, <1>7, WorldFacts
    <2>2. WorldTypes'
      BY <1>5, <2>1 DEF TimelineInv, WorldTypes
    <2>3. RowTypes'
      BY <1>5 DEF Ends, Goes, TimelineInv, RowTypes
    <2>4. ClipsHaveTracks'
      BY <1>5, <1>7, <2>1 DEF TimelineInv, ClipsHaveTracks, IsLive
    <2>5. \A d \in Clips : Evolves(d)
      BY <1>3, <1>4, <2>1 DEF Evolves
    <2>6. \A u \in Threads \ {t} : req[u].op \in NewOps => req[u].c # c
      BY <1>1, <1>2 DEF TimelineInv, ThreadsOK, Exclusive, NewOps
    <2>7. \A d \in Clips : clips[d].life = "none" =>
            clips'[d].life = "none" \/ \A u \in Threads \ {t} : req[u].op \in NewOps => req[u].c # d
      BY <2>1, <2>6
    <2>8. ThreadsOK'
      BY <1>5, <2>1, <2>5, <2>7, IdleAlways, LoudThreads DEF Ends, Goes
    <2> QED  BY <2>2, <2>3, <2>4, <2>8 DEF TimelineInv
  <1> QED  BY <1>5, <1>6, <1>7

LEMMA ArrangeCommitsOK ==
  ASSUME TimelineInv, NEW t \in Threads, NEW a \in media, ArrangeCommits(t, a)
  PROVE  TimelineInv'
  <1>1. PICK r, c, listed, new : r = req[t] /\ c = r.c /\ listed = r.listed /\ new = Placed("VIDEO", NoText, a)
    OBVIOUS
  <1>2. ThreadOK(r) /\ RequestOK(r) /\ r.op = "arrange"
    BY <1>1, ThreadFacts DEF ArrangeCommits, At
  <1>3. c \in Clips /\ listed \in SUBSET Clips /\ \A d \in listed : clips[d].life # "none"
    BY <1>1, <1>2, NewFacts, ListFacts DEF ThreadOK, NewOps
  <1>4. clips[c].life = "none"
    BY <1>1, <1>2 DEF ThreadOK, NewOps
  <1>5. "VIDEO" \in Tracks /\ NoText \in AllTexts /\ a \in AllAssets
    BY WorldFacts DEF Tracks, AllTexts, AllAssets
  <1>6. new \in ClipRow /\ new.life = "live" /\ new.track = "VIDEO"
    BY <1>1, <1>5, PlacedTypes
  <1>7. PICK rest : rest = Without(listed)
    OBVIOUS
  <1>8. /\ Ends(t) /\ UNCHANGED <<created, status, tracks, media, voices, finals, rows, changes, crashes, blind>>
        /\ (clips' = [rest EXCEPT ![c] = new] /\ "VIDEO" \in tracks) \/ clips' = clips
    BY <1>1, <1>7 DEF ArrangeCommits
  <1>9. CASE clips' = clips
    <2>1. UNCHANGED <<world, rows, changes, crashes, blind>>
      BY <1>8, <1>9 DEF world
    <2> QED  BY <1>8, <2>1, EndStep
  <1>10. CASE clips' = [rest EXCEPT ![c] = new] /\ "VIDEO" \in tracks
    <2>1. /\ rest \in [Clips -> ClipRow]
          /\ \A d \in Clips : d \in listed => rest[d].life = "gone"
          /\ \A d \in Clips : d \notin listed => rest[d] = clips[d]
      BY <1>7, WorldFacts, WithoutTypes
    <2>2. clips' \in [Clips -> ClipRow] /\ clips'[c] = new /\ \A d \in Clips : d # c => clips'[d] = rest[d]
      BY <1>3, <1>6, <1>10, <2>1
    <2>3. WorldTypes'
      BY <1>8, <2>2 DEF TimelineInv, WorldTypes
    <2>4. RowTypes'
      BY <1>8 DEF Ends, Goes, TimelineInv, RowTypes
    <2>5. ClipsHaveTracks'
      <3> SUFFICES ASSUME NEW d \in Clips, clips'[d].life = "live" PROVE clips'[d].track \in tracks'
        BY DEF ClipsHaveTracks, IsLive
      <3>1. CASE d = c
        BY <1>6, <1>8, <1>10, <2>2, <3>1
      <3>2. CASE d # c
        BY <1>8, <2>1, <2>2, <3>2 DEF TimelineInv, ClipsHaveTracks, IsLive
      <3> QED  BY <3>1, <3>2
    <2>6. \A d \in Clips : Evolves(d) /\ (d # c /\ clips[d].life = "none" => clips'[d].life = "none")
      <3> TAKE d \in Clips
      <3>1. CASE d = c
        BY <1>4, <1>6, <2>2, <3>1 DEF Evolves
      <3>2. CASE d # c /\ d \in listed
        BY <1>3, <2>1, <2>2, <3>2 DEF Evolves
      <3>3. CASE d # c /\ d \notin listed
        BY <2>1, <2>2, <3>3 DEF Evolves
      <3> QED  BY <3>1, <3>2, <3>3
    <2>7. \A u \in Threads \ {t} : req[u].op \in NewOps => req[u].c # c
      BY <1>1, <1>2 DEF TimelineInv, ThreadsOK, Exclusive, NewOps
    <2>8. \A d \in Clips : clips[d].life = "none" =>
            clips'[d].life = "none" \/ \A u \in Threads \ {t} : req[u].op \in NewOps => req[u].c # d
      BY <2>6, <2>7
    <2>9. ThreadsOK'
      BY <1>8, <2>2, <2>6, <2>8, IdleAlways, LoudThreads DEF Ends, Goes
    <2> QED  BY <2>3, <2>4, <2>5, <2>9 DEF TimelineInv
  <1> QED  BY <1>8, <1>9, <1>10

\* The edit of one clip: it lives, stands on a track there is, and has a new
\* revision unless the edit was made without looking.
LEMMA WritesClip ==
  ASSUME TimelineInv, NEW t \in Threads, NEW r, r = req[t], r.op \in EditOps, Matches(t), Writes(t)
  PROVE  /\ clips' \in [Clips -> ClipRow]
         /\ \A c \in Clips : c # r.c => clips'[c] = clips[c]
         /\ clips'[r.c].life = "live" /\ clips[r.c].life = "live"
         /\ clips'[r.c].track = clips[r.c].track \/ clips'[r.c].track \in tracks
         /\ clips'[r.c].rev > clips[r.c].rev \/ r.c \in blind'
         /\ blind \subseteq blind' /\ blind' \in SUBSET Clips
  <1>1. EditOK(r)
    BY ThreadFacts, EditFacts
  <1>2. PICK c \in Clips : c = r.c
    BY <1>1 DEF EditOK
  <1>3. PICK x \in ClipRow : x = clips[c]
    BY WorldFacts
  <1>4. PICK f, v : f = r.field /\ v = r.value /\ f \in Fields /\ IsValueOf(f, v)
    BY <1>1 DEF EditOK
  <1>5. x.life = "live" /\ (f = "track" => v \in tracks)
    BY <1>2, <1>3, <1>4 DEF Matches, IsLive
  <1>6. x.rev \in Nat /\ r.old.rev \in Nat
    BY <1>1, <1>3 DEF EditOK, ClipRow
  <1>7. PICK rev \in Nat : rev = 1 + IF r.guarded THEN x.rev ELSE r.old.rev
    BY <1>6
  <1>8. PICK y : y = Edited(x, f, v, rev)
    OBVIOUS
  <1>9. y \in ClipRow /\ y.life = x.life /\ y.rev = rev /\ (y.track = x.track \/ (f = "track" /\ y.track = v))
    <2>1. f \in Fields /\ IsValueOf(f, v)
      BY <1>4
    <2> QED  BY ONLY <1>8, <2>1, x \in ClipRow, rev \in Nat, EditedClip
  <1>10. clips' = [clips EXCEPT ![c] = y]
    BY <1>2, <1>3, <1>4, <1>7, <1>8 DEF Writes, Edited
  <1>11. blind' = IF r.guarded \/ x.rev = r.old.rev THEN blind ELSE blind \cup {c}
    BY <1>2, <1>3 DEF Writes
  <1>12. y.rev > x.rev \/ c \in blind'
    <2>1. CASE r.guarded \/ x.rev = r.old.rev
      BY <1>6, <1>7, <1>9, <2>1
    <2>2. CASE ~ (r.guarded \/ x.rev = r.old.rev)
      BY <1>11, <2>2
    <2> QED  BY <2>1, <2>2
  <1>13. blind \subseteq blind' /\ blind' \in SUBSET Clips
    BY <1>11, WorldFacts
  <1>14. clips' \in [Clips -> ClipRow] /\ clips'[c] = y /\ \A d \in Clips : d # c => clips'[d] = clips[d]
    BY <1>9, <1>10, WorldFacts
  <1> QED  BY <1>2, <1>3, <1>5, <1>9, <1>12, <1>13, <1>14

LEMMA WriteStep ==
  ASSUME TimelineInv, NEW t \in Threads, NEW r, r = req[t], r.op \in EditOps, Matches(t), Writes(t),
         NEW o \in EditOps, o \in {"undo", "mark"} <=> r.op \in {"undo", "mark"}, Goes(t, [r EXCEPT !.op = o]),
         UNCHANGED <<created, status, tracks, media, voices, finals, rows, changes, crashes>>
  PROVE  TimelineInv'
  <1>1. /\ clips' \in [Clips -> ClipRow]
        /\ \A c \in Clips : c # r.c => clips'[c] = clips[c]
        /\ clips'[r.c].life = "live" /\ clips[r.c].life = "live"
        /\ clips'[r.c].track = clips[r.c].track \/ clips'[r.c].track \in tracks
        /\ clips'[r.c].rev > clips[r.c].rev \/ r.c \in blind'
        /\ blind \subseteq blind' /\ blind' \in SUBSET Clips
    BY WritesClip
  <1>2. PICK s : s = [r EXCEPT !.op = o]
    OBVIOUS
  <1>3. ThreadOK(r)
    BY ThreadFacts
  <1>4. PICK x : x \in ClipRow
    BY <1>3, EditFacts DEF ThreadOK, EditOK
  <1>5. ThreadOK(s) /\ s.op \notin NewOps
    BY <1>2, <1>3, <1>4, NextOp
  <1>6. WorldTypes'
    BY <1>1 DEF TimelineInv, WorldTypes
  <1>7. RowTypes'
    BY DEF Goes, TimelineInv, RowTypes
  <1>8. ClipsHaveTracks'
    <2> SUFFICES ASSUME NEW d \in Clips, clips'[d].life = "live" PROVE clips'[d].track \in tracks
      BY DEF ClipsHaveTracks, IsLive
    <2>1. clips[d].life = "live" => clips[d].track \in tracks
      BY DEF TimelineInv, ClipsHaveTracks, IsLive
    <2> QED  BY <1>1, <2>1
  <1>9. \A d \in Clips : Evolves(d) /\ (clips[d].life = "none" => clips'[d].life = "none")
    BY <1>1 DEF Evolves
  <1>10. ThreadOK(s)'
    BY <1>1, <1>5, <1>9, OtherStays, WorldFacts
  <1>11. ThreadsOK'
    BY <1>1, <1>2, <1>5, <1>9, <1>10, LoudThreads DEF Goes
  <1> QED  BY <1>6, <1>7, <1>8, <1>11 DEF TimelineInv

LEMMA UpdateCommitsOK ==
  ASSUME TimelineInv, NEW t \in Threads, UpdateCommits(t)
  PROVE  TimelineInv'
  <1>1. req[t].op = "write" /\ UNCHANGED <<created, status, tracks, media, voices, finals, rows, changes, crashes>>
    BY DEF UpdateCommits, At
  <1>2. CASE Matches(t) /\ Writes(t) /\ Goes(t, [req[t] EXCEPT !.op = "record"])
    BY <1>1, <1>2, WriteStep DEF EditOps
  <1>3. CASE Ends(t) /\ UNCHANGED <<clips, blind>>
    <2>1. UNCHANGED <<world, rows, changes, crashes, blind>>
      BY <1>1, <1>3 DEF world
    <2> QED  BY <1>3, <2>1, EndStep
  <1> QED  BY <1>2, <1>3 DEF UpdateCommits

LEMMA UndoWritesOK ==
  ASSUME TimelineInv, NEW t \in Threads, UndoWrites(t)
  PROVE  TimelineInv'
  <1>1. req[t].op = "undo" /\ UNCHANGED <<created, status, tracks, media, voices, finals, rows, changes, crashes>>
    BY DEF UndoWrites, At
  <1>2. CASE Goes(t, [req[t] EXCEPT !.op = "mark"]) /\ UNCHANGED <<clips, blind>>
    <2>1. PICK r, s : r = req[t] /\ s = [r EXCEPT !.op = "mark"]
      OBVIOUS
    <2>2. ThreadOK(r) /\ r.op = "undo"
      BY <1>1, <2>1, ThreadFacts
    <2>3. PICK x : x \in ClipRow
      BY <2>2, EditFacts DEF ThreadOK, EditOK, EditOps
    <2>4. ThreadOK(s) /\ s.op \notin NewOps
      <3>1. r.op \in EditOps /\ "mark" \in EditOps /\ ("mark" \in {"undo", "mark"} <=> r.op \in {"undo", "mark"})
        BY <2>2 DEF EditOps
      <3> QED  BY ONLY <2>1, <2>2, <2>3, <3>1, NextOp
    <2>5. UNCHANGED <<world, rows, changes, crashes, blind>>
      BY <1>1, <1>2 DEF world
    <2> QED  BY <1>2, <2>1, <2>4, <2>5, GoStep, WorldFacts
  <1>3. CASE Matches(t) /\ Writes(t) /\ Goes(t, [req[t] EXCEPT !.op = "mark"])
    BY <1>1, <1>3, WriteStep DEF EditOps
  <1>4. CASE Ends(t) /\ UNCHANGED <<clips, blind>>
    <2>1. UNCHANGED <<world, rows, changes, crashes, blind>>
      BY <1>1, <1>4 DEF world
    <2> QED  BY <1>4, <2>1, EndStep
  <1> QED  BY <1>2, <1>3, <1>4 DEF UndoWrites

LEMMA PersistVoiceoverOK ==
  ASSUME TimelineInv, NEW i \in DOMAIN rows, PersistVoiceover(i)
  PROVE  TimelineInv'
  <1>1. PICK row \in GenerationRow : row = rows[i]
    BY WorldFacts
  <1>2. row.c \in Clips
    BY <1>1 DEF PersistVoiceover, GenerationRow
  <1>3. PICK c \in Clips : c = row.c
    BY <1>2
  <1>4. PICK n \in Nat : n = voices[c] + 1
    BY WorldFacts
  <1>5. PICK x \in ClipRow : x = clips[c]
    BY WorldFacts
  <1>6. PICK y : y = [x EXCEPT !.asset = n]
    OBVIOUS
  <1>7. y \in ClipRow /\ y.life = x.life /\ y.track = x.track /\ y.text = x.text /\ y.rev = x.rev
    BY <1>6 DEF ClipRow, AllAssets
  <1>8. clips' = [clips EXCEPT ![c] = y] \/ clips' = clips
    BY <1>1, <1>3, <1>4, <1>5, <1>6 DEF PersistVoiceover
  <1>9. /\ clips' \in [Clips -> ClipRow]
        /\ \A d \in Clips : /\ clips'[d].life = clips[d].life /\ clips'[d].track = clips[d].track
                            /\ clips'[d].text = clips[d].text /\ clips'[d].rev = clips[d].rev
    <2>1. CASE clips' = clips
      BY <2>1, WorldFacts
    <2>2. CASE clips' = [clips EXCEPT ![c] = y]
      BY <1>5, <1>7, <2>2, WorldFacts
    <2> QED  BY <1>8, <2>1, <2>2
  <1>10. /\ UNCHANGED <<created, status, tracks, media, finals, changes, req, ops, crashes, blind>>
         /\ voices' = [voices EXCEPT ![c] = n] /\ Becomes(i, "completed")
    BY <1>1, <1>3, <1>4 DEF PersistVoiceover
  <1>11. WorldTypes'
    BY <1>9, <1>10 DEF TimelineInv, WorldTypes
  <1>12. RowTypes'
    BY <1>10, BecomesTypes DEF TimelineInv, RowTypes
  <1>13. ClipsHaveTracks'
    BY <1>9, <1>10 DEF TimelineInv, ClipsHaveTracks, IsLive
  <1>14. \A d \in Clips : Evolves(d) /\ (clips[d].life = "none" => clips'[d].life = "none")
    BY <1>9 DEF Evolves
  <1>15. ThreadsOK'
    BY <1>9, <1>10, <1>14, ClipsMove
  <1> QED  BY <1>11, <1>12, <1>13, <1>15 DEF TimelineInv

-----------------------------------------------------------------------------
(* The specification.                                                      *)

LEMMA InitOK == TimelineInit => TimelineInv
  <1> SUFFICES ASSUME TimelineInit PROVE TimelineInv
    OBVIOUS
  <1>1. NoClip \in ClipRow /\ NoClip.life = "none"
    BY DEF NoClip, ClipRow, Tracks, AllTexts, AllAssets
  <1>2. PICK x \in ClipRow : x = NoClip /\ x.life = "none"
    BY <1>1
  <1>3. clips = [c \in Clips |-> x]
    BY <1>2 DEF TimelineInit
  <1>4. WorldTypes
    BY <1>3 DEF TimelineInit, WorldTypes
  <1>5. RowTypes
    BY DEF TimelineInit, RowTypes
  <1>6. ClipsHaveTracks
    BY <1>2, <1>3 DEF ClipsHaveTracks, IsLive
  <1>7. ThreadsOK
    BY IdleThread DEF TimelineInit, ThreadsOK, Exclusive
  <1> QED  BY <1>4, <1>5, <1>6, <1>7 DEF TimelineInv

StepsOf(t) ==
  \/ \E k \in Tracks : DeleteTrackReads(t, k)
  \/ \E c \in Clips, k \in Tracks, a \in Media, x \in Texts \cup {NoText} : AddClipReads(t, c, k, x, a)
  \/ \E c \in Clips, f \in Fields, g \in BOOLEAN : \E v \in ValuesOf(f, c) : ClientEdits(t, c, f, v, g)
  \/ \E c \in Clips : ArrangeReads(t, c)
  \/ \E a \in media : ArrangeCommits(t, a)
  \/ \E i \in DOMAIN changes, force \in BOOLEAN : UndoReads(t, i, force)
  \/ DeleteTrackCommits(t) \/ AddClipCommits(t)
  \/ UpdateReads(t) \/ UpdateCommits(t) \/ RecordsChangeSet(t)
  \/ UndoWrites(t) \/ UndoMarks(t)
  \/ BatchReads(t) \/ BatchQueues(t)

LEMMA StepsOfOK ==
  ASSUME TimelineInv, NEW t \in Threads, StepsOf(t)
  PROVE  TimelineInv'
  <1>1. CASE \E c \in Clips, k \in Tracks, a \in Media, x \in Texts \cup {NoText} : AddClipReads(t, c, k, x, a)
    BY <1>1, AddClipReadsOK DEF AllTexts
  <1>2. CASE \E c \in Clips, f \in Fields, g \in BOOLEAN : \E v \in ValuesOf(f, c) : ClientEdits(t, c, f, v, g)
    BY <1>2, ClientEditsOK
  <1>3. CASE \E i \in DOMAIN changes, force \in BOOLEAN : UndoReads(t, i, force)
    BY <1>3, UndoReadsOK
  <1>4. CASE \/ \E k \in Tracks : DeleteTrackReads(t, k)
             \/ \E c \in Clips : ArrangeReads(t, c)
             \/ \E a \in media : ArrangeCommits(t, a)
    BY <1>4, DeleteTrackReadsOK, ArrangeReadsOK, ArrangeCommitsOK
  <1>5. CASE \/ DeleteTrackCommits(t) \/ AddClipCommits(t)
             \/ UpdateReads(t) \/ UpdateCommits(t) \/ RecordsChangeSet(t)
             \/ UndoWrites(t) \/ UndoMarks(t)
             \/ BatchReads(t) \/ BatchQueues(t)
    BY <1>5, DeleteTrackCommitsOK, AddClipCommitsOK, UpdateReadsOK, UpdateCommitsOK, RecordsChangeSetOK,
       UndoWritesOK, UndoMarksOK, BatchReadsOK, BatchQueuesOK
  <1> QED  BY <1>1, <1>2, <1>3, <1>4, <1>5 DEF StepsOf

LEMMA NextOK == TimelineInv /\ [TimelineNext]_timelineVars => TimelineInv'
  <1> SUFFICES ASSUME TimelineInv, [TimelineNext]_timelineVars PROVE TimelineInv'
    OBVIOUS
  <1>1. CASE CreateTimeline \/ UpdateTimeline \/ CreateRender \/ Crash
    BY <1>1, CreateTimelineOK, UpdateTimelineOK, CreateRenderOK, CrashOK
  <1>2. CASE (\E k \in Tracks : AddTrack(k)) \/ (\E a \in Media : ArchiveAsset(a))
    BY <1>2, AddTrackOK, ArchiveAssetOK
  <1>3. CASE \E c \in Clips : DeleteClip(c) \/ CreateVoiceover(c)
    BY <1>3, DeleteClipOK, CreateVoiceoverOK
  <1>4. CASE \E i \in DOMAIN rows : WorkerTakes(i) \/ PersistVoiceover(i) \/ PersistRender(i) \/ RowStops(i)
    BY <1>4, WorkerTakesOK, PersistVoiceoverOK, PersistRenderOK, RowStopsOK
  <1>5. CASE \E t \in Threads : StepsOf(t)
    BY <1>5, StepsOfOK
  <1>6. CASE UNCHANGED timelineVars
    <2>1. UNCHANGED <<world, rows, changes, req, ops, crashes, blind>> /\ tracks \subseteq tracks'
      BY <1>6 DEF timelineVars, world
    <2>2. WorldTypes'
      BY <2>1 DEF TimelineInv, WorldTypes, world
    <2>3. RowTypes'
      BY <2>1 DEF TimelineInv, RowTypes
    <2> QED  BY <2>1, <2>2, <2>3, WorldStep DEF world
  <1> QED  BY <1>1, <1>2, <1>3, <1>4, <1>5, <1>6 DEF TimelineNext, StepsOf

\* The inductive invariant: tracks and clips, and what every request that is under
\* way knows of the clips it is going to write.
THEOREM TimelineInvariant == TimelineSpec => []TimelineInv
  BY InitOK, NextOK, PTL DEF TimelineSpec

\* Every variable has its type: in particular an edit writes values of the field
\* it names.
THEOREM TimelineTypeCorrect == TimelineSpec => []TypeOK
  <1>1. TimelineInv => TypeOK
    BY DEF TimelineInv, TypeOK, ThreadsOK, ThreadOK
  <1> QED  BY <1>1, TimelineInvariant, PTL

\* A clip stands on a track there is, whatever moves, adds and arranges clips while
\* delete_track deletes what it has listed: the foreign key takes the rest.
THEOREM EveryClipHasItsTrack == TimelineSpec => []ClipsHaveTracks
  <1>1. TimelineInv => ClipsHaveTracks
    BY DEF TimelineInv
  <1> QED  BY <1>1, TimelineInvariant, PTL

\* A thread changes a clip by the write of its edit alone.
LEMMA WhoReplaces ==
  ASSUME TimelineInv, [TimelineNext]_timelineVars, NEW t \in Threads, Replaces(t)
  PROVE  Matches(t)
  <1>1. PICK r : r = req[t]
    OBVIOUS
  <1>2. r.op \in {"write", "undo"} /\ req'[t] # req[t] /\ clips' # clips
    BY <1>1 DEF Replaces
  <1>3. r # Idle
    BY <1>2, IdleOK
  <1>4. DOMAIN req = Threads
    BY DEF TimelineInv, ThreadsOK
  <1>5. ASSUME NEW u \in Threads, NEW s, req' = [req EXCEPT ![u] = s] PROVE u = t
    BY <1>2, <1>4, <1>5
  <1>6. CASE CreateTimeline \/ UpdateTimeline \/ CreateRender \/ Crash
    BY <1>2, <1>6 DEF CreateTimeline, UpdateTimeline, CreateRender, Crash, world
  <1>7. CASE (\E k \in Tracks : AddTrack(k)) \/ (\E a \in Media : ArchiveAsset(a))
    BY <1>2, <1>7 DEF AddTrack, ArchiveAsset
  <1>8. CASE \E c \in Clips : DeleteClip(c) \/ CreateVoiceover(c)
    BY <1>2, <1>8 DEF DeleteClip, CreateVoiceover
  <1>9. CASE \E i \in DOMAIN rows : WorkerTakes(i) \/ PersistVoiceover(i) \/ PersistRender(i) \/ RowStops(i)
    BY <1>2, <1>9 DEF WorkerTakes, PersistVoiceover, PersistRender, RowStops
  <1>10. CASE UNCHANGED timelineVars
    BY <1>2, <1>10 DEF timelineVars
  <1>11. CASE \E u \in Threads : StepsOf(u)
    <2>1. PICK u \in Threads : StepsOf(u)
      BY <1>11
    <2>2. CASE \/ \E k \in Tracks : DeleteTrackReads(u, k)
               \/ \E c \in Clips, k \in Tracks, a \in Media, x \in Texts \cup {NoText} : AddClipReads(u, c, k, x, a)
               \/ \E c \in Clips, f \in Fields, g \in BOOLEAN : \E v \in ValuesOf(f, c) : ClientEdits(u, c, f, v, g)
               \/ \E c \in Clips : ArrangeReads(u, c)
               \/ \E i \in DOMAIN changes, force \in BOOLEAN : UndoReads(u, i, force)
               \/ UpdateReads(u) \/ RecordsChangeSet(u) \/ UndoMarks(u) \/ BatchReads(u) \/ BatchQueues(u)
      <3>1. clips' = clips
        BY <2>2 DEF DeleteTrackReads, AddClipReads, ClientEdits, ArrangeReads, UndoReads, UpdateReads,
                    RecordsChangeSet, UndoMarks, BatchReads, BatchQueues, world
      <3> QED  BY <1>2, <3>1
    <2>3. CASE (\E a \in media : ArrangeCommits(u, a)) \/ DeleteTrackCommits(u) \/ AddClipCommits(u)
      <3>1. Ends(u) /\ req[u].op \notin {"write", "undo"}
        BY <2>3 DEF ArrangeCommits, DeleteTrackCommits, AddClipCommits, At
      <3>2. u = t
        BY <1>5, <3>1 DEF Ends, Goes
      <3> QED  BY <1>1, <1>2, <3>1, <3>2
    <2>4. CASE UpdateCommits(u) \/ UndoWrites(u)
      <3>1. Matches(u) \/ UNCHANGED clips
        BY <2>4 DEF UpdateCommits, UndoWrites
      <3>2. \E s : req' = [req EXCEPT ![u] = s]
        BY <2>4 DEF UpdateCommits, UndoWrites, Ends, Goes
      <3> QED  BY <1>2, <1>5, <3>1, <3>2
    <2> QED  BY <2>1, <2>2, <2>3, <2>4 DEF StepsOf
  <1> QED  BY <1>6, <1>7, <1>8, <1>9, <1>10, <1>11 DEF TimelineNext, StepsOf

LEMMA SeesWhatItReplaces ==
  ASSUME TimelineInv, [TimelineNext]_timelineVars, NEW t \in Threads, Replaces(t),
         req[t].guarded, req[t].c \notin blind
  PROVE  clips[req[t].c][req[t].field] = req[t].seen[req[t].field]
  <1>1. PICK r : r = req[t]
    OBVIOUS
  <1>2. ThreadOK(r) /\ r.op \in EditOps
    BY <1>1, ThreadFacts DEF Replaces, EditOps
  <1>3. Matches(t)
    BY WhoReplaces
  <1>4. IsLive(r.c) /\ clips[r.c].rev = r.seen.rev
    BY <1>1, <1>3 DEF Matches
  <1>5. r.seen.text = clips[r.c].text /\ r.seen.track = clips[r.c].track
    BY <1>1, <1>2, <1>4 DEF ThreadOK, Knows
  <1>6. r.field \in {"text", "track"}
    BY <1>1, <1>2, EditFacts DEF ThreadOK, EditOK, Fields
  <1>7. CASE r.field = "text"
    BY <1>1, <1>5, <1>7
  <1>8. CASE r.field = "track"
    BY <1>1, <1>5, <1>8
  <1> QED  BY <1>6, <1>7, <1>8

\* An edit with a revision, and an undo, replace the value their client has seen
\* (update_clip: "never a silent overwrite"), unless an edit without a revision has
\* given a revision out twice: the revision names one text and one track.
THEOREM NoSilentOverwrite == TimelineSpec => GuardedEditsSee
  <1>1. TimelineInv /\ [TimelineNext]_timelineVars =>
          [\A t \in Threads : Replaces(t) =>
             LET r == req[t] IN
             r.guarded /\ r.c \notin blind => clips[r.c][r.field] = r.seen[r.field]]_timelineVars
    BY SeesWhatItReplaces
  <1> QED  BY <1>1, TimelineInvariant, PTL DEF TimelineSpec, GuardedEditsSee

==============================================================================
