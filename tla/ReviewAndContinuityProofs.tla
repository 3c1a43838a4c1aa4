--------------------- MODULE ReviewAndContinuityProofs ---------------------
(***************************************************************************)
(* Proofs about AgentReview, for any proposals, patches, values, edits of  *)
(* users, request threads and bounds, and about ContinuityChain, for any   *)
(* shots, facts, versions, request threads and bounds.                     *)
(*                                                                         *)
(* ContinuityChain: either requests have met, and then the rows and the    *)
(* images are in doubt; or nothing is under way; or one request has the    *)
(* scene to itself, and what it is going to write or to mark is all that   *)
(* can be out of date.                                                     *)
(***************************************************************************)
EXTENDS AgentReview, ContinuityChain, FiniteSetTheorems, TLAPS

USE ReviewAssumption

Patches   == [Fields -> Values \cup {NoValue}]
Statuses  == {"none", Pending, "approved"} \cup Decided

ShotRecords == [rev : Nat, live : BOOLEAN, fields : Patches]

\* What a thread may be doing, with what it has read.
Deciding  == [op : {"expire", "conflict", "reject"}, p : Proposals]
Others    == [op : {"apply", "record"}, p : Proposals]
Editing   == [op : {"apply", "record"}, p : Proposals, rev : Nat, before : Patches]
Following == [op : {"mark fixed", "look for pending", "check"}]
Undoing   == [op : {"undo", "undone"}, i : Nat, rev : Nat, force : BOOLEAN]
Calls     == {NoCall} \cup Deciding \cup Others \cup Editing \cup Following \cup Undoing

ChangeSets == [of : Proposals \cup Nat, kind : {"patch", "lifecycle", "undo"},
               before : Patches, after : Patches, undone : BOOLEAN]

Warnings == {"none", "open", "acknowledged", "fixed"}

Types ==
  /\ tool \in [Proposals -> Tools]
  /\ shot \in ShotRecords
  /\ proposal \in [Proposals -> [status : Statuses, base : Nat]]
  /\ changeSets \in Seq(ChangeSets)
  /\ warning \in Warnings
  /\ call \in [Reviewers -> Calls]

\* A thread that decides on a proposal or has applied it.
On(t, p)      == call[t].op \in {"expire", "conflict", "reject", "apply", "record"} /\ call[t].p = p
Records(t, p) == call[t].op = "record" /\ call[t].p = p
IsOf(i, p)    == i \in DOMAIN changeSets /\ changeSets[i].of = p

\* A thread acts on what was proposed, an undo on a change set there is.
Proposed(p) == proposal[p].status # "none"
CallsSound ==
  /\ \A t \in Reviewers, p \in Proposals : On(t, p) => Proposed(p)
  /\ \A t \in Reviewers : call[t].op \in {"undo", "undone"} => call[t].i \in DOMAIN changeSets
  /\ \A i \in DOMAIN changeSets : changeSets[i].of \in Proposals => Proposed(changeSets[i].of)

\* The revision that was reviewed is the one the thread will ask for, and the shot
\* never goes back behind it.
RevisionsSound ==
  /\ \A p \in Proposals : Proposed(p) => proposal[p].base <= shot.rev
  /\ \A t \in Reviewers, p \in Edits :
       call[t].op \in {"apply", "record"} /\ call[t].p = p =>
         call[t] \in Editing /\ call[t].rev = proposal[p].base
  /\ \A t \in Reviewers : call[t].op \in {"undo", "undone"} => call[t].rev <= shot.rev

\* An edit that changes something is being recorded by one thread, or is recorded in
\* one change set, and then the shot has left the revision that was reviewed.
Effective(p) == p \in Edits /\ ~IsEmpty(Patch[p])
Once ==
  /\ \A t \in Reviewers, p \in Proposals :
       Effective(p) /\ Records(t, p) => proposal[p].base < shot.rev
  /\ \A i \in DOMAIN changeSets, p \in Proposals :
       p \in Edits /\ IsOf(i, p) => Effective(p) /\ proposal[p].base < shot.rev
  /\ \A t, u \in Reviewers, p \in Proposals :
       Effective(p) /\ Records(t, p) /\ Records(u, p) => t = u
  /\ \A t \in Reviewers, i \in DOMAIN changeSets, p \in Proposals :
       Effective(p) /\ Records(t, p) => ~IsOf(i, p)
  /\ \A i, j \in DOMAIN changeSets, p \in Proposals :
       p \in Edits /\ IsOf(i, p) /\ IsOf(j, p) => i = j

\* An undo that was checked and finds the revision it was checked at finds the values
\* it was checked with, but for leftovers.
UndoSound ==
  \A t \in Reviewers :
    /\ call[t].op = "undo" /\ ~call[t].force /\ changeSets[call[t].i].kind = "patch"
    /\ call[t].rev = shot.rev
    => CarriesUpToLeftovers(changeSets[call[t].i].after)

\* A fix that was applied: it has a change set, or nothing to change.
FixWasApplied ==
  \E p \in Proposals : tool[p] = "continuity_fix" /\
    (IsEmpty(Patch[p]) \/ \E i \in DOMAIN changeSets : changeSets[i].of = p)
FixSound == warning = "fixed" \/ (\E t \in Reviewers : call[t].op = "mark fixed") => FixWasApplied

ReviewInv == Types /\ CallsSound /\ RevisionsSound /\ Once /\ UndoSound /\ FixSound

-----------------------------------------------------------------------------
(* Types.                                                                  *)

\* Merging a patch into the fields gives fields.
LEMMA PatchedType ==
  ASSUME NEW fields \in Patches, NEW patch \in Patches
  PROVE  Patched(fields, patch) \in Patches
  BY DEF Patched, Patches

\* Changes of one column of the shot.
LEMMA WithLive ==
  ASSUME NEW s \in ShotRecords, NEW l \in BOOLEAN
  PROVE  /\ [s EXCEPT !.live = l] \in ShotRecords
         /\ [s EXCEPT !.live = l].rev = s.rev
         /\ [s EXCEPT !.live = l].fields = s.fields
  <1> USE DEF ShotRecords
  <1>1. [s EXCEPT !.live = l] \in ShotRecords
    OBVIOUS
  <1>2. [s EXCEPT !.live = l].rev = s.rev
    OBVIOUS
  <1>3. [s EXCEPT !.live = l].fields = s.fields
    OBVIOUS
  <1> QED  BY ONLY <1>1, <1>2, <1>3, Zenon

\* The same for the fields.
LEMMA WithFields ==
  ASSUME NEW s \in ShotRecords, NEW f \in Patches
  PROVE  /\ [s EXCEPT !.fields = f] \in ShotRecords
         /\ [s EXCEPT !.fields = f].rev = s.rev
         /\ [s EXCEPT !.fields = f].live = s.live
         /\ [s EXCEPT !.fields = f].fields = f
  <1> USE DEF ShotRecords
  <1>1. [s EXCEPT !.fields = f] \in ShotRecords
    OBVIOUS
  <1>2. [s EXCEPT !.fields = f].rev = s.rev
    OBVIOUS
  <1>3. [s EXCEPT !.fields = f].live = s.live
    OBVIOUS
  <1>4. [s EXCEPT !.fields = f].fields = f
    OBVIOUS
  <1> QED  BY ONLY <1>1, <1>2, <1>3, <1>4, Zenon

\* And for the revision.
LEMMA WithRevision ==
  ASSUME NEW s \in ShotRecords
  PROVE  /\ [s EXCEPT !.rev = s.rev + 1] \in ShotRecords
         /\ [s EXCEPT !.rev = s.rev + 1].rev = s.rev + 1
         /\ [s EXCEPT !.rev = s.rev + 1].live = s.live
  <1> USE DEF ShotRecords
  <1>1. [s EXCEPT !.rev = s.rev + 1] \in ShotRecords
    OBVIOUS
  <1>2. [s EXCEPT !.rev = s.rev + 1].rev = s.rev + 1
    OBVIOUS
  <1>3. [s EXCEPT !.rev = s.rev + 1].live = s.live
    OBVIOUS
  <1> QED  BY ONLY <1>1, <1>2, <1>3, Zenon

\* What an update, and a refused one, make of the shot.
LEMMA ShotTypes ==
  ASSUME shot \in ShotRecords, NEW patch \in Patches
  PROVE  /\ Updated(patch) \in ShotRecords
         /\ Updated(patch).rev = shot.rev + 1
         /\ Updated(patch).live = shot.live
         /\ Leftover(patch) \in ShotRecords
         /\ Leftover(patch).rev = shot.rev
         /\ Leftover(patch).live = shot.live
         /\ Leftover(patch).fields["action"] = shot.fields["action"]
         /\ Leftover(patch).fields["image_prompt"] \in {shot.fields["image_prompt"], patch["image_prompt"]}
  <1>0. shot.fields \in Patches
    BY DEF ShotRecords
  <1>1. Patched(shot.fields, patch) \in Patches
    BY <1>0, PatchedType
  <1>2. PICK v : v = IF patch["image_prompt"] = NoValue THEN shot.fields["image_prompt"] ELSE patch["image_prompt"]
    OBVIOUS
  <1>3. v \in Values \cup {NoValue}
    BY <1>0, <1>2 DEF Patches, Fields
  <1>4. [shot.fields EXCEPT !["image_prompt"] = v] \in Patches
    BY <1>0, <1>3 DEF Patches, Fields
  <1>5. Leftover(patch) = [shot EXCEPT !.fields = [shot.fields EXCEPT !["image_prompt"] = v]]
    BY <1>2, Zenon DEF Leftover
  <1>6. Updated(patch) = [[shot EXCEPT !.rev = shot.rev + 1] EXCEPT !.fields = Patched(shot.fields, patch)]
    BY DEF Updated
  <1>7. /\ Leftover(patch) \in ShotRecords
        /\ Leftover(patch).rev = shot.rev
        /\ Leftover(patch).live = shot.live
        /\ Leftover(patch).fields = [shot.fields EXCEPT !["image_prompt"] = v]
    <2>1. PICK f \in Patches : f = [shot.fields EXCEPT !["image_prompt"] = v]
      BY <1>4
    <2>2. Leftover(patch) = [shot EXCEPT !.fields = f]
      BY <1>5, <2>1
    <2> QED  BY <2>1, <2>2, WithFields
  <1>8. /\ Updated(patch) \in ShotRecords
        /\ Updated(patch).rev = shot.rev + 1
        /\ Updated(patch).live = shot.live
    <2> DEFINE next == [shot EXCEPT !.rev = shot.rev + 1]
    <2>1. next \in ShotRecords /\ next.rev = shot.rev + 1 /\ next.live = shot.live
      BY WithRevision, Zenon
    <2>2. PICK f \in Patches : f = Patched(shot.fields, patch)
      BY <1>1
    <2>3. Updated(patch) = [next EXCEPT !.fields = f]
      BY <1>6, <2>2
    <2> HIDE DEF next
    <2> QED  BY <2>1, <2>3, WithFields
  <1>9. /\ [shot.fields EXCEPT !["image_prompt"] = v]["action"] = shot.fields["action"]
        /\ [shot.fields EXCEPT !["image_prompt"] = v]["image_prompt"] = v
    BY <1>0 DEF Patches, Fields
  <1> QED  BY <1>2, <1>7, <1>8, <1>9

\* What a thread must hold at each point of its call.
LEMMA CallShapes ==
  ASSUME Types, NEW t \in Reviewers
  PROVE  /\ call[t].op \in {"expire", "conflict", "reject", "apply", "record"} => call[t].p \in Proposals
         /\ call[t].op \in {"undo", "undone"} => call[t] \in Undoing
         /\ call[t].op \in {"apply", "record"} => call[t] \in Others \cup Editing
  <1>1. call[t] \in Calls
    BY DEF Types
  <1>2. CASE call[t] \in {NoCall} \cup Following
    <2>1. CASE call[t] = NoCall
      BY <2>1 DEF NoCall
    <2>2. CASE call[t] \in Following
      BY <2>2 DEF Following
    <2> QED  BY <1>2, <2>1, <2>2
  <1>3. CASE call[t] \in Deciding
    BY <1>3 DEF Deciding
  <1>4. CASE call[t] \in Others \cup Editing
    BY <1>4 DEF Others, Editing
  <1>5. CASE call[t] \in Undoing
    BY <1>5 DEF Undoing
  <1> QED  BY <1>1, <1>2, <1>3, <1>4, <1>5 DEF Calls

\* A thread that goes on from its change to the record of it.
LEMMA GoesOnToRecord ==
  ASSUME Types, NEW t \in Reviewers, call[t].op = "apply",
         call' = [call EXCEPT ![t].op = "record"]
  PROVE  /\ call' \in [Reviewers -> Calls]
         /\ call'[t] = [call[t] EXCEPT !.op = "record"]
         /\ call'[t].op = "record" /\ call'[t].p = call[t].p
         /\ \A u \in Reviewers \ {t} : call'[u] = call[u]
  <1>1. call[t] \in Others \cup Editing
    BY CallShapes
  <1>2. [call[t] EXCEPT !.op = "record"] \in Others \cup Editing
    BY <1>1 DEF Others, Editing
  <1>3. call' = [call EXCEPT ![t] = [call[t] EXCEPT !.op = "record"]]
    OBVIOUS
  <1>4. [call[t] EXCEPT !.op = "record"].op = "record" /\ [call[t] EXCEPT !.op = "record"].p = call[t].p
    BY <1>1 DEF Others, Editing
  <1> QED  BY <1>2, <1>3, <1>4 DEF Types, Calls

\* The first state has the types.
LEMMA TypesInit ==
  ReviewInit => Types
  <1> SUFFICES ASSUME ReviewInit PROVE Types
    OBVIOUS
  <1>1. tool \in [Proposals -> Tools]
    BY DEF ReviewInit
  <1>2. shot \in ShotRecords
    <2>1. PICK v \in Initials : shot = [rev |-> 1, live |-> TRUE, fields |-> [f \in Fields |-> v]]
      BY DEF ReviewInit
    <2>2. v \in Values \cup {NoValue}
      OBVIOUS
    <2>3. [f \in Fields |-> v] \in Patches
      BY <2>2 DEF Patches
    <2> QED  BY <2>1, <2>3 DEF ShotRecords
  <1>3. proposal \in [Proposals -> [status : Statuses, base : Nat]]
    BY DEF ReviewInit, Statuses
  <1>4. call \in [Reviewers -> Calls]
    BY DEF ReviewInit, Calls
  <1>5. changeSets = <<>> /\ warning \in Warnings
    BY DEF ReviewInit, Warnings
  <1> QED  BY <1>1, <1>2, <1>3, <1>4, <1>5 DEF Types

\* What SetStatus does.
LEMMA StatusTypes ==
  ASSUME Types, NEW p \in Proposals, NEW status \in Statuses, SetStatus(p, status)
  PROVE  /\ proposal' \in [Proposals -> [status : Statuses, base : Nat]]
         /\ \A q \in Proposals : proposal'[q].base = proposal[q].base
         /\ \A q \in Proposals \ {p} : proposal'[q] = proposal[q]
         /\ proposal'[p].status = status
  BY DEF Types, SetStatus

\* A thread that begins or ends.
LEMMA BeginTypes ==
  ASSUME Types, NEW t \in Reviewers, NEW c \in Calls, Begin(t, c) \/ call' = [call EXCEPT ![t] = c]
  PROVE  /\ call' \in [Reviewers -> Calls]
         /\ call'[t] = c
         /\ \A u \in Reviewers \ {t} : call'[u] = call[u]
  BY DEF Types, Begin

\* A thread that ends.
LEMMA DoneTypes ==
  ASSUME Types, NEW t \in Reviewers, Done(t)
  PROVE  /\ call' \in [Reviewers -> Calls]
         /\ call'[t] = NoCall
         /\ \A u \in Reviewers \ {t} : call'[u] = call[u]
  BY DEF Types, Done, Calls

\* What is recorded, and what it adds to the table.
LEMMA ChangeSetType ==
  ASSUME Types, NEW t \in Reviewers, NEW p \in Proposals, p \in Edits => call[t] \in Editing
  PROVE  /\ ChangeSet(p, t) \in ChangeSets
         /\ ChangeSet(p, t).of = p
  <1> DEFINE after == IF p \in Edits THEN Patch[p] ELSE NoPatch
             before == [f \in Fields |-> IF after[f] = NoValue THEN NoValue ELSE call[t].before[f]]
  <1>1. after \in Patches
    BY DEF Patches, NoPatch
  <1>2. before \in Patches
    <2>1. ASSUME NEW f \in Fields, after[f] # NoValue
          PROVE  call[t].before[f] \in Values \cup {NoValue}
      <3>1. p \in Edits
        BY <2>1 DEF NoPatch
      <3>2. call[t].before \in Patches
        BY <3>1 DEF Editing
      <3> QED  BY <3>2 DEF Patches
    <2> QED  BY <2>1 DEF Patches
  <1>3. ChangeSet(p, t) = [of |-> p, kind |-> IF p \in Edits THEN "patch" ELSE "lifecycle",
                           before |-> before, after |-> after, undone |-> FALSE]
    BY DEF ChangeSet
  <1> HIDE DEF after, before
  <1> QED  BY <1>1, <1>2, <1>3 DEF ChangeSets

\* A change set at the end of the table.
LEMMA AppendTypes ==
  ASSUME Types, NEW c \in ChangeSets, changeSets' = Append(changeSets, c)
  PROVE  /\ changeSets' \in Seq(ChangeSets)
         /\ DOMAIN changeSets' = DOMAIN changeSets \cup {Len(changeSets) + 1}
         /\ \A i \in DOMAIN changeSets : changeSets'[i] = changeSets[i]
         /\ changeSets'[Len(changeSets) + 1] = c
         /\ Len(changeSets) + 1 \notin DOMAIN changeSets
  BY DEF Types

\* UndoRecords marks one change set and adds another, which is of no proposal.
LEMMA UndoRecordTypes ==
  ASSUME Types, CallsSound, NEW t \in Reviewers, UndoRecords(t)
  PROVE  /\ changeSets' \in Seq(ChangeSets)
         /\ DOMAIN changeSets' = DOMAIN changeSets \cup {Len(changeSets) + 1}
         /\ \A i \in DOMAIN changeSets : /\ changeSets'[i].of = changeSets[i].of
                                         /\ changeSets'[i].kind = changeSets[i].kind
                                         /\ changeSets'[i].after = changeSets[i].after
         /\ changeSets'[Len(changeSets) + 1].of \notin Proposals
         /\ Len(changeSets) + 1 \notin DOMAIN changeSets
  <1> DEFINE i == call[t].i
             marked == [changeSets EXCEPT ![i].undone = TRUE]
             c == [of |-> i, kind |-> "undo", before |-> changeSets[i].after,
                   after |-> changeSets[i].before, undone |-> FALSE]
  <1>1. i \in Nat /\ i \in DOMAIN changeSets
    BY CallShapes DEF UndoRecords, CallsSound, Undoing
  <1>2. changeSets' = Append(marked, c)
    BY DEF UndoRecords
  <1>3. changeSets[i] \in ChangeSets
    BY <1>1 DEF Types
  <1>4. c \in ChangeSets /\ c.of \notin Proposals
    BY <1>1, <1>3 DEF ChangeSets
  <1>5. [changeSets[i] EXCEPT !.undone = TRUE] \in ChangeSets
    BY <1>3 DEF ChangeSets
  <1>6. marked = [changeSets EXCEPT ![i] = [changeSets[i] EXCEPT !.undone = TRUE]]
    OBVIOUS
  <1>7. marked \in Seq(ChangeSets) /\ Len(marked) = Len(changeSets)
    BY <1>1, <1>5, <1>6 DEF Types
  <1>8. \A j \in DOMAIN changeSets : /\ marked[j].of = changeSets[j].of
                                     /\ marked[j].kind = changeSets[j].kind
                                     /\ marked[j].after = changeSets[j].after
    BY <1>1, <1>3, <1>6 DEF Types, ChangeSets
  <1> HIDE DEF marked, c
  <1>9. DOMAIN marked = DOMAIN changeSets /\ Len(marked) \in Nat
    BY <1>7 DEF Types
  <1>10. /\ changeSets' \in Seq(ChangeSets)
         /\ DOMAIN changeSets' = DOMAIN marked \cup {Len(marked) + 1}
         /\ \A j \in DOMAIN marked : changeSets'[j] = marked[j]
         /\ changeSets'[Len(marked) + 1] = c
         /\ Len(marked) + 1 \notin DOMAIN marked
    BY ONLY <1>2, <1>4, <1>7
  <1> QED  BY ONLY <1>4, <1>7, <1>8, <1>9, <1>10

\* Steps of one thread.
ThreadStep(t) ==
  \/ \E p \in Proposals : ApproveReads(t, p) \/ RejectReads(t, p) \/ SweepReads(t, p)
  \/ \E i \in DOMAIN changeSets, force \in BOOLEAN : UndoReads(t, i, force)
  \/ ApproveConflicts(t) \/ ApproveEdits(t) \/ ApproveDeletes(t)
  \/ ApproveGenerates(t) \/ ApproveRecords(t) \/ MarksFixed(t)
  \/ RejectCommits(t) \/ Expires(t) \/ FailsRun(t)
  \/ UndoApplies(t) \/ UndoRecords(t) \/ RequestDies(t)
  \/ CheckReads(t) \/ CheckCommits(t)

\* The next-state relation, by what acts.
LEMMA NextCases ==
  ReviewNext => /\ \/ UserEdits \/ UserDeletesOrRestores \/ Acknowledges
                   \/ \E p \in Proposals : Propose(p) \/ TimePasses(p)
                   \/ \E t \in Reviewers : ThreadStep(t)
                /\ UNCHANGED tool
  BY Zenon DEF ReviewNext, ReviewStep, ThreadStep, ProposeEdit, ProposeFix, ProposeDeletion,
               ProposeGeneration

\* The shot keeps its type, and its revision never goes back.
LEMMA ShotStep ==
  ASSUME Types, CallsSound, ReviewNext
  PROVE  shot' \in ShotRecords /\ shot'.rev >= shot.rev
  <1> USE DEF Types
  <1>0. shot \in ShotRecords /\ shot.rev \in Nat
    BY DEF ShotRecords
  <1>1. CASE UserEdits
    <2>1. PICK patch \in UserPatches : shot' = Updated(patch)
      BY <1>1 DEF UserEdits
    <2>2. patch \in Patches
      BY DEF Patches
    <2> QED  BY <1>0, <2>1, <2>2, ShotTypes
  <1>2. CASE UserDeletesOrRestores
    <2>1. shot' = [shot EXCEPT !.live = ~shot.live]
      BY <1>2 DEF UserDeletesOrRestores
    <2>2. PICK b \in BOOLEAN : shot' = [shot EXCEPT !.live = b]
      <3>1. CASE shot.live
        BY <2>1, <3>1
      <3>2. CASE ~shot.live
        BY <2>1, <3>2
      <3> QED  BY <3>1, <3>2
    <2>3. shot' \in ShotRecords /\ shot'.rev = shot.rev
      BY <1>0, <2>2, WithLive
    <2> QED  BY <1>0, <2>3
  <1>3. ASSUME NEW p \in Proposals, Propose(p) \/ TimePasses(p)
        PROVE  shot' = shot
    BY <1>3 DEF Propose, IsNew, TimePasses
  <1>4. ASSUME NEW t \in Reviewers, ApproveEdits(t)
        PROVE  shot' \in ShotRecords /\ shot'.rev >= shot.rev
    <2>1. call[t].p \in Proposals
      BY <1>4, CallShapes DEF ApproveEdits
    <2>2. Patch[call[t].p] \in Patches
      BY <2>1 DEF Patches
    <2>3. shot' \in {shot, Updated(Patch[call[t].p]), Leftover(Patch[call[t].p])}
      BY <1>4, Zenon DEF ApproveEdits
    <2>4. Updated(Patch[call[t].p]).rev = shot.rev + 1 /\ Leftover(Patch[call[t].p]).rev = shot.rev
      BY <1>0, <2>2, ShotTypes
    <2>5. Updated(Patch[call[t].p]) \in ShotRecords /\ Leftover(Patch[call[t].p]) \in ShotRecords
      BY <1>0, <2>2, ShotTypes
    <2> QED  BY <1>0, <2>3, <2>4, <2>5
  <1>5. ASSUME NEW t \in Reviewers, ApproveDeletes(t)
        PROVE  shot' \in ShotRecords /\ shot'.rev >= shot.rev
    <2>1. shot' = [shot EXCEPT !.live = FALSE]
      BY <1>5 DEF ApproveDeletes
    <2>2. shot' \in ShotRecords /\ shot'.rev = shot.rev
      BY <1>0, <2>1, WithLive, Zenon
    <2> QED  BY <1>0, <2>2
  <1>6. ASSUME NEW t \in Reviewers, UndoApplies(t)
        PROVE  shot' \in ShotRecords /\ shot'.rev >= shot.rev
    <2>1. changeSets[call[t].i] \in ChangeSets
      BY <1>6, CallShapes DEF UndoApplies, CallsSound
    <2>2. changeSets[call[t].i].before \in Patches
      BY <2>1 DEF ChangeSets
    <2>4. [shot EXCEPT !.live = TRUE] \in ShotRecords
          /\ [shot EXCEPT !.live = TRUE].rev = shot.rev
      BY <1>0, WithLive, Zenon
    <2>3. shot' \in {shot, Updated(changeSets[call[t].i].before), [shot EXCEPT !.live = TRUE]}
      BY <1>6, Zenon DEF UndoApplies
    <2>5. /\ Updated(changeSets[call[t].i].before) \in ShotRecords
          /\ Updated(changeSets[call[t].i].before).rev = shot.rev + 1
      BY <1>0, <2>2, ShotTypes
    <2>6. CASE shot' = Updated(changeSets[call[t].i].before)
      BY <1>0, <2>5, <2>6
    <2>7. CASE shot' = [shot EXCEPT !.live = TRUE]
      <3>1. shot' \in ShotRecords /\ shot'.rev = shot.rev
        BY <2>4, <2>7, Zenon
      <3> QED  BY <1>0, <3>1
    <2>8. CASE shot' = shot
      BY <1>0, <2>8
    <2> QED  BY <2>3, <2>6, <2>7, <2>8
  <1>7. ASSUME NEW t \in Reviewers, ThreadStep(t),
               ~ApproveEdits(t), ~ApproveDeletes(t), ~UndoApplies(t)
        PROVE  shot' = shot
    BY <1>7, Zenon DEF ThreadStep, ApproveReads, RejectReads, SweepReads, UndoReads, ApproveConflicts,
         ApproveGenerates, ApproveRecords, MarksFixed, RejectCommits, Expires, CheckReads, CheckCommits, FailsRun,
         UndoRecords, RequestDies
  <1>8. shot' = shot => shot' \in ShotRecords /\ shot'.rev >= shot.rev
    BY <1>0
  <1>9. Acknowledges => shot' = shot
    BY DEF Acknowledges
  <1> QED  BY <1>1, <1>2, <1>3, <1>4, <1>5, <1>6, <1>7, <1>8, <1>9, NextCases, Zenon

\* A proposal is made, or a thread that decides on it gives it its next status.
Made(p) ==
  /\ ~Proposed(p)
  /\ proposal' = [proposal EXCEPT ![p] = [status |-> Pending, base |-> shot.rev]]
  /\ UNCHANGED <<shot, changeSets, call, warning>>
Later == {"conflict", "approved", "applied", "rejected", "expired"}
DecidedBy(t, p) == On(t, p) /\ \E status \in Later : SetStatus(p, status)

\* How a step changes the proposals.
LEMMA ProposalCases ==
  ASSUME Types, ReviewNext
  PROVE  \/ UNCHANGED proposal
         \/ \E p \in Proposals : Made(p) \/ \E t \in Reviewers : DecidedBy(t, p)
  <1>1. ASSUME NEW p \in Proposals, Propose(p) PROVE Made(p)
    BY <1>1 DEF Propose, IsNew, Made, Proposed
  <1>2. ASSUME NEW p \in Proposals, TimePasses(p) PROVE UNCHANGED proposal
    BY <1>2 DEF TimePasses
  <1>3. ASSUME UserEdits \/ UserDeletesOrRestores \/ Acknowledges PROVE UNCHANGED proposal
    BY <1>3 DEF UserEdits, UserDeletesOrRestores, Acknowledges
  <1>4. ASSUME NEW t \in Reviewers, ThreadStep(t)
        PROVE  UNCHANGED proposal \/ \E p \in Proposals : DecidedBy(t, p)
    <2>1. \/ UNCHANGED proposal
          \/ /\ call[t].op \in {"expire", "conflict", "reject", "apply", "record"}
             /\ \E status \in Later : SetStatus(call[t].p, status)
      BY <1>4 DEF ThreadStep, ApproveReads, RejectReads, SweepReads, UndoReads, ApproveConflicts,
         ApproveEdits, ApproveDeletes, UndoApplies, ApproveGenerates, ApproveRecords, MarksFixed,
         RejectCommits, Expires, CheckReads, CheckCommits, FailsRun, UndoRecords, RequestDies, Later
    <2> QED  BY <2>1, CallShapes DEF DecidedBy, On
  <1> QED  BY <1>1, <1>2, <1>3, <1>4, NextCases, Zenon

\* A proposal gets its base revision once, and is never pending again.
LEMMA ProposalStep ==
  ASSUME Types, ReviewNext
  PROVE  /\ proposal' \in [Proposals -> [status : Statuses, base : Nat]]
         /\ \A q \in Proposals : Proposed(q) => proposal'[q].status # "none"
                                          /\ proposal'[q].base = proposal[q].base
         /\ \A q \in Proposals : proposal[q].status \notin {"none", Pending}
                               => proposal'[q].status \notin {"none", Pending}
  <1>0. proposal \in [Proposals -> [status : Statuses, base : Nat]] /\ shot.rev \in Nat
    BY DEF Types, ShotRecords
  <1>1. CASE UNCHANGED proposal
    BY <1>0, <1>1 DEF Proposed
  <1>2. ASSUME NEW p \in Proposals, Made(p)
        PROVE  /\ proposal' \in [Proposals -> [status : Statuses, base : Nat]]
               /\ \A q \in Proposals : q = p \/ proposal'[q] = proposal[q]
               /\ proposal[p].status = "none"
    <2>1. [status |-> Pending, base |-> shot.rev] \in [status : Statuses, base : Nat]
      BY <1>0 DEF Statuses, Pending
    <2> QED  BY <1>0, <1>2, <2>1 DEF Made, Proposed
  <1>3. ASSUME NEW p \in Proposals, NEW t \in Reviewers, DecidedBy(t, p)
        PROVE  /\ proposal' \in [Proposals -> [status : Statuses, base : Nat]]
               /\ \A q \in Proposals : q = p \/ proposal'[q] = proposal[q]
               /\ proposal'[p].status \notin {"none", Pending}
               /\ proposal'[p].base = proposal[p].base
    <2>1. PICK status \in Later : SetStatus(p, status)
      BY <1>3 DEF DecidedBy
    <2>2. status \in Statuses /\ status \notin {"none", Pending}
      BY DEF Later, Statuses, Decided, Pending
    <2> QED  BY <2>1, <2>2, StatusTypes
  <1>4. (\E p \in Proposals : Made(p)) =>
          /\ proposal' \in [Proposals -> [status : Statuses, base : Nat]]
          /\ \A q \in Proposals : proposal[q].status = "none" \/ proposal'[q] = proposal[q]
    BY <1>2, Zenon
  <1>5. (\E p \in Proposals, t \in Reviewers : DecidedBy(t, p)) =>
          /\ proposal' \in [Proposals -> [status : Statuses, base : Nat]]
          /\ \A q \in Proposals : proposal'[q] = proposal[q]
                 \/ (proposal'[q].status \notin {"none", Pending} /\ proposal'[q].base = proposal[q].base)
    BY <1>3, Zenon
  <1>6. CASE \E p \in Proposals : Made(p)
    BY <1>4, <1>6 DEF Proposed
  <1>7. CASE \E p \in Proposals, t \in Reviewers : DecidedBy(t, p)
    BY <1>5, <1>7 DEF Proposed
  <1> QED  BY <1>1, <1>6, <1>7, ProposalCases

\* How a step moves the threads: none or one of them, which begins, goes on or ends.
StartsDeciding(t) ==
  /\ call[t] = NoCall /\ call'[t] \in Deciding \cup Others \cup Editing
  /\ proposal[call'[t].p].status = Pending /\ call'[t].op # "record"
  /\ call'[t].op = "apply" /\ call'[t].p \in Edits =>
       call'[t] \in Editing /\ call'[t].rev = shot.rev /\ proposal[call'[t].p].base = shot.rev
  /\ UNCHANGED <<shot, proposal, changeSets, warning>>
StartsUndo(t) ==
  /\ call[t] = NoCall /\ call'[t] \in Undoing /\ call'[t].op = "undo"
  /\ call'[t].i \in DOMAIN changeSets /\ call'[t].rev = shot.rev
  /\ ~call'[t].force /\ changeSets[call'[t].i].kind = "patch" => Carries(changeSets[call'[t].i].after)
  /\ UNCHANGED <<shot, proposal, changeSets, warning>>
HasApplied(t) ==
  /\ call[t].op = "apply" /\ call'[t] = [call[t] EXCEPT !.op = "record"]
  /\ call'[t].op = "record" /\ call'[t].p = call[t].p
  /\ ApproveEdits(t) \/ ApproveDeletes(t) \/ ApproveGenerates(t)
  /\ UNCHANGED <<changeSets, warning>>
HasUndone(t) ==
  /\ call[t].op = "undo" /\ call'[t] = [call[t] EXCEPT !.op = "undone"]
  /\ call'[t] \in Undoing /\ call'[t].op = "undone" /\ call'[t].i = call[t].i /\ call'[t].rev = call[t].rev
  /\ UndoApplies(t) /\ UNCHANGED <<changeSets, proposal, warning>>
HasRecordedFix(t) ==
  ApproveRecords(t) /\ tool[call[t].p] = "continuity_fix" /\ call'[t] = [op |-> "mark fixed"]
Leaves(t) == call'[t] \in {NoCall, [op |-> "look for pending"], [op |-> "check"]}

Moves(t) ==
  /\ \A u \in Reviewers \ {t} : call'[u] = call[u]
  /\ StartsDeciding(t) \/ StartsUndo(t) \/ HasApplied(t) \/ HasUndone(t) \/ HasRecordedFix(t) \/ Leaves(t)

\* At most one thread moves in a step, in one of the ways above.
LEMMA CallStep ==
  ASSUME Types, CallsSound, ReviewNext
  PROVE  call' \in [Reviewers -> Calls] /\ (UNCHANGED call \/ \E t \in Reviewers : Moves(t))
  <1> DEFINE Goal(t) == call' \in [Reviewers -> Calls] /\ Moves(t)
  <1>1. ASSUME UserEdits \/ UserDeletesOrRestores \/ Acknowledges \/ \E p \in Proposals : Propose(p) \/ TimePasses(p)
        PROVE  UNCHANGED call
    BY <1>1 DEF UserEdits, UserDeletesOrRestores, Acknowledges, Propose, IsNew, TimePasses
  <1>2. ASSUME NEW t \in Reviewers, Done(t) PROVE Goal(t)
    BY <1>2, DoneTypes DEF Moves, Leaves
  <1>3. ASSUME NEW t \in Reviewers, NEW p \in Proposals,
               ApproveReads(t, p) \/ RejectReads(t, p) \/ SweepReads(t, p)
        PROVE  Goal(t)
    <2>1. /\ proposal[p].status = Pending /\ call[t] = NoCall
          /\ UNCHANGED <<shot, proposal, changeSets, warning>>
      BY <1>3 DEF ApproveReads, RejectReads, SweepReads, Begin
    <2>2. PICK c : /\ Begin(t, c)
                   /\ c \in Deciding \cup Others \cup Editing /\ c.op # "record" /\ c.p = p
                   /\ c.op = "apply" /\ p \in Edits =>
                        c \in Editing /\ c.rev = shot.rev /\ proposal[p].base = shot.rev
      <3>1. CASE RejectReads(t, p) \/ SweepReads(t, p)
        <4>1. \E c \in {[op |-> "expire", p |-> p], [op |-> "reject", p |-> p]} : Begin(t, c)
          BY <3>1 DEF RejectReads, SweepReads
        <4> QED  BY <4>1 DEF Deciding
      <3>2. CASE ApproveReads(t, p) /\ (p \in overdue \/ Verdict(p) = "conflict" \/ p \notin Edits)
        <4>1. Begin(t, [op |-> IF p \in overdue THEN "expire" ELSE Verdict(p), p |-> p])
          BY <3>2 DEF ApproveReads
        <4>2. Verdict(p) \in {"conflict", "apply"}
          BY DEF Verdict
        <4>3. PICK o \in {"expire", "conflict", "apply"} :
                /\ o = IF p \in overdue THEN "expire" ELSE Verdict(p)
                /\ o = "apply" => p \notin Edits
          BY <3>2, <4>2
        <4> QED  BY <4>1, <4>3 DEF Deciding, Others
      <3>3. CASE ApproveReads(t, p) /\ ~(p \in overdue \/ Verdict(p) = "conflict" \/ p \notin Edits)
        <4>1. Begin(t, [op |-> "apply", p |-> p, rev |-> shot.rev, before |-> shot.fields])
          BY <3>3 DEF ApproveReads
        <4>2. shot.rev = proposal[p].base
          BY <3>3 DEF Verdict
        <4>3. [op |-> "apply", p |-> p, rev |-> shot.rev, before |-> shot.fields] \in Editing
          BY DEF Editing, Types, ShotRecords
        <4> QED  BY <4>1, <4>2, <4>3
      <3> QED  BY <1>3, <3>1, <3>2, <3>3
    <2>3. c \in Calls
      BY <2>2 DEF Calls
    <2>4. /\ call' \in [Reviewers -> Calls]
          /\ call'[t] = c
          /\ \A u \in Reviewers \ {t} : call'[u] = call[u]
      BY <2>2, <2>3, BeginTypes
    <2> QED  BY <2>1, <2>2, <2>4 DEF Moves, StartsDeciding
  <1>4. ASSUME NEW t \in Reviewers, NEW i \in DOMAIN changeSets, NEW force \in BOOLEAN, UndoReads(t, i, force)
        PROVE  Goal(t)
    <2> DEFINE c == [op |-> "undo", i |-> i, rev |-> shot.rev, force |-> force]
    <2>1. c \in Undoing
      BY DEF Undoing, Types, ShotRecords
    <2>2. Begin(t, c) /\ call[t] = NoCall /\ UNCHANGED <<shot, proposal, changeSets, warning>>
      BY <1>4 DEF UndoReads, Begin
    <2>3. ~force /\ changeSets[i].kind = "patch" => Carries(changeSets[i].after)
      BY <1>4 DEF UndoReads
    <2>4. /\ call' \in [Reviewers -> Calls]
          /\ call'[t] = c
          /\ \A u \in Reviewers \ {t} : call'[u] = call[u]
      BY <2>1, <2>2, BeginTypes DEF Calls
    <2>5. c.i = i /\ c.rev = shot.rev /\ c.force = force /\ c.op = "undo"
      OBVIOUS
    <2> HIDE DEF c
    <2> QED  BY <2>1, <2>2, <2>3, <2>4, <2>5 DEF Moves, StartsUndo
  <1>5. ASSUME NEW t \in Reviewers, call[t].op = "apply", call' = [call EXCEPT ![t].op = "record"],
               ApproveEdits(t) \/ ApproveDeletes(t) \/ ApproveGenerates(t), UNCHANGED <<changeSets, warning>>
        PROVE  Goal(t)
    BY <1>5, GoesOnToRecord DEF Moves, HasApplied
  <1>6. ASSUME NEW t \in Reviewers, ApproveEdits(t) \/ ApproveDeletes(t) \/ ApproveGenerates(t)
        PROVE  Goal(t)
    <2>1. \/ Done(t)
          \/ /\ call[t].op = "apply" /\ call' = [call EXCEPT ![t].op = "record"]
             /\ UNCHANGED <<changeSets, warning>>
      BY <1>6, Zenon DEF ApproveEdits, ApproveDeletes, ApproveGenerates
    <2> QED  BY <2>1, <1>2, <1>5, <1>6
  <1>7. ASSUME NEW t \in Reviewers, ApproveRecords(t) PROVE Goal(t)
    <2>1. CASE tool[call[t].p] = "continuity_fix"
      <3>1. call' = [call EXCEPT ![t] = [op |-> "mark fixed"]]
        BY <1>7, <2>1 DEF ApproveRecords
      <3>2. [op |-> "mark fixed"] \in Calls
        BY DEF Calls, Following
      <3> QED  BY <1>7, <2>1, <3>1, <3>2, BeginTypes DEF Moves, HasRecordedFix
    <2>2. CASE tool[call[t].p] # "continuity_fix"
      BY <1>2, <1>7, <2>2 DEF ApproveRecords
    <2> QED  BY <2>1, <2>2
  <1>8. ASSUME NEW t \in Reviewers, Expires(t) PROVE Goal(t)
    <2>1. call' = [call EXCEPT ![t] = [op |-> "look for pending"]]
      BY <1>8 DEF Expires
    <2>2. [op |-> "look for pending"] \in Calls
      BY DEF Calls, Following
    <2> QED  BY <2>1, <2>2, BeginTypes DEF Moves, Leaves
  <1>9. ASSUME NEW t \in Reviewers, UndoApplies(t) PROVE Goal(t)
    <2>1. CASE Done(t)
      BY <1>2, <2>1
    <2>2. CASE ~Done(t)
      <3>1. /\ call[t].op = "undo" /\ call' = [call EXCEPT ![t] = [call[t] EXCEPT !.op = "undone"]]
            /\ UNCHANGED <<changeSets, proposal, warning>>
        BY <1>9, <2>2, Zenon DEF UndoApplies
      <3>0. call[t] \in Undoing
        BY <3>1, CallShapes
      <3>2. [call[t] EXCEPT !.op = "undone"] \in Undoing
        BY <3>0 DEF Undoing
      <3>5. /\ [call[t] EXCEPT !.op = "undone"].op = "undone"
            /\ [call[t] EXCEPT !.op = "undone"].i = call[t].i
            /\ [call[t] EXCEPT !.op = "undone"].rev = call[t].rev
        BY <3>0 DEF Undoing
      <3>3. [call[t] EXCEPT !.op = "undone"] \in Calls
        BY <3>2 DEF Calls
      <3>4. /\ call' \in [Reviewers -> Calls]
            /\ call'[t] = [call[t] EXCEPT !.op = "undone"]
            /\ \A u \in Reviewers \ {t} : call'[u] = call[u]
        BY <3>1, <3>3, BeginTypes
      <3> QED  BY <1>9, <3>1, <3>2, <3>4, <3>5 DEF Moves, HasUndone
    <2> QED  BY <2>1, <2>2
  <1>10. ASSUME NEW t \in Reviewers, ThreadStep(t) PROVE Goal(t)
    <2>1. \/ Done(t)
          \/ \E p \in Proposals : ApproveReads(t, p) \/ RejectReads(t, p) \/ SweepReads(t, p)
          \/ \E i \in DOMAIN changeSets, force \in BOOLEAN : UndoReads(t, i, force)
          \/ ApproveEdits(t) \/ ApproveDeletes(t) \/ ApproveGenerates(t)
          \/ ApproveRecords(t) \/ Expires(t) \/ UndoApplies(t) \/ CheckReads(t)
      BY <1>10, Zenon DEF ThreadStep, ApproveConflicts, MarksFixed, RejectCommits, FailsRun, UndoRecords,
         CheckCommits, RequestDies
    <2>2. ASSUME CheckReads(t) PROVE Goal(t)
      <3>1. Begin(t, [op |-> "check"])
        BY <2>2 DEF CheckReads
      <3>2. [op |-> "check"] \in Calls
        BY DEF Calls, Following
      <3> QED  BY <3>1, <3>2, BeginTypes DEF Moves, Leaves
    <2> HIDE DEF Goal
    <2> QED  BY <2>1, <2>2, <1>2, <1>3, <1>4, <1>6, <1>7, <1>8, <1>9, Zenon
  <1>11. UNCHANGED call => call' \in [Reviewers -> Calls]
    BY DEF Types
  <1> QED  BY <1>1, <1>10, <1>11, NextCases

\* The table of change sets only grows, by a record of a thread's proposal or of an
\* undo, and of an old entry at most the mark changes.
LEMMA ChangeSetsStep ==
  ASSUME Types, CallsSound, RevisionsSound, ReviewNext
  PROVE  /\ changeSets' \in Seq(ChangeSets)
         /\ \A i \in DOMAIN changeSets :
              /\ i \in DOMAIN changeSets'
              /\ changeSets'[i].of = changeSets[i].of
              /\ changeSets'[i].kind = changeSets[i].kind
              /\ changeSets'[i].after = changeSets[i].after
         /\ \A i \in DOMAIN changeSets' \ DOMAIN changeSets :
              /\ i = Len(changeSets) + 1
              /\ changeSets'[i].of \in Proposals =>
                   \E t \in Reviewers : /\ ApproveRecords(t)
                                        /\ changeSets'[i].of = call[t].p
                                        /\ call[t].p \in Edits => Effective(call[t].p)
  <1> DEFINE Same == UNCHANGED changeSets
             Undone == \E t \in Reviewers : UndoRecords(t)
             Recorded == \E t \in Reviewers : ApproveRecords(t)
  <1>0. Same \/ Undone \/ Recorded
    <2>1. ASSUME UserEdits \/ UserDeletesOrRestores \/ Acknowledges \/ \E p \in Proposals : Propose(p) \/ TimePasses(p)
          PROVE  Same
      BY <2>1 DEF UserEdits, UserDeletesOrRestores, Acknowledges, Propose, IsNew, TimePasses
    <2>2. ASSUME NEW t \in Reviewers, ThreadStep(t)
          PROVE  Same \/ UndoRecords(t) \/ ApproveRecords(t)
      BY <2>2 DEF ThreadStep, ApproveReads, RejectReads, SweepReads, UndoReads, ApproveConflicts,
         ApproveEdits, ApproveDeletes, UndoApplies, ApproveGenerates, MarksFixed,
         RejectCommits, Expires, CheckReads, CheckCommits, FailsRun, RequestDies
    <2> QED  BY <2>1, <2>2, NextCases, Zenon
  <1>1. CASE Same
    BY <1>1 DEF Types
  <1>2. CASE Undone
    <2>1. PICK t \in Reviewers : UndoRecords(t)
      BY <1>2
    <2> QED  BY <2>1, UndoRecordTypes, Zenon
  <1>3. CASE Recorded
    <2>1. PICK t \in Reviewers : ApproveRecords(t)
      BY <1>3
    <2>2. call[t].p \in Proposals
      BY <2>1, CallShapes DEF ApproveRecords
    <2>3. call[t].p \in Edits => call[t] \in Editing
      BY <2>1, <2>2 DEF ApproveRecords, RevisionsSound
    <2>4. PICK c \in ChangeSets : c = ChangeSet(call[t].p, t) /\ c.of = call[t].p
      BY <2>2, <2>3, ChangeSetType
    <2>5. CASE changeSets' = changeSets
      BY <1>1, <2>5
    <2>6. CASE changeSets' # changeSets
      <3>1. changeSets' = Append(changeSets, c) /\ (call[t].p \in Edits => Effective(call[t].p))
        BY <2>1, <2>4, <2>6 DEF ApproveRecords, Effective
      <3>2. /\ changeSets' \in Seq(ChangeSets)
            /\ DOMAIN changeSets' = DOMAIN changeSets \cup {Len(changeSets) + 1}
            /\ \A i \in DOMAIN changeSets : changeSets'[i] = changeSets[i]
            /\ changeSets'[Len(changeSets) + 1] = c
        BY <3>1, AppendTypes, Zenon
      <3>3. ASSUME NEW i \in DOMAIN changeSets' \ DOMAIN changeSets
            PROVE  i = Len(changeSets) + 1 /\ changeSets'[i].of = call[t].p
        BY <2>4, <3>2, Zenon
      <3> QED  BY <2>1, <3>1, <3>2, <3>3, Zenon
    <2> QED  BY <2>5, <2>6
  <1> QED  BY <1>0, <1>1, <1>2, <1>3

\* Every step keeps the types.
LEMMA TypesStep ==
  ASSUME Types, CallsSound, RevisionsSound, ReviewNext
  PROVE  Types'
  <1>1. warning' \in Warnings
    <2>1. ASSUME NEW t \in Reviewers, ThreadStep(t)
          PROVE  warning' \in {warning, "open", "fixed"}
      BY <2>1 DEF ThreadStep, ApproveReads, RejectReads, SweepReads, UndoReads, ApproveConflicts,
         ApproveEdits, ApproveDeletes, UndoApplies, ApproveGenerates, MarksFixed, ApproveRecords, UndoRecords,
         RejectCommits, Expires, CheckReads, CheckCommits, FailsRun, RequestDies
    <2>2. ASSUME UserEdits \/ UserDeletesOrRestores \/ Acknowledges \/ \E p \in Proposals : Propose(p) \/ TimePasses(p)
          PROVE  warning' \in {warning, "acknowledged"}
      BY <2>2 DEF UserEdits, UserDeletesOrRestores, Acknowledges, Propose, IsNew, TimePasses
    <2>3. warning' \in {warning, "open", "fixed", "acknowledged"}
      BY <2>1, <2>2, NextCases
    <2> QED  BY <2>3 DEF Types, Warnings
  <1>2. tool' \in [Proposals -> Tools]
    BY NextCases DEF Types
  <1>3. shot' \in ShotRecords
    BY ShotStep
  <1>4. proposal' \in [Proposals -> [status : Statuses, base : Nat]]
    BY ProposalStep
  <1>5. changeSets' \in Seq(ChangeSets)
    BY ChangeSetsStep
  <1>6. call' \in [Reviewers -> Calls]
    BY CallStep
  <1> QED  BY <1>1, <1>2, <1>3, <1>4, <1>5, <1>6 DEF Types

-----------------------------------------------------------------------------
(* The parts of the invariant.                                             *)

\* The tool of a proposal, and with it what counts as an edit, never changes.
LEMMA EditsStay ==
  ASSUME ReviewNext
  PROVE  tool' = tool /\ Edits' = Edits /\ \A p : Effective(p)' <=> Effective(p)
  <1>1. tool' = tool
    BY NextCases
  <1>2. Edits' = Edits
    BY <1>1 DEF Edits
  <1> QED  BY <1>1, <1>2 DEF Effective

\* What a thread that ends, or has recorded a fix, is no longer doing.
LEMMA NotLeft ==
  ASSUME NEW u \in Reviewers
  PROVE  /\ Leaves(u) => call'[u].op \in {"none", "look for pending", "check"}
         /\ HasRecordedFix(u) => call'[u].op = "mark fixed"
  <1>1. /\ [op |-> "none"].op = "none"
        /\ [op |-> "look for pending"].op = "look for pending"
        /\ [op |-> "check"].op = "check"
        /\ [op |-> "mark fixed"].op = "mark fixed"
    OBVIOUS
  <1> QED  BY <1>1, Zenon DEF Leaves, HasRecordedFix, NoCall

\* A thread that decides on a proposal has done so before, or begins while it is pending.
LEMMA OnStep ==
  ASSUME Types, CallsSound, ReviewNext, NEW u \in Reviewers, NEW p \in Proposals, On(u, p)'
  PROVE  \/ On(u, p) /\ call'[u] = call[u]
         \/ StartsDeciding(u) /\ call'[u].p = p
         \/ HasApplied(u) /\ On(u, p)
  <1>1. CASE call'[u] = call[u]
    BY <1>1 DEF On
  <1>2. CASE call'[u] # call[u]
    <2>1. Moves(u)
      BY <1>2, CallStep DEF Moves
    <2>0. call'[u].op \in {"expire", "conflict", "reject", "apply", "record"}
      BY DEF On
    <2>2. ~Leaves(u)
      BY <2>0, NotLeft
    <2>3. ~HasRecordedFix(u)
      BY <2>0, NotLeft
    <2>4. ~HasUndone(u) /\ ~StartsUndo(u)
      BY DEF HasUndone, StartsUndo, On
    <2>5. StartsDeciding(u) \/ HasApplied(u)
      BY <2>1, <2>2, <2>3, <2>4 DEF Moves
    <2>6. call'[u].p = p
      BY DEF On
    <2>7. HasApplied(u) => On(u, p)
      BY <2>6 DEF HasApplied, On
    <2> QED  BY <2>5, <2>6, <2>7
  <1> QED  BY <1>1, <1>2

\* A thread that is undoing has been, or begins with a change set there is.
LEMMA UndoStep ==
  ASSUME Types, CallsSound, ReviewNext, NEW u \in Reviewers, call'[u].op \in {"undo", "undone"}
  PROVE  \/ call'[u] = call[u]
         \/ StartsUndo(u)
         \/ HasUndone(u)
  <1>1. CASE call'[u] # call[u]
    <2>1. Moves(u)
      BY <1>1, CallStep DEF Moves
    <2>2. ~Leaves(u)
      BY NotLeft
    <2>3. ~HasRecordedFix(u)
      BY NotLeft
    <2>4. ~HasApplied(u)
      BY DEF HasApplied
    <2>5. ~StartsDeciding(u)
      BY DEF StartsDeciding, Deciding, Others, Editing
    <2> QED  BY <2>1, <2>2, <2>3, <2>4, <2>5 DEF Moves
  <1> QED  BY <1>1

\* Every step keeps CallsSound.
LEMMA CallsSoundStep ==
  ASSUME Types, CallsSound, RevisionsSound, ReviewNext
  PROVE  CallsSound'
  <1>0. \A p \in Proposals : Proposed(p) => Proposed(p)'
    BY ProposalStep DEF Proposed
  <1>1. ASSUME NEW t \in Reviewers, NEW p \in Proposals, On(t, p)'
        PROVE  Proposed(p)'
    <2>1. On(t, p) => Proposed(p)
      BY DEF CallsSound
    <2>2. StartsDeciding(t) /\ call'[t].p = p => Proposed(p)
      BY DEF StartsDeciding, Proposed, Pending
    <2> QED  BY <1>0, <1>1, <2>1, <2>2, OnStep
  <1>2. ASSUME NEW t \in Reviewers, call'[t].op \in {"undo", "undone"}
        PROVE  call'[t].i \in DOMAIN changeSets'
    <2>1. call'[t].i \in DOMAIN changeSets
      <3>1. CASE call'[t] = call[t]
        BY <1>2, <3>1 DEF CallsSound
      <3>2. CASE StartsUndo(t)
        BY <3>2 DEF StartsUndo
      <3>3. CASE HasUndone(t)
        BY <3>3 DEF HasUndone, CallsSound
      <3> QED  BY <1>2, <3>1, <3>2, <3>3, UndoStep
    <2> QED  BY <2>1, ChangeSetsStep
  <1>3. ASSUME NEW i \in DOMAIN changeSets', changeSets'[i].of \in Proposals
        PROVE  proposal'[changeSets'[i].of].status # "none"
    <2>1. CASE i \in DOMAIN changeSets
      <3>1. changeSets'[i].of = changeSets[i].of
        BY <2>1, ChangeSetsStep
      <3> QED  BY <1>0, <1>3, <2>1, <3>1 DEF CallsSound, Proposed
    <2>2. CASE i \notin DOMAIN changeSets
      <3>0. i \in DOMAIN changeSets' \ DOMAIN changeSets
        BY <2>2
      <3>1. PICK t \in Reviewers : /\ ApproveRecords(t)
                                   /\ changeSets'[i].of = call[t].p
                                   /\ call[t].p \in Edits => Effective(call[t].p)
        <4>1. changeSets'[i].of \in Proposals
          BY <1>3
        <4> QED  BY <3>0, <4>1, ChangeSetsStep, Zenon
      <3>2. On(t, changeSets'[i].of)
        BY <3>1 DEF ApproveRecords, On
      <3> QED  BY <1>0, <1>3, <3>2 DEF CallsSound, Proposed
    <2> QED  BY <2>1, <2>2
  <1> QED  BY <1>1, <1>2, <1>3 DEF CallsSound, Proposed

\* Every step keeps RevisionsSound: the revision only grows, a base is set once.
LEMMA RevisionsSoundStep ==
  ASSUME Types, CallsSound, RevisionsSound, ReviewNext
  PROVE  RevisionsSound'
  <1>0. /\ shot.rev \in Nat /\ shot'.rev \in Nat /\ shot'.rev >= shot.rev
        /\ \A p \in Proposals : proposal[p].base \in Nat
    BY ShotStep DEF ShotRecords, Types
  <1>1. ASSUME NEW p \in Proposals, Proposed(p)'
        PROVE  proposal'[p].base <= shot'.rev
    <2>1. CASE Proposed(p)
      <3>1. proposal'[p].base = proposal[p].base /\ proposal[p].base <= shot.rev
        BY <2>1, ProposalStep DEF RevisionsSound
      <3> QED  BY <1>0, <3>1
    <2>2. CASE ~Proposed(p)
      <3>1. proposal' # proposal
        BY <1>1, <2>2 DEF Proposed
      <3>2. ~\E q \in Proposals, t \in Reviewers : q = p /\ DecidedBy(t, q)
        BY <2>2 DEF DecidedBy, CallsSound
      <3>3. PICK q \in Proposals : Made(q) \/ \E t \in Reviewers : DecidedBy(t, q)
        BY <3>1, ProposalCases
      <3>4. CASE q # p
        <4>1. proposal'[p] = proposal[p]
          BY <3>3, <3>4 DEF Made, DecidedBy, SetStatus, Types
        <4> QED  BY <1>1, <2>2, <4>1 DEF Proposed
      <3>5. CASE q = p
        <4>1. Made(p)
          BY <3>2, <3>3, <3>5
        <4>2. proposal' = [proposal EXCEPT ![p] = [status |-> Pending, base |-> shot.rev]] /\ shot' = shot
          BY <4>1 DEF Made
        <4>3. proposal'[p].base = shot.rev
          BY <4>2 DEF Types
        <4> QED  BY <1>0, <4>2, <4>3
      <3> QED  BY <3>4, <3>5
    <2> QED  BY <2>1, <2>2
  <1>2. ASSUME NEW t \in Reviewers, NEW p \in Edits, call'[t].op \in {"apply", "record"}, call'[t].p = p
        PROVE  call'[t] \in Editing /\ call'[t].rev = proposal'[p].base
    <2>0. p \in Proposals
      BY DEF Edits
    <2>1. On(t, p)'
      BY <1>2 DEF On
    <2>2. CASE call'[t] = call[t]
      <3>1. call[t] \in Editing /\ call[t].rev = proposal[p].base /\ Proposed(p)
        BY <1>2, <2>0, <2>2 DEF RevisionsSound, CallsSound, On
      <3> QED  BY <2>0, <2>2, <3>1, ProposalStep
    <2>3. CASE StartsDeciding(t) /\ call'[t].p = p
      <3>1. call'[t].op = "apply"
        BY <1>2, <2>3 DEF StartsDeciding
      <3> QED  BY <2>3, <3>1 DEF StartsDeciding
    <2>4. CASE HasApplied(t) /\ On(t, p)
      <3>1. call[t] \in Editing /\ call[t].rev = proposal[p].base /\ Proposed(p)
        BY <2>0, <2>4 DEF RevisionsSound, CallsSound, HasApplied, On
      <3>2. call'[t] = [call[t] EXCEPT !.op = "record"]
        BY <2>4 DEF HasApplied
      <3>3. call'[t] \in Editing
        BY <3>1, <3>2 DEF Editing
      <3>4. call'[t].rev = call[t].rev
        BY <3>1, <3>2 DEF Editing
      <3> QED  BY <2>0, <3>1, <3>3, <3>4, ProposalStep
    <2> QED  BY <2>0, <2>1, <2>2, <2>3, <2>4, OnStep
  <1>3. ASSUME NEW t \in Reviewers, call'[t].op \in {"undo", "undone"}
        PROVE  call'[t].rev <= shot'.rev
    <2>1. call'[t].rev \in Nat
      <3>1. call'[t] \in Undoing
        <4>1. Types'
          BY TypesStep
        <4>2. call'[t] \in Calls
          BY <4>1 DEF Types
        <4>3. PICK c : c = call'[t]
          OBVIOUS
        <4>4. c \in Calls /\ c.op \in {"undo", "undone"}
          BY <1>3, <4>2, <4>3
        <4>5. c # NoCall /\ c \notin Following
          <5>1. c = NoCall => c.op = "none"
            BY DEF NoCall
          <5>2. c \in Following => c.op \in {"mark fixed", "look for pending", "check"}
            BY DEF Following
          <5> QED  BY <4>4, <5>1, <5>2
        <4>6. c \notin Deciding
          BY <4>4 DEF Deciding
        <4>7. c \notin Others \cup Editing
          BY <4>4 DEF Others, Editing
        <4> QED  BY <4>3, <4>4, <4>5, <4>6, <4>7 DEF Calls
      <3> QED  BY <3>1 DEF Undoing
    <2>2. call'[t].rev <= shot.rev
      <3>1. CASE call'[t] = call[t]
        BY <1>3, <3>1 DEF RevisionsSound
      <3>2. CASE StartsUndo(t)
        BY <1>0, <3>2 DEF StartsUndo
      <3>3. CASE HasUndone(t)
        BY <3>3 DEF HasUndone, RevisionsSound
      <3> QED  BY <1>3, <3>1, <3>2, <3>3, UndoStep
    <2> QED  BY <1>0, <2>1, <2>2
  <1>4. Edits' = Edits
    BY EditsStay
  <1> QED  BY <1>1, <1>2, <1>3, <1>4 DEF RevisionsSound

\* A thread that begins to record an edit has just changed the shot that was reviewed.
LEMMA AppliedStep ==
  ASSUME Types, CallsSound, RevisionsSound, ReviewNext,
         NEW t \in Reviewers, NEW p \in Proposals, HasApplied(t), call[t].p = p, Effective(p)
  PROVE  /\ shot.live /\ shot.rev = proposal[p].base
         /\ shot'.rev = shot.rev + 1
  <1>1. p \in Edits /\ ~IsEmpty(Patch[p])
    BY DEF Effective
  <1>2. tool[p] \notin {"delete_shot", "generate_image"}
    BY <1>1 DEF Edits
  <1>3. ApproveEdits(t)
    BY <1>2 DEF HasApplied, ApproveDeletes, ApproveGenerates
  <1>4. ~Done(t)
    <2>1. ASSUME Done(t) PROVE FALSE
      <3>1. call'[t] = NoCall
        BY <2>1, DoneTypes
      <3>2. NoCall.op = "none"
        BY DEF NoCall
      <3>3. call'[t].op = "record"
        BY DEF HasApplied
      <3> QED  BY <3>1, <3>2, <3>3
    <2> QED  BY <2>1
  <1>5. CanUpdate(call[t].rev) /\ shot' = Updated(Patch[p])
    BY <1>1, <1>3, <1>4, Zenon DEF ApproveEdits
  <1>6. call[t].rev = proposal[p].base
    BY <1>1 DEF RevisionsSound, HasApplied
  <1>7. Patch[p] \in Patches /\ shot \in ShotRecords
    BY DEF Patches, Types
  <1>8. shot'.rev = shot.rev + 1
    BY <1>5, <1>7, ShotTypes
  <1> QED  BY <1>5, <1>6, <1>8 DEF CanUpdate

\* A thread that records did so before, or has just applied.
LEMMA RecordsStep ==
  ASSUME Types, CallsSound, ReviewNext, NEW u \in Reviewers, NEW p \in Proposals, Records(u, p)'
  PROVE  \/ Records(u, p) /\ call'[u] = call[u]
         \/ HasApplied(u) /\ call[u].p = p
  <1>1. On(u, p)' /\ call'[u].op = "record"
    BY DEF Records, On
  <1>2. ~StartsDeciding(u)
    BY <1>1 DEF StartsDeciding
  <1>3. On(u, p) /\ call'[u] = call[u] => Records(u, p)
    BY <1>1 DEF Records, On
  <1> QED  BY <1>1, <1>2, <1>3, OnStep DEF On

\* A record is made by a thread that then no longer records.
LEMMA RecordedStep ==
  ASSUME Types, NEW t \in Reviewers, ApproveRecords(t)
  PROVE  call'[t].op # "record"
  <1>1. NoCall.op = "none" /\ [op |-> "mark fixed"].op = "mark fixed"
    BY DEF NoCall
  <1>2. call'[t] = NoCall \/ call'[t] = [op |-> "mark fixed"]
    BY DEF ApproveRecords, Done, Types
  <1> QED  BY <1>1, <1>2

\* Where a new entry of the table comes from.
LEMMA NewEntry ==
  ASSUME Types, CallsSound, RevisionsSound, ReviewNext,
         NEW p \in Proposals, NEW i \in DOMAIN changeSets', i \notin DOMAIN changeSets,
         changeSets'[i].of = p
  PROVE  /\ i = Len(changeSets) + 1
         /\ \E t \in Reviewers : ApproveRecords(t) /\ Records(t, p)
         /\ p \in Edits => Effective(p)
  <1>1. i \in DOMAIN changeSets' \ DOMAIN changeSets
    OBVIOUS
  <1>2. i = Len(changeSets) + 1
    BY <1>1, ChangeSetsStep, Zenon
  <1>3. changeSets'[i].of \in Proposals
    OBVIOUS
  <1>4. PICK t \in Reviewers : /\ ApproveRecords(t)
                               /\ changeSets'[i].of = call[t].p
                               /\ call[t].p \in Edits => Effective(call[t].p)
    BY <1>1, <1>3, ChangeSetsStep, Zenon
  <1>5. Records(t, p)
    BY <1>4 DEF Records, ApproveRecords
  <1> QED  BY <1>2, <1>4, <1>5

\* Every step keeps Once: an edit that is recorded has left the revision it asks for.
LEMMA OnceStep ==
  ASSUME Types, CallsSound, RevisionsSound, Once, ReviewNext
  PROVE  Once'
  <1>0. /\ shot.rev \in Nat /\ shot'.rev \in Nat /\ shot'.rev >= shot.rev
        /\ \A p \in Proposals : proposal[p].base \in Nat
    BY ShotStep DEF ShotRecords, Types
  <1>1. ASSUME NEW t \in Reviewers, NEW p \in Proposals, Effective(p), Records(t, p)
        PROVE  Proposed(p) /\ proposal[p].base < shot.rev
    BY <1>1 DEF Records, On, CallsSound, Once
  <1>2. ASSUME NEW p \in Proposals, Proposed(p)
        PROVE  proposal'[p].base = proposal[p].base
    BY <1>2, ProposalStep
  \* An entry there is now: an old one, or the record a thread was making.
  <1>3. ASSUME NEW i \in DOMAIN changeSets', NEW p \in Edits, changeSets'[i].of = p
        PROVE  /\ \/ IsOf(i, p)
                  \/ i = Len(changeSets) + 1 /\ \E t \in Reviewers : ApproveRecords(t) /\ Records(t, p)
               /\ Effective(p) /\ Proposed(p) /\ proposal[p].base < shot.rev
    <2>0. p \in Proposals
      BY DEF Edits
    <2>1. CASE i \in DOMAIN changeSets
      <3>1. IsOf(i, p)
        BY <1>3, <2>1, ChangeSetsStep, Zenon DEF IsOf
      <3>2. Effective(p) /\ proposal[p].base < shot.rev
        BY <2>0, <2>1, <3>1 DEF Once
      <3>3. Proposed(p)
        BY <2>0, <2>1, <3>1 DEF CallsSound, IsOf
      <3> QED  BY <3>1, <3>2, <3>3
    <2>2. CASE i \notin DOMAIN changeSets
      <3>1. /\ i = Len(changeSets) + 1
            /\ \E t \in Reviewers : ApproveRecords(t) /\ Records(t, p)
            /\ Effective(p)
        BY <1>3, <2>0, <2>2, NewEntry, Zenon
      <3> QED  BY <1>1, <2>0, <3>1
    <2> QED  BY <2>1, <2>2
  \* A thread that records now: it did before, or it has just changed the shot.
  <1>4. ASSUME NEW t \in Reviewers, NEW p \in Proposals, Effective(p), Records(t, p)'
        PROVE  \/ Records(t, p) /\ call'[t] = call[t] /\ proposal[p].base < shot.rev
               \/ /\ HasApplied(t) /\ call'[t] # call[t] /\ Proposed(p)
                  /\ shot.rev = proposal[p].base /\ shot'.rev = shot.rev + 1
    <2>1. CASE Records(t, p) /\ call'[t] = call[t]
      BY <1>1, <1>4, <2>1
    <2>2. CASE HasApplied(t) /\ call[t].p = p
      <3>1. shot.rev = proposal[p].base /\ shot'.rev = shot.rev + 1
        BY <1>4, <2>2, AppliedStep
      <3>2. call'[t] # call[t]
        <4>1. call[t].op = "apply" /\ call'[t].op = "record"
          BY <2>2 DEF HasApplied
        <4> QED  BY <4>1
      <3>3. Proposed(p)
        BY <2>2 DEF HasApplied, CallsSound, On
      <3> QED  BY <2>2, <3>1, <3>2, <3>3
    <2> QED  BY <1>4, <2>1, <2>2, RecordsStep
  <1>5. ASSUME NEW t \in Reviewers, NEW p \in Proposals, Effective(p), Records(t, p)'
        PROVE  proposal'[p].base < shot'.rev
    <2>1. CASE Records(t, p) /\ proposal[p].base < shot.rev
      <3>1. proposal'[p].base = proposal[p].base
        BY <1>1, <1>2, <1>5, <2>1
      <3> QED  BY <1>0, <2>1, <3>1
    <2>2. CASE Proposed(p) /\ shot.rev = proposal[p].base /\ shot'.rev = shot.rev + 1
      <3>1. proposal'[p].base = proposal[p].base
        BY <1>2, <2>2
      <3> QED  BY <1>0, <2>2, <3>1
    <2> QED  BY <1>4, <1>5, <2>1, <2>2
  <1>6. ASSUME NEW i \in DOMAIN changeSets', NEW p \in Edits, changeSets'[i].of = p
        PROVE  Effective(p) /\ proposal'[p].base < shot'.rev
    <2>1. p \in Proposals
      BY DEF Edits
    <2>2. Effective(p) /\ Proposed(p) /\ proposal[p].base < shot.rev
      BY <1>3, <1>6
    <2>3. proposal'[p].base = proposal[p].base
      BY <1>2, <2>1, <2>2
    <2> QED  BY <1>0, <2>1, <2>2, <2>3
  <1>7. ASSUME NEW t \in Reviewers, NEW u \in Reviewers, NEW p \in Proposals, Effective(p),
               Records(t, p)', Records(u, p)'
        PROVE  t = u
    <2>1. CASE Records(t, p) /\ Records(u, p)
      BY <1>7, <2>1 DEF Once
    <2>2. CASE call'[t] # call[t] /\ call'[u] # call[u]
      <3>1. PICK v \in Reviewers : \A w \in Reviewers \ {v} : call'[w] = call[w]
        BY <2>2, CallStep DEF Moves
      <3> QED  BY <2>2, <3>1
    <2>3. ~(proposal[p].base < shot.rev /\ shot.rev = proposal[p].base)
      BY <1>0
    <2> QED  BY <1>4, <1>7, <2>1, <2>2, <2>3
  <1>8. ASSUME NEW t \in Reviewers, NEW i \in DOMAIN changeSets', NEW p \in Proposals, Effective(p),
               Records(t, p)', changeSets'[i].of = p
        PROVE  FALSE
    <2>1. p \in Edits
      BY <1>8 DEF Effective
    <2>2. proposal[p].base < shot.rev
      BY <1>3, <1>8, <2>1
    <2>3. Records(t, p) /\ call'[t] = call[t]
      BY <1>0, <1>4, <1>8, <2>2
    <2>4. ~IsOf(i, p)
      <3>1. ASSUME IsOf(i, p) PROVE FALSE
        BY <1>8, <2>3, <3>1 DEF Once, IsOf
      <3> QED  BY <3>1
    <2>5. PICK u \in Reviewers : ApproveRecords(u) /\ Records(u, p)
      BY <1>3, <1>8, <2>1, <2>4
    <2>6. u = t
      BY <1>8, <2>3, <2>5 DEF Once
    <2>7. call'[t].op # "record"
      BY <2>5, <2>6, RecordedStep
    <2> QED  BY <1>8, <2>7 DEF Records
  <1>9. ASSUME NEW i \in DOMAIN changeSets', NEW j \in DOMAIN changeSets', NEW p \in Edits,
               changeSets'[i].of = p, changeSets'[j].of = p
        PROVE  i = j
    <2>0. p \in Proposals /\ Effective(p)
      BY <1>3, <1>9 DEF Edits
    <2>1. CASE IsOf(i, p) /\ IsOf(j, p)
      BY <2>0, <2>1 DEF Once, IsOf
    <2>2. ~((\E k \in {i, j} : IsOf(k, p)) /\ \E t \in Reviewers : Records(t, p))
      BY <2>0 DEF Once, IsOf
    <2> QED  BY <1>3, <1>9, <2>1, <2>2
  <1>10. Edits' = Edits /\ \A p : Effective(p)' <=> Effective(p)
    BY EditsStay, Zenon
  <1>11. \A i, p : IsOf(i, p)' <=> i \in DOMAIN changeSets' /\ changeSets'[i].of = p
    BY DEF IsOf
  <1> QED  BY <1>5, <1>6, <1>7, <1>8, <1>9, <1>10, <1>11, Zenon DEF Once

\* The prompt of a refused approval is in the shot, and the approval is decided.
LeavesPrompt ==
  \E p \in Edits : /\ proposal'[p].status = "conflict"
                   /\ shot'.fields["action"] = shot.fields["action"]
                   /\ shot'.fields["image_prompt"] \in {shot.fields["image_prompt"], Patch[p]["image_prompt"]}

\* A step that leaves the revision leaves the fields, but for such a prompt.
LEMMA FieldsStep ==
  ASSUME Types, CallsSound, ReviewNext, shot'.rev = shot.rev
  PROVE  shot'.fields = shot.fields \/ LeavesPrompt
  <1>0. shot \in ShotRecords /\ shot.rev \in Nat
    BY DEF Types, ShotRecords
  <1>1. \A patch \in Patches : shot' # Updated(patch)
    BY <1>0, ShotTypes
  <1>2. \A b \in BOOLEAN : shot' = [shot EXCEPT !.live = b] => shot'.fields = shot.fields
    BY <1>0, WithLive
  <1>3. ~UserEdits
    BY <1>1 DEF UserEdits, Patches
  <1>4. CASE UserDeletesOrRestores
    <2>1. shot' = [shot EXCEPT !.live = ~shot.live]
      BY <1>4 DEF UserDeletesOrRestores
    <2>2. CASE shot.live
      BY <1>2, <2>1, <2>2
    <2>3. CASE ~shot.live
      BY <1>2, <2>1, <2>3
    <2> QED  BY <2>2, <2>3
  <1>5. ASSUME NEW p \in Proposals, Propose(p) \/ TimePasses(p)
        PROVE  shot' = shot
    BY <1>5 DEF Propose, IsNew, TimePasses
  <1>6. ASSUME NEW t \in Reviewers, ApproveEdits(t)
        PROVE  shot' = shot \/ LeavesPrompt
    <2>1. PICK p \in Proposals : p = call[t].p
      BY <1>6, CallShapes DEF ApproveEdits
    <2>2. Patch[p] \in Patches /\ p \in Edits
      BY <1>6, <2>1 DEF Patches, ApproveEdits
    <2>3. \/ shot' = shot
          \/ shot' = Updated(Patch[p])
          \/ shot' = Leftover(Patch[p]) /\ SetStatus(p, "conflict")
      BY <1>6, <2>1, Zenon DEF ApproveEdits
    <2>4. CASE shot' = Leftover(Patch[p]) /\ SetStatus(p, "conflict")
      <3>1. /\ Leftover(Patch[p]).fields["action"] = shot.fields["action"]
            /\ Leftover(Patch[p]).fields["image_prompt"] \in {shot.fields["image_prompt"], Patch[p]["image_prompt"]}
        BY <1>0, <2>2, ShotTypes
      <3>2. "conflict" \in Statuses
        BY DEF Statuses, Decided
      <3>3. proposal'[p].status = "conflict"
        BY <2>4, <3>2, StatusTypes
      <3> QED  BY <2>2, <2>4, <3>1, <3>3 DEF LeavesPrompt
    <2> QED  BY <1>1, <2>2, <2>3, <2>4
  <1>7. ASSUME NEW t \in Reviewers, ApproveDeletes(t)
        PROVE  shot'.fields = shot.fields
    BY <1>2, <1>7 DEF ApproveDeletes
  <1>8. ASSUME NEW t \in Reviewers, UndoApplies(t)
        PROVE  shot'.fields = shot.fields
    <2>1. changeSets[call[t].i] \in ChangeSets
      BY <1>8, CallShapes DEF UndoApplies, CallsSound, Types
    <2>2. changeSets[call[t].i].before \in Patches
      BY <2>1 DEF ChangeSets
    <2>3. shot' \in {shot, Updated(changeSets[call[t].i].before), [shot EXCEPT !.live = TRUE]}
      BY <1>8, Zenon DEF UndoApplies
    <2> QED  BY <1>1, <1>2, <2>2, <2>3
  <1>9. ASSUME NEW t \in Reviewers, ThreadStep(t),
               ~ApproveEdits(t), ~ApproveDeletes(t), ~UndoApplies(t)
        PROVE  shot' = shot
    BY <1>9, Zenon DEF ThreadStep, ApproveReads, RejectReads, SweepReads, UndoReads, ApproveConflicts,
         ApproveGenerates, ApproveRecords, MarksFixed, RejectCommits, Expires, CheckReads, CheckCommits, FailsRun,
         UndoRecords, RequestDies
  <1>10. shot' = shot => shot'.fields = shot.fields
    OBVIOUS
  <1>11. Acknowledges => shot' = shot
    BY DEF Acknowledges
  <1> QED  BY <1>3, <1>4, <1>5, <1>6, <1>7, <1>8, <1>9, <1>10, <1>11, NextCases, Zenon

\* IsLeftover and CarriesUpToLeftovers of a value, in the state after the step.
IsLeftoverThen(v) ==
  \E p \in Edits : proposal'[p].status \notin {"none", Pending} /\ v = Patch[p]["image_prompt"]
CarriesThen(after) ==
  \A f \in Fields : \/ after[f] = NoValue \/ shot'.fields[f] = after[f]
                    \/ f = "image_prompt" /\ IsLeftoverThen(shot'.fields[f])

\* A decided proposal stays decided, so a leftover stays one.
LEMMA LeftoverStep ==
  ASSUME Types, ReviewNext, NEW v, IsLeftover(v)
  PROVE  IsLeftoverThen(v)
  <1>1. PICK p \in Edits : proposal[p].status \notin {"none", Pending} /\ v = Patch[p]["image_prompt"]
    BY DEF IsLeftover
  <1>2. proposal'[p].status \notin {"none", Pending}
    BY <1>1, ProposalStep DEF Edits
  <1> QED  BY <1>1, <1>2 DEF IsLeftoverThen

\* Every step keeps UndoSound: what moves the fields moves the revision, or is a leftover.
LEMMA UndoSoundStep ==
  ASSUME Types, CallsSound, RevisionsSound, UndoSound, ReviewNext
  PROVE  UndoSound'
  <1> SUFFICES ASSUME NEW t \in Reviewers, call'[t].op = "undo", ~call'[t].force,
                      changeSets'[call'[t].i].kind = "patch", call'[t].rev = shot'.rev
               PROVE  CarriesThen(changeSets'[call'[t].i].after)
    <2>1. Edits' = Edits
      BY EditsStay
    <2> QED  BY <2>1, Zenon DEF UndoSound, CarriesUpToLeftovers, IsLeftover, CarriesThen, IsLeftoverThen
  <1>1. CASE StartsUndo(t)
    <2>1. /\ Carries(changeSets[call'[t].i].after)
          /\ changeSets' = changeSets /\ shot' = shot
      BY <1>1 DEF StartsUndo
    <2>2. \A f \in Fields : changeSets'[call'[t].i].after[f] # NoValue
                            => shot'.fields[f] = changeSets'[call'[t].i].after[f]
      BY <2>1 DEF Carries
    <2> QED  BY <2>2, Zenon DEF CarriesThen
  <1>2. CASE call'[t] = call[t]
    <2> DEFINE i == call[t].i
    <2>1. /\ i \in DOMAIN changeSets
          /\ changeSets'[i].kind = changeSets[i].kind
          /\ changeSets'[i].after = changeSets[i].after
      BY <1>2, ChangeSetsStep DEF CallsSound
    <2>2. shot'.rev = shot.rev /\ call[t].rev = shot.rev
      <3>1. call[t].rev <= shot.rev /\ call[t].rev = shot'.rev
        BY <1>2 DEF RevisionsSound
      <3>2. shot'.rev >= shot.rev /\ shot.rev \in Nat /\ shot'.rev \in Nat
        BY ShotStep DEF ShotRecords, Types
      <3> QED  BY <3>1, <3>2
    <2>3. PICK after : after = changeSets[i].after
      OBVIOUS
    <2>4. CarriesUpToLeftovers(after)
      BY <1>2, <2>1, <2>2, <2>3 DEF UndoSound
    <2>5. ASSUME NEW f \in Fields
          PROVE  \/ after[f] = NoValue \/ shot'.fields[f] = after[f]
                 \/ f = "image_prompt" /\ IsLeftoverThen(shot'.fields[f])
      <3>0. PICK old, new : old = shot.fields /\ new = shot'.fields
        OBVIOUS
      <3>1. old[f] = new[f] \/ (f = "image_prompt" /\ IsLeftoverThen(new[f]))
        <4>1. CASE new = old
          BY <4>1
        <4>2. CASE LeavesPrompt
          <5>1. PICK p \in Edits :
                  /\ proposal'[p].status = "conflict"
                  /\ new["action"] = old["action"]
                  /\ new["image_prompt"] \in {old["image_prompt"], Patch[p]["image_prompt"]}
            BY <3>0, <4>2 DEF LeavesPrompt
          <5>2. IsLeftoverThen(Patch[p]["image_prompt"])
            BY <5>1 DEF IsLeftoverThen, Pending
          <5>3. f = "action" \/ f = "image_prompt"
            BY DEF Fields
          <5> QED  BY <5>1, <5>2, <5>3
        <4> QED  BY <2>2, <3>0, <4>1, <4>2, FieldsStep
      <3>2. \/ after[f] = NoValue \/ old[f] = after[f]
            \/ f = "image_prompt" /\ IsLeftover(old[f])
        BY <2>4, <3>0 DEF CarriesUpToLeftovers
      <3>3. IsLeftover(old[f]) => IsLeftoverThen(old[f])
        <4>1. PICK v : v = old[f]
          OBVIOUS
        <4> QED  BY <4>1, LeftoverStep
      <3>4. \/ after[f] = NoValue \/ new[f] = after[f]
            \/ f = "image_prompt" /\ IsLeftoverThen(new[f])
        BY <3>1, <3>2, <3>3
      <3> QED  BY <3>0, <3>4
    <2>6. CarriesThen(after)
      BY <2>5 DEF CarriesThen
    <2>7. changeSets'[call'[t].i].after = after
      BY <1>2, <2>1, <2>3
    <2> QED  BY <2>6, <2>7
  <1>3. ~HasUndone(t)
    BY DEF HasUndone
  <1> QED  BY <1>1, <1>2, <1>3, UndoStep

\* Every step keeps FixSound: only the record of a fix leads to the mark.
LEMMA FixSoundStep ==
  ASSUME Types, CallsSound, RevisionsSound, FixSound, ReviewNext
  PROVE  FixSound'
  <1>1. FixWasApplied => FixWasApplied'
    <2>1. ASSUME NEW p \in Proposals, tool[p] = "continuity_fix",
                 IsEmpty(Patch[p]) \/ \E i \in DOMAIN changeSets : changeSets[i].of = p
          PROVE  IsEmpty(Patch[p]) \/ \E i \in DOMAIN changeSets' : changeSets'[i].of = p
      BY <2>1, ChangeSetsStep
    <2>2. tool' = tool
      BY EditsStay
    <2> QED  BY <2>1, <2>2 DEF FixWasApplied
  <1>2. warning' = "fixed" => warning = "fixed" \/ \E t \in Reviewers : call[t].op = "mark fixed"
    <2>1. ASSUME NEW t \in Reviewers, ThreadStep(t)
          PROVE  warning' \in {warning, "open"} \/ call[t].op = "mark fixed"
      BY <2>1 DEF ThreadStep, ApproveReads, RejectReads, SweepReads, UndoReads, ApproveConflicts,
         ApproveEdits, ApproveDeletes, UndoApplies, ApproveGenerates, MarksFixed, ApproveRecords, UndoRecords,
         RejectCommits, Expires, CheckReads, CheckCommits, FailsRun, RequestDies
    <2>2. ASSUME UserEdits \/ UserDeletesOrRestores \/ Acknowledges \/ \E p \in Proposals : Propose(p) \/ TimePasses(p)
          PROVE  warning' \in {warning, "acknowledged"}
      BY <2>2 DEF UserEdits, UserDeletesOrRestores, Acknowledges, Propose, IsNew, TimePasses
    <2> QED  BY <2>1, <2>2, NextCases
  <1>3. ASSUME NEW t \in Reviewers, HasRecordedFix(t)
        PROVE  FixWasApplied'
    <2>1. PICK p \in Proposals : p = call[t].p
      BY <1>3, CallShapes DEF HasRecordedFix, ApproveRecords
    <2>2. tool[p] = "continuity_fix" /\ p \in Edits /\ tool' = tool
      BY <1>3, <2>1, EditsStay DEF HasRecordedFix, Edits
    <2>3. CASE IsEmpty(Patch[p])
      BY <2>2, <2>3 DEF FixWasApplied
    <2>4. CASE ~IsEmpty(Patch[p])
      <3>1. changeSets' = Append(changeSets, ChangeSet(p, t))
        BY <1>3, <2>1, <2>2, <2>4 DEF HasRecordedFix, ApproveRecords
      <3>2. call[t] \in Editing
        BY <1>3, <2>1, <2>2 DEF HasRecordedFix, ApproveRecords, RevisionsSound
      <3>3. PICK c \in ChangeSets : c = ChangeSet(p, t) /\ c.of = p
        BY <3>2, ChangeSetType
      <3>4. PICK i \in DOMAIN changeSets' : changeSets'[i] = c
        BY <3>1, <3>3, AppendTypes
      <3>5. changeSets'[i].of = p
        BY <3>3, <3>4
      <3> QED  BY <2>2, <3>5 DEF FixWasApplied
    <2> QED  BY <2>3, <2>4
  <1>4. ASSUME NEW t \in Reviewers, call'[t].op = "mark fixed"
        PROVE  call[t].op = "mark fixed" \/ HasRecordedFix(t)
    <2>1. CASE call'[t] = call[t]
      BY <1>4, <2>1
    <2>2. CASE call'[t] # call[t]
      <3>1. Moves(t)
        BY <2>2, CallStep DEF Moves
      <3>2. ~Leaves(t)
        BY <1>4, NotLeft
      <3>3. ~StartsDeciding(t)
        BY <1>4 DEF StartsDeciding, Deciding, Others, Editing
      <3>4. ~StartsUndo(t) /\ ~HasApplied(t) /\ ~HasUndone(t)
        BY <1>4 DEF StartsUndo, HasApplied, HasUndone
      <3> QED  BY <3>1, <3>2, <3>3, <3>4 DEF Moves
    <2> QED  BY <2>1, <2>2
  <1> QED  BY <1>1, <1>2, <1>3, <1>4 DEF FixSound

-----------------------------------------------------------------------------
(* The invariant, and what follows from it.                                *)

\* The first state satisfies the invariant.
LEMMA InvInit ==
  ReviewInit => ReviewInv
  <1> SUFFICES ASSUME ReviewInit PROVE ReviewInv
    OBVIOUS
  <1>1. \A t \in Reviewers : call[t].op = "none"
    BY DEF ReviewInit, NoCall
  <1>2. changeSets = <<>> /\ DOMAIN changeSets = {}
    BY DEF ReviewInit
  <1>3. \A p \in Proposals : ~Proposed(p)
    BY DEF ReviewInit, Proposed
  <1>4. CallsSound
    BY <1>1, <1>2 DEF CallsSound, On
  <1>5. RevisionsSound
    BY <1>1, <1>3 DEF RevisionsSound
  <1>6. Once
    BY <1>1, <1>2 DEF Once, Records, IsOf
  <1>7. UndoSound
    BY <1>1 DEF UndoSound
  <1>8. FixSound
    BY <1>1 DEF FixSound, ReviewInit
  <1> QED  BY <1>4, <1>5, <1>6, <1>7, <1>8, TypesInit DEF ReviewInv

\* Every step, and every stutter, keeps the invariant.
LEMMA InvStep ==
  ReviewInv /\ [ReviewNext]_reviewVars => ReviewInv'
  <1>1. ASSUME ReviewInv, ReviewNext PROVE ReviewInv'
    BY <1>1, TypesStep, CallsSoundStep, RevisionsSoundStep, OnceStep, UndoSoundStep, FixSoundStep
       DEF ReviewInv
  <1>2. ASSUME ReviewInv, UNCHANGED reviewVars PROVE ReviewInv'
    <2>1. UNCHANGED <<tool, shot, proposal, changeSets, warning, call>>
      BY <1>2 DEF reviewVars
    <2>2. Types'
      BY <1>2, <2>1 DEF ReviewInv, Types
    <2>3. CallsSound'
      BY <1>2, <2>1 DEF ReviewInv, CallsSound, On, Proposed
    <2>4. RevisionsSound'
      BY <1>2, <2>1 DEF ReviewInv, RevisionsSound, Proposed, Edits
    <2>5. Once'
      BY <1>2, <2>1 DEF ReviewInv, Once, Records, IsOf, Effective, Edits
    <2>6. UndoSound'
      BY <1>2, <2>1 DEF ReviewInv, UndoSound, CarriesUpToLeftovers, IsLeftover, Edits
    <2>7. FixSound'
      BY <1>2, <2>1 DEF ReviewInv, FixSound, FixWasApplied
    <2> QED  BY <2>2, <2>3, <2>4, <2>5, <2>6, <2>7 DEF ReviewInv
  <1> QED  BY <1>1, <1>2

\* Whatever the threads and the user do, and wherever a request ends half-way, each part
\* of the invariant holds (ProposalService, ChangeSetService).
THEOREM Invariance ==
  ReviewSpec => []ReviewInv
  BY InvInit, InvStep, PTL DEF ReviewSpec

\* However many approvals of an edit race, it is recorded once (ProposalService.approve).
THEOREM AppliedOnce ==
  ReviewSpec => []EditAppliedOnce
  <1>1. ReviewInv => EditAppliedOnce
    <2> SUFFICES ASSUME ReviewInv, NEW p \in Edits
                 PROVE  Cardinality({i \in DOMAIN changeSets : changeSets[i].of = p}) <= 1
      BY DEF EditAppliedOnce
    <2> DEFINE S == {i \in DOMAIN changeSets : changeSets[i].of = p}
    <2>1. \A i, j \in S : i = j
      BY DEF ReviewInv, Once, IsOf, Edits
    <2>2. CASE S = {}
      BY <2>2, FS_EmptySet
    <2>3. CASE S # {}
      <3>1. PICK i \in S : TRUE
        BY <2>3
      <3>2. S = {i}
        BY <2>1, <3>1
      <3>3. Cardinality({i}) = 1
        BY FS_Singleton
      <3>4. Cardinality(S) = 1
        BY <3>2, <3>3, Zenon
      <3> HIDE DEF S
      <3>5. Cardinality(S) <= 1
        BY <3>4
      <3> QED  BY <3>5 DEF S
    <2> QED  BY <2>2, <2>3
  <1> QED  BY <1>1, Invariance, PTL

\* A warning is only marked fixed after a fix was recorded (ProposalService._apply).
THEOREM FixedIsApplied ==
  ReviewSpec => []FixedMeansApplied
  <1>1. ReviewInv => FixedMeansApplied
    BY DEF ReviewInv, FixSound, FixWasApplied, FixedMeansApplied
  <1> QED  BY <1>1, Invariance, PTL

\* An approval changes the shot its reviewer saw, or nothing (approve, update_shot).
THEOREM ReviewedShot ==
  ReviewSpec => AppliesToReviewedShot
  <1> DEFINE A == \A t \in Reviewers :
       call[t].op = "apply" /\ call'[t].op = "record" /\ call[t].p \in Edits
         /\ ~IsEmpty(Patch[call[t].p])
       => shot.live /\ shot.rev = proposal[call[t].p].base
  <1>1. ReviewInv /\ ReviewNext => A
    <2> SUFFICES ASSUME ReviewInv, ReviewNext, NEW t \in Reviewers,
                        call[t].op = "apply", call'[t].op = "record", call[t].p \in Edits,
                        ~IsEmpty(Patch[call[t].p])
                 PROVE  shot.live /\ shot.rev = proposal[call[t].p].base
      OBVIOUS
    <2>1. PICK p \in Proposals : p = call[t].p /\ Effective(p)
      BY DEF Edits, Effective
    <2>2. Types /\ CallsSound /\ RevisionsSound
      BY DEF ReviewInv
    <2>3. HasApplied(t)
      <3>1. call'[t] # call[t]
        <4>1. call'[t].op # call[t].op
          OBVIOUS
        <4> QED  BY <4>1
      <3>2. Moves(t)
        BY <2>2, <3>1, CallStep DEF Moves
      <3>3. ~Leaves(t) /\ ~HasRecordedFix(t)
        BY NotLeft
      <3>4. ~StartsDeciding(t) /\ ~StartsUndo(t) /\ ~HasUndone(t)
        BY DEF StartsDeciding, StartsUndo, HasUndone
      <3> QED  BY <3>2, <3>3, <3>4 DEF Moves
    <2> QED  BY <2>1, <2>2, <2>3, AppliedStep
  <1>2. ReviewInv /\ [ReviewNext]_reviewVars => [A]_reviewVars
    BY <1>1
  <1> QED  BY <1>2, Invariance, PTL DEF ReviewSpec, AppliesToReviewedShot

\* An undo that is not forced writes over nothing but what it undoes, and a prompt that a
\* refused approval has left (ChangeSetService.undo, ShotService.update_shot).
THEOREM UndoSafe ==
  ReviewSpec => UndoOverwritesNothing
  <1> DEFINE A == \A t \in Reviewers :
       call[t].op = "undo" /\ call'[t].op = "undone" /\ ~call[t].force
         /\ shot'.fields # shot.fields
       => CarriesUpToLeftovers(changeSets[call[t].i].after)
  <1>1. ReviewInv /\ ReviewNext => A
    <2> SUFFICES ASSUME ReviewInv, ReviewNext, NEW t \in Reviewers,
                        call[t].op = "undo", call'[t].op = "undone", ~call[t].force,
                        shot'.fields # shot.fields
                 PROVE  CarriesUpToLeftovers(changeSets[call[t].i].after)
      OBVIOUS
    <2>1. Types /\ CallsSound /\ UndoSound
      BY DEF ReviewInv
    <2>2. HasUndone(t)
      <3>1. call'[t] # call[t]
        <4>1. call'[t].op # call[t].op
          OBVIOUS
        <4> QED  BY <4>1
      <3>2. ~StartsUndo(t)
        <4>1. NoCall.op = "none"
          BY DEF NoCall
        <4> QED  BY <4>1 DEF StartsUndo
      <3> QED  BY <2>1, <3>1, <3>2, UndoStep
    <2>3. shot \in ShotRecords
      BY <2>1 DEF Types
    <2>4. shot' # shot /\ shot' # [shot EXCEPT !.live = TRUE]
      BY <2>3, WithLive
    <2>5. changeSets[call[t].i].kind = "patch" /\ CanUpdate(call[t].rev)
      BY <2>2, <2>4, Zenon DEF HasUndone, UndoApplies
    <2> QED  BY <2>1, <2>5 DEF UndoSound, CanUpdate
  <1>2. ReviewInv /\ [ReviewNext]_reviewVars => [A]_reviewVars
    BY <1>1
  <1> QED  BY <1>2, Invariance, PTL DEF ReviewSpec, UndoOverwritesNothing

-----------------------------------------------------------------------------
(* ContinuityChain.                                                        *)
HIDE ReviewAssumption

USE ContinuityAssumption

(* What is stored and what a request holds.                                *)
Ends      == [fact : Facts, version : Versions \cup {None}]
ChainRows == [end : Ends, warnings : SUBSET {"jump", "changed", "outdated"}]
Images    == [n : Nat, status : {"none", "ready", "stale"}, of : Ends \cup {None},
              overtaken : BOOLEAN]
Partial(V) == UNION {[S -> V] : S \in SUBSET Shots}

Kinds  == {"none", "shot", "scene", "version", "recompute", "read"}
Points == {"idle", "list", "base", "load", "commit", "stale"}
Requests ==
  [kind : Kinds, pc : Points, from : Shots \cup {None}, todo : Partial(Nat),
   sees : [scene : Facts \cup {None}, images : Partial(Nat)],
   rows : Partial(ChainRows), inserts : SUBSET Shots, alone : BOOLEAN]

StoryTypes ==
  /\ live \subseteq Shots
  /\ num \in [Shots -> Nat]
  /\ \A s \in live : num[s] > 0
  /\ fact \in [Shots -> Facts \cup {None}]
  /\ scene \in Facts /\ master \in Versions
StoreTypes ==
  /\ base \in Ends \cup {None}
  /\ chain \in [Shots -> ChainRows \cup {NoRow}]
  /\ image \in [Shots -> Images] /\ running \in [Shots -> Images]
  /\ \A s \in Shots : image[s].status = "ready" => image[s].n > 0
UncreatedOK ==
  \A s \in Shots : num[s] = 0 => chain[s] = NoRow /\ image[s] = NoImage /\ running[s].n = 0

(* What a request is for decides what it does next and what it looks at.   *)
Hooks == {"shot", "scene", "version"}
FitsKind(r) ==
  /\ r.kind = "none" => r.pc = "idle"
  /\ r.pc = "list" => r.kind = "version"
  /\ r.pc = "base" => r.sees.scene # None
  /\ r.pc = "stale" => r.kind \in Hooks
  /\ r.kind # "version" => r.todo = Nothing
  /\ r.kind = "scene" => DOMAIN r.sees.images = {}
  /\ r.kind \in {"scene", "recompute"} => r.from = None
  /\ \A s \in DOMAIN r.rows : num[s] > 0
RequestTypes ==
  /\ req \in [Clients -> Requests]
  /\ \A c \in Clients : \A r \in {req[c]} : FitsKind(r)

(* An image that is being generated shows the story, unless an edit has    *)
(* overtaken it.                                                           *)
RunningOK == \A s \in Shots : running[s].n > 0 /\ ~running[s].overtaken => running[s].of = Shown(s)

(* What a row of s says is so.                                             *)
Holds(s) == IF fact[s] # None THEN {fact[s]} ELSE {scene} \cup ({fact[t] : t \in Before(s)} \ {None})
Tells(s, row) ==
  row # NoRow =>
    /\ row.end.fact \in Holds(s)
    /\ "changed" \in row.warnings <=> row.end.fact # scene
    /\ "outdated" \in row.warnings <=> row.end.version \notin {None, master}
RowsTell(S) == \A s \in S : Tells(s, chain[s])
BaseTells   == base # None => base.fact = scene
IsCurrent(s) == image[s].status = "ready" /\ ~image[s].overtaken => image[s].of = Shown(s)

(* A request that has the scene to itself: what it is going to repair is   *)
(* all that can be out of date.                                            *)
Rewrites(r) == r.kind \in {"scene", "recompute"}
FitsPlace(r) ==
  /\ r.from \in live \cup {None}
  /\ r.kind \in {"shot", "version"} /\ r.pc \in {"load", "base", "commit"} => r.from \in live
  /\ r.kind = "shot" => r.from \in live
  /\ DOMAIN r.todo \subseteq live
FitsBase(r) ==
  /\ r.pc = "base" => r.sees.scene = scene
  /\ Rewrites(r) /\ r.pc # "base" => BaseTells
  /\ "rows" \notin suspect => (Rewrites(r) /\ r.pc = "base") \/ BaseTells
FitsCommit(r) ==
  r.pc = "commit" =>
    /\ \A s \in r.inserts : chain[s] = NoRow
    /\ DOMAIN r.rows \subseteq live
    /\ FromOn(r.from) \subseteq DOMAIN r.rows
    /\ Rewrites(r) \/ "rows" \notin suspect => \A s \in DOMAIN r.rows : Tells(s, r.rows[s])
FitsRows(r) ==
  "rows" \notin suspect =>
    /\ r.kind = "read" \/ r.pc = "stale" => RowsTell(live)
    /\ r.kind \in {"shot", "version"} /\ r.pc \in {"load", "base", "commit"} => RowsTell(Before(r.from))
Marks(r, s) ==
  /\ r.kind \in Hooks
  /\ s \in Downstream(IF r.kind = "shot" THEN r.from ELSE None)
  /\ s \in DOMAIN r.sees.images => image[s].n = r.sees.images[s]
FitsImages(r) == "images" \notin suspect => \A s \in live : IsCurrent(s) \/ Marks(r, s)
Fits(r) == FitsPlace(r) /\ FitsBase(r) /\ FitsCommit(r) /\ FitsRows(r) /\ FitsImages(r)

(* Requests have met, none is under way, or one has the scene to itself.   *)
Doubted == {"rows", "images"} \subseteq suspect /\ \A c \in Busy : ~req[c].alone
AtRest ==
  /\ Busy = {}
  /\ "rows" \notin suspect => BaseTells /\ RowsTell(live)
  /\ "images" \notin suspect => \A s \in live : IsCurrent(s)
OneAlone == \E c \in Clients : Busy = {c} /\ req[c].alone /\ \A r \in {req[c]} : Fits(r)

ChainTypes == StoryTypes /\ StoreTypes /\ UncreatedOK /\ RequestTypes
ChainInv   == ChainTypes /\ RunningOK /\ (Doubted \/ AtRest \/ OneAlone)

-----------------------------------------------------------------------------
(* Numbers of shots.                                                       *)

LEMMA LeastNumber ==
  ASSUME NEW S \in SUBSET Nat, S # {}
  PROVE  \E m \in S : \A y \in S : m <= y
  <1>1. PICK m \in S : \A y \in S : ~(<<y, m>> \in OpToRel(<, Nat))
    BY NatLessThanWellFounded, WFMin
  <1>2. ASSUME NEW y \in S  PROVE m <= y
    <2>1. y \in Nat /\ m \in Nat
      OBVIOUS
    <2>2. CASE y < m
      <3>1. <<y, m>> \in Nat \X Nat /\ <<y, m>>[1] < <<y, m>>[2]
        BY <2>1, <2>2
      <3>2. <<y, m>> \in OpToRel(<, Nat)
        BY <3>1 DEF OpToRel
      <3> QED  BY <3>2, <1>1
    <2> QED  BY <2>1, <2>2
  <1> QED  BY <1>1, <1>2

LEMMA ListIsBounded ==
  \A n \in Nat : \A f \in [1 .. n -> Nat] : \E b \in Nat : \A i \in 1 .. n : f[i] <= b
  <1> DEFINE Bad == {n \in Nat : \E f \in [1 .. n -> Nat] : \A b \in Nat : \E i \in 1 .. n : ~(f[i] <= b)}
  <1>1. SUFFICES ASSUME Bad # {}  PROVE FALSE
    OBVIOUS
  <1>2. PICK n \in Bad : \A k \in Bad : n <= k
    BY <1>1, LeastNumber
  <1>3. PICK f \in [1 .. n -> Nat] : \A b \in Nat : \E i \in 1 .. n : ~(f[i] <= b)
    BY <1>2
  <1>4. n \in Nat
    BY <1>2
  <1>40. n # 0
    <2>1. PICK i \in 1 .. n : ~(f[i] <= 0)
      BY <1>3
    <2> QED  BY <2>1
  <1>5. n - 1 \in Nat /\ n \in Nat /\ ~(n <= n - 1)
    BY <1>4, <1>40
  <1>6. n - 1 \notin Bad
    BY <1>2, <1>5
  <1>60. \A h \in [1 .. (n - 1) -> Nat] : \E b \in Nat : \A i \in 1 .. (n - 1) : h[i] <= b
    BY <1>5, <1>6
  <1> HIDE DEF Bad
  <1> DEFINE g == [i \in 1 .. (n - 1) |-> f[i]]
  <1>61. \A i \in 1 .. (n - 1) : i \in 1 .. n
    BY <1>5
  <1>7. g \in [1 .. (n - 1) -> Nat]
    BY <1>61
  <1>8. PICK b \in Nat : \A i \in 1 .. (n - 1) : g[i] <= b
    BY <1>60, <1>7
  <1>9. f[n] \in Nat
    BY <1>40, <1>5
  <1>90. b + f[n] \in Nat
    BY <1>9
  <1>10. PICK i \in 1 .. n : ~(f[i] <= b + f[n])
    BY <1>3, <1>90
  <1>11. CASE i = n
    BY <1>9, <1>10, <1>11
  <1>12. CASE i # n
    <2>1. i \in 1 .. (n - 1) /\ f[i] \in Nat
      BY <1>5, <1>12
    <2>2. f[i] <= b
      BY <2>1, <1>8
    <2>3. f[i] <= b + f[n]
      BY <2>1, <2>2, <1>9
    <2> QED  BY <2>3, <1>10
  <1> QED  BY <1>11, <1>12

LEMMA ShotsAreBounded ==
  ASSUME NEW S, IsFiniteSet(S), NEW f \in [S -> Nat]
  PROVE  \E b \in Nat : \A s \in S : f[s] <= b
  <1>1. PICK n \in Nat : ExistsBijection(1 .. n, S)
    BY FS_NatBijection
  <1>2. PICK g : g \in Bijection(1 .. n, S)
    BY <1>1 DEF ExistsBijection
  <1>3. g \in [1 .. n -> S] /\ \A s \in S : \E i \in 1 .. n : g[i] = s
    BY <1>2 DEF Bijection, Injection, Surjection
  <1> DEFINE h == [i \in 1 .. n |-> f[g[i]]]
  <1>4. h \in [1 .. n -> Nat]
    BY <1>3
  <1>5. PICK b \in Nat : \A i \in 1 .. n : h[i] <= b
    BY <1>4, ListIsBounded
  <1>6. ASSUME NEW s \in S  PROVE f[s] <= b
    <2>1. PICK i \in 1 .. n : g[i] = s
      BY <1>3
    <2>2. h[i] = f[s]
      BY <2>1
    <2> QED  BY <2>2, <1>5
  <1> QED  BY <1>6

\* Among the values of finitely many shots there is a greatest.
LEMMA GreatestNumber ==
  ASSUME NEW S, IsFiniteSet(S), S # {}, NEW f \in [S -> Nat]
  PROVE  \E t \in S : \A u \in S : f[u] <= f[t]
  <1>1. PICK b \in Nat : \A s \in S : f[s] <= b
    BY ShotsAreBounded
  <1> DEFINE T == {b - f[s] : s \in S}
  <1>2. \A s \in S : f[s] \in Nat /\ b - f[s] \in Nat
    BY <1>1
  <1>3. T \in SUBSET Nat /\ T # {}
    BY <1>2
  <1>4. PICK m \in T : \A y \in T : m <= y
    BY <1>3, LeastNumber
  <1>5. PICK t \in S : m = b - f[t]
    BY <1>4
  <1>6. ASSUME NEW u \in S  PROVE f[u] <= f[t]
    <2>1. b - f[u] \in T
      OBVIOUS
    <2>2. b - f[t] <= b - f[u]
      BY <2>1, <1>4, <1>5
    <2> QED  BY <2>2, <1>2
  <1> QED  BY <1>6

LEMMA LatestExists ==
  ASSUME StoryTypes, NEW S \in SUBSET Shots, S # {}
  PROVE  OneOf(Latest(S)) \in S
  <1>1. IsFiniteSet(S)
    BY FS_Subset
  <1> DEFINE f == [s \in S |-> num[s]]
  <1>2. f \in [S -> Nat]
    BY DEF StoryTypes
  <1>3. PICK t \in S : \A u \in S : f[u] <= f[t]
    BY <1>1, <1>2, GreatestNumber
  <1>4. t \in Latest(S)
    BY <1>3 DEF Latest
  <1>5. Latest(S) \subseteq S
    BY DEF Latest
  <1> QED  BY <1>4, <1>5 DEF OneOf

LEMMA LastNumber ==
  ASSUME StoryTypes
  PROVE  /\ 1 + Max({0} \cup {num[t] : t \in live}) \in Nat \ {0}
         /\ \A t \in live : num[t] < 1 + Max({0} \cup {num[u] : u \in live})
  <1> DEFINE S == {0} \cup {num[t] : t \in live}
  <1>1. \E m \in S : \A y \in S : m >= y
    <2>1. CASE live = {}
      BY <2>1
    <2>2. CASE live # {}
      <3>1. IsFiniteSet(live)
        BY FS_Subset DEF StoryTypes
      <3> DEFINE f == [s \in live |-> num[s]]
      <3>2. f \in [live -> Nat]
        BY DEF StoryTypes
      <3>3. PICK t \in live : \A u \in live : f[u] <= f[t]
        BY <3>1, <3>2, <2>2, GreatestNumber
      <3>4. \A y \in S : num[t] >= y
        BY <3>2, <3>3 DEF StoryTypes
      <3> QED  BY <3>4
    <2> QED  BY <2>1, <2>2
  <1>2. Max(S) \in S /\ \A y \in S : Max(S) >= y
    BY <1>1 DEF Max
  <1>3. S \subseteq Nat
    BY DEF StoryTypes
  <1>4. Max(S) \in Nat /\ 1 + Max(S) \in Nat \ {0}
    BY <1>2, <1>3
  <1>5. ASSUME NEW t \in live  PROVE num[t] < 1 + Max(S)
    <2>1. num[t] \in S
      OBVIOUS
    <2>2. num[t] \in Nat /\ num[t] <= Max(S)
      BY <2>1, <1>2, <1>3, <1>4
    <2> QED  BY <2>2, <1>4
  <1> QED  BY <1>4, <1>5

LEMMA FirstOfList ==
  ASSUME NEW list \in Partial(Nat), DOMAIN list # {}
  PROVE  /\ FirstOf(list) \in DOMAIN list
         /\ \A t \in DOMAIN list : list[FirstOf(list)] <= list[t]
  <1>1. PICK S \in SUBSET Shots : list \in [S -> Nat]
    <2>1. PICK F \in {[S -> Nat] : S \in SUBSET Shots} : list \in F
      BY DEF Partial
    <2> QED  BY <2>1
  <1> DEFINE T == {list[s] : s \in S}
  <1>20. DOMAIN list = S /\ \A s \in S : list[s] \in Nat
    BY <1>1
  <1>21. PICK s0 : s0 \in S
    BY <1>20
  <1>22. list[s0] \in T
    BY <1>21
  <1>2. T \in SUBSET Nat /\ T # {}
    BY <1>20, <1>22
  <1>3. PICK m \in T : \A y \in T : m <= y
    BY <1>2, LeastNumber
  <1>4. PICK s \in S : m = list[s]
    BY <1>3
  <1>5. \A t \in S : list[s] <= list[t]
    BY <1>3, <1>4
  <1> QED  BY <1>20, <1>4, <1>5 DEF FirstOf

-----------------------------------------------------------------------------
(* What is resolved and shown has its type.                                *)

LEMMA PreviousIsBefore ==
  ASSUME StoryTypes, NEW s
  PROVE  Previous(s) = None \/ (s # None /\ Previous(s) \in Before(s) /\ Previous(s) \in live)
  <1>1. Before(s) \in SUBSET live
    BY DEF Before
  <1>2. Before(s) \in SUBSET Shots
    BY <1>1 DEF StoryTypes
  <1>3. CASE s = None \/ Before(s) = {}
    BY <1>3 DEF Previous
  <1>4. CASE s # None /\ Before(s) # {}
    <2>1. OneOf(Latest(Before(s))) \in Before(s)
      BY <1>2, <1>4, LatestExists
    <2> QED  BY <1>1, <1>4, <2>1 DEF Previous
  <1> QED  BY <1>3, <1>4

LEMMA ShownIsAnEnd ==
  ASSUME StoryTypes, NEW s \in Shots
  PROVE  Shown(s) \in Ends
  <1>1. Stating(s) \in SUBSET live /\ \A t \in Stating(s) : fact[t] # None
    BY DEF Stating
  <1>2. ASSUME Stating(s) # {}  PROVE fact[OneOf(Latest(Stating(s)))] \in Facts
    <2>1. Stating(s) \in SUBSET Shots
      BY <1>1 DEF StoryTypes
    <2>2. OneOf(Latest(Stating(s))) \in Stating(s)
      BY <2>1, <1>2, LatestExists
    <2> QED  BY <2>1, <2>2, <1>1 DEF StoryTypes
  <1> QED  BY <1>2 DEF Shown, Ends, StoryTypes

LEMMA StatedIsAnEnd ==
  ASSUME StoryTypes, NEW s \in Shots, NEW before \in Ends
  PROVE  /\ Stated(s, before) \in Ends
         /\ Stated(s, before).fact = IF fact[s] = None THEN before.fact ELSE fact[s]
  BY DEF Stated, Ends, StoryTypes

LEMMA SeedIsAnEnd ==
  ASSUME StoryTypes, StoreTypes, NEW s
  PROVE  Seed(s) \in Ends \cup {None}
  <1>1. CASE Previous(s) = None
    BY <1>1 DEF Seed
  <1>2. CASE Previous(s) # None
    <2>1. Previous(s) \in Shots
      BY <1>2, PreviousIsBefore DEF StoryTypes
    <2>2. chain[Previous(s)] \in ChainRows \cup {NoRow}
      BY <2>1 DEF StoreTypes
    <2> QED  BY <1>2, <2>2 DEF Seed, ChainRows, NoRow
  <1> QED  BY <1>1, <1>2

LEMMA ResolvedTypes ==
  ASSUME StoryTypes, NEW from, NEW prev \in Ends \cup {None}, NEW b \in Ends
  PROVE  /\ DOMAIN Resolved(from, prev, b) = FromOn(from) /\ FromOn(from) \in SUBSET live
         /\ Resolved(from, prev, b) \in Partial(ChainRows)
         /\ \A s \in FromOn(from) :
              /\ Resolved(from, prev, b)[s].end = Stated(s, IF prev # None THEN prev ELSE b)
              /\ "changed" \in Resolved(from, prev, b)[s].warnings
                   <=> Resolved(from, prev, b)[s].end.fact # b.fact
              /\ "outdated" \in Resolved(from, prev, b)[s].warnings
                   <=> Resolved(from, prev, b)[s].end.version \notin {None, master}
  <1> DEFINE before == IF prev # None THEN prev ELSE b
             R == Resolved(from, prev, b)
  <1>1. FromOn(from) \in SUBSET live /\ FromOn(from) \in SUBSET Shots
    BY DEF FromOn, StoryTypes
  <1>2. before \in Ends
    OBVIOUS
  <1>3. R = [s \in FromOn(from) |->
               [end |-> Stated(s, before), warnings |-> Rules(prev, Stated(s, before), b)]]
    BY DEF Resolved
  <1> HIDE DEF before, R
  <1>4. ASSUME NEW start
        PROVE  /\ Rules(prev, start, b) \subseteq {"jump", "changed", "outdated"}
               /\ "changed" \in Rules(prev, start, b) <=> start.fact # b.fact
               /\ "outdated" \in Rules(prev, start, b) <=> start.version \notin {None, master}
    BY DEF Rules, Changed, Outdated
  <1>5. ASSUME NEW s \in FromOn(from)
        PROVE  /\ R[s] \in ChainRows /\ R[s].end = Stated(s, before)
               /\ R[s].warnings = Rules(prev, Stated(s, before), b)
    <2>1. Stated(s, before) \in Ends
      BY <1>1, <1>2, StatedIsAnEnd
    <2>2. Rules(prev, Stated(s, before), b) \in SUBSET {"jump", "changed", "outdated"}
      BY <1>4
    <2> QED  BY <1>3, <2>1, <2>2 DEF ChainRows
  <1>6. R \in [FromOn(from) -> ChainRows] /\ DOMAIN R = FromOn(from)
    BY <1>3, <1>5
  <1>7. R \in Partial(ChainRows)
    BY <1>1, <1>6 DEF Partial
  <1> QED  BY <1>1, <1>4, <1>5, <1>6, <1>7 DEF R, before

-----------------------------------------------------------------------------
(* Requests.                                                               *)

Asks(kind, pc, from, todo, stated, images, rows, inserts, alone) ==
  [kind |-> kind, pc |-> pc, from |-> from, todo |-> todo,
   sees |-> [scene |-> stated, images |-> images],
   rows |-> rows, inserts |-> inserts, alone |-> alone]

LEMMA AsksTypes ==
  ASSUME NEW kind \in Kinds, NEW pc \in Points, NEW from \in Shots \cup {None},
         NEW todo \in Partial(Nat), NEW stated \in Facts \cup {None}, NEW images \in Partial(Nat),
         NEW rows \in Partial(ChainRows), NEW inserts \in SUBSET Shots, NEW alone \in BOOLEAN
  PROVE  Asks(kind, pc, from, todo, stated, images, rows, inserts, alone) \in Requests
  BY DEF Asks, Requests

LEMMA NothingTypes ==
  /\ Nothing \in Partial(Nat) /\ Nothing \in Partial(ChainRows) /\ DOMAIN Nothing = {}
  <1>1. Nothing \in [{} -> Nat] /\ Nothing \in [{} -> ChainRows] /\ DOMAIN Nothing = {}
    BY DEF Nothing
  <1>2. {} \in SUBSET Shots
    OBVIOUS
  <1> QED  BY <1>1, <1>2 DEF Partial

LEMMA PartialTypes ==
  ASSUME NEW V, NEW f \in Partial(V)
  PROVE  DOMAIN f \in SUBSET Shots /\ f \in [DOMAIN f -> V]
  <1>1. PICK F \in {[S -> V] : S \in SUBSET Shots} : f \in F
    BY DEF Partial
  <1>2. PICK S \in SUBSET Shots : F = [S -> V]
    BY <1>1
  <1>3. f \in [S -> V] /\ DOMAIN f = S
    BY <1>1, <1>2
  <1> QED  BY <1>3

LEMMA EmptyIsNothing ==
  ASSUME NEW V, NEW f \in Partial(V), DOMAIN f = {}
  PROVE  f = Nothing
  <1>1. f \in [{} -> V]
    BY PartialTypes
  <1> QED  BY <1>1 DEF Nothing

LEMMA HeldTypes ==
  ASSUME StoreTypes, NEW S \in SUBSET Shots
  PROVE  Held(S) \in Partial(Nat) /\ DOMAIN Held(S) = S /\ \A s \in S : Held(S)[s] = image[s].n
  <1>1. \A s \in S : image[s].n \in Nat
    BY DEF StoreTypes, Images
  <1>2. Held(S) \in [S -> Nat] /\ DOMAIN Held(S) = S /\ \A s \in S : Held(S)[s] = image[s].n
    BY <1>1 DEF Held
  <1> QED  BY <1>2 DEF Partial

LEMMA RestTypes ==
  ASSUME NEW list \in Partial(Nat), DOMAIN list # {}
  PROVE  /\ RestOf(list) \in Partial(Nat)
         /\ DOMAIN RestOf(list) \in SUBSET DOMAIN list
  <1>1. DOMAIN list \in SUBSET Shots /\ list \in [DOMAIN list -> Nat]
    BY PartialTypes
  <1> DEFINE S == DOMAIN list \ {FirstOf(list)}
  <1>2. RestOf(list) \in [S -> Nat] /\ DOMAIN RestOf(list) = S
    BY <1>1 DEF RestOf
  <1>3. S \in SUBSET Shots
    BY <1>1
  <1> QED  BY <1>2, <1>3 DEF Partial

LEMMA IdleIs ==
  Idle = Asks("none", "idle", None, Nothing, None, Nothing, Nothing, {}, TRUE)
  <1> DEFINE q == Request("none", "idle", None)
  <1>1. q = Asks("none", "idle", None, Nothing, scene, Nothing, Nothing, {}, TRUE)
    BY DEF Request, Asks
  <1>2. Idle = [q EXCEPT !.sees = [q.sees EXCEPT !.scene = None]]
    BY DEF Idle
  <1>3. q.sees = [scene |-> scene, images |-> Nothing]
    BY <1>1 DEF Asks
  <1> HIDE DEF q
  <1>4. [q.sees EXCEPT !.scene = None] = [scene |-> None, images |-> Nothing]
    BY <1>3
  <1> QED  BY <1>1, <1>2, <1>4 DEF Asks

LEMMA IdleTypes ==
  /\ Idle \in Requests /\ Idle.pc = "idle"
  /\ \A r \in {Idle} : FitsKind(r)'
  <1>1. PICK r : r = Idle
    OBVIOUS
  <1>2. r \in Requests
    BY <1>1, IdleIs, NothingTypes, AsksTypes DEF Kinds, Points
  <1>3. FitsKind(r)'
    BY <1>1, IdleIs, NothingTypes DEF FitsKind, Asks
  <1>4. r.pc = "idle"
    BY <1>1, IdleIs DEF Asks
  <1> QED  BY <1>1, <1>2, <1>3, <1>4

LEMMA AsksOfRequest ==
  ASSUME NEW q \in Requests
  PROVE  /\ q = Asks(q.kind, q.pc, q.from, q.todo, q.sees.scene, q.sees.images, q.rows, q.inserts, q.alone)
         /\ q.kind \in Kinds /\ q.pc \in Points /\ q.from \in Shots \cup {None}
         /\ q.todo \in Partial(Nat) /\ q.sees.scene \in Facts \cup {None}
         /\ q.sees.images \in Partial(Nat) /\ q.rows \in Partial(ChainRows)
         /\ q.inserts \in SUBSET Shots /\ q.alone \in BOOLEAN
  BY DEF Requests, Asks

\* What a request becomes in each of its steps.
Listed == [s \in live |-> num[s]]
Opens(q) ==
  Asks(q.kind, "load", FirstOf(Listed), RestOf(Listed), q.sees.scene, Held(live), q.rows, q.inserts, q.alone)
Advances(q, pc) ==
  Asks(q.kind, pc, q.from, q.todo, q.sees.scene, q.sees.images, q.rows, q.inserts, q.alone)
LooksAtScene(q) ==
  Asks(q.kind, "base", q.from, q.todo, scene, q.sees.images, q.rows, q.inserts, q.alone)
Rows(q) == Resolved(From(q.from), Seed(From(q.from)), base)
Resolves(q) ==
  Asks(q.kind, "commit", q.from, q.todo, q.sees.scene, q.sees.images, Rows(q),
       {s \in DOMAIN Rows(q) : chain[s] = NoRow}, q.alone)
TurnsTo(q) ==
  Asks(q.kind, "load", FirstOf(q.todo), RestOf(q.todo), q.sees.scene, q.sees.images, Nothing, {}, q.alone)
Finishes(q) ==
  Asks(q.kind, "stale", q.from, q.todo, q.sees.scene, q.sees.images, Nothing, {}, q.alone)

\* Updates of a request, field by field.
LEMMA AsksUpdates ==
  ASSUME NEW k, NEW p, NEW f, NEW t, NEW sc, NEW im, NEW ro, NEW ins, NEW al,
         NEW p2, NEW f2, NEW t2, NEW sc2, NEW im2, NEW ro2, NEW ins2, NEW q,
         q = Asks(k, p, f, t, sc, im, ro, ins, al)
  PROVE  /\ [q EXCEPT !.pc = p2] = Asks(k, p2, f, t, sc, im, ro, ins, al)
         /\ [q EXCEPT !.from = f2] = Asks(k, p, f2, t, sc, im, ro, ins, al)
         /\ [q EXCEPT !.todo = t2] = Asks(k, p, f, t2, sc, im, ro, ins, al)
         /\ [q EXCEPT !.rows = ro2] = Asks(k, p, f, t, sc, im, ro2, ins, al)
         /\ [q EXCEPT !.inserts = ins2] = Asks(k, p, f, t, sc, im, ro, ins2, al)
         /\ [q EXCEPT !.sees.scene = sc2] = Asks(k, p, f, t, sc2, im, ro, ins, al)
         /\ [q EXCEPT !.sees.images = im2] = Asks(k, p, f, t, sc, im2, ro, ins, al)
  <1>1. [q EXCEPT !.pc = p2] = Asks(k, p2, f, t, sc, im, ro, ins, al)
    BY DEF Asks
  <1>2. [q EXCEPT !.from = f2] = Asks(k, p, f2, t, sc, im, ro, ins, al)
    BY DEF Asks
  <1>3. [q EXCEPT !.todo = t2] = Asks(k, p, f, t2, sc, im, ro, ins, al)
    BY DEF Asks
  <1>4. [q EXCEPT !.rows = ro2] = Asks(k, p, f, t, sc, im, ro2, ins, al)
    BY DEF Asks
  <1>5. [q EXCEPT !.inserts = ins2] = Asks(k, p, f, t, sc, im, ro, ins2, al)
    BY DEF Asks
  <1>6. q.sees = [scene |-> sc, images |-> im]
    BY DEF Asks
  <1>7. [q.sees EXCEPT !.scene = sc2] = [scene |-> sc2, images |-> im]
    BY <1>6
  <1>8. [q.sees EXCEPT !.images = im2] = [scene |-> sc, images |-> im2]
    BY <1>6
  <1>9. [q EXCEPT !.sees.scene = sc2] = [q EXCEPT !.sees = [scene |-> sc2, images |-> im]]
    BY <1>7
  <1>10. [q EXCEPT !.sees.images = im2] = [q EXCEPT !.sees = [scene |-> sc, images |-> im2]]
    BY <1>8
  <1>11. [q EXCEPT !.sees = [scene |-> sc2, images |-> im]] = Asks(k, p, f, t, sc2, im, ro, ins, al)
    BY DEF Asks
  <1>12. [q EXCEPT !.sees = [scene |-> sc, images |-> im2]] = Asks(k, p, f, t, sc, im2, ro, ins, al)
    BY DEF Asks
  <1> QED  BY <1>1, <1>2, <1>3, <1>4, <1>5, <1>9, <1>10, <1>11, <1>12

LEMMA ListsShotsAsks ==
  ASSUME req \in [Clients -> Requests], NEW c \in Clients, ListsShots(c), live # {}
  PROVE  req' = [req EXCEPT ![c] = Opens(req[c])]
  <1>1. req' = [req EXCEPT ![c].pc = "load", ![c].from = FirstOf(Listed), ![c].todo = RestOf(Listed),
                           ![c].sees.images = Held(live)]
    BY DEF ListsShots, Listed
  <1> DEFINE q  == req[c]
             q1 == [q EXCEPT !.pc = "load"]
             q2 == [q1 EXCEPT !.from = FirstOf(Listed)]
             q3 == [q2 EXCEPT !.todo = RestOf(Listed)]
             q4 == [q3 EXCEPT !.sees.images = Held(live)]
  <1>2. req' = [req EXCEPT ![c] = q4]
    BY <1>1
  <1>3. q = Asks(q.kind, q.pc, q.from, q.todo, q.sees.scene, q.sees.images, q.rows, q.inserts, q.alone)
    BY AsksOfRequest
  <1> HIDE DEF q, q1, q2, q3, q4
  <1>4. q1 = Asks(q.kind, "load", q.from, q.todo, q.sees.scene, q.sees.images, q.rows, q.inserts, q.alone)
    BY <1>3, AsksUpdates DEF q1
  <1>5. q2 = Asks(q.kind, "load", FirstOf(Listed), q.todo, q.sees.scene, q.sees.images, q.rows, q.inserts, q.alone)
    BY <1>4, AsksUpdates DEF q2
  <1>6. q3 = Asks(q.kind, "load", FirstOf(Listed), RestOf(Listed), q.sees.scene, q.sees.images,
                  q.rows, q.inserts, q.alone)
    BY <1>5, AsksUpdates DEF q3
  <1>7. q4 = Opens(q)
    BY <1>6, AsksUpdates DEF q4, Opens
  <1> QED  BY <1>2, <1>7 DEF q

LEMMA GoesAsks ==
  ASSUME req \in [Clients -> Requests], NEW c \in Clients, NEW pc, Goes(c, pc)
  PROVE  req' = [req EXCEPT ![c] = Advances(req[c], pc)]
  <1>1. req' = [req EXCEPT ![c].pc = pc]
    BY DEF Goes
  <1> DEFINE q  == req[c]
             q1 == [q EXCEPT !.pc = pc]
  <1>10. req' = [req EXCEPT ![c] = q1]
    BY <1>1
  <1>11. q = Asks(q.kind, q.pc, q.from, q.todo, q.sees.scene, q.sees.images, q.rows, q.inserts, q.alone)
    BY AsksOfRequest
  <1> HIDE DEF q, q1
  <1>12. q1 = Advances(q, pc)
    BY <1>11, AsksUpdates DEF q1, Advances
  <1> QED  BY <1>10, <1>12 DEF q

LEMMA ChainLoadsAsks ==
  ASSUME req \in [Clients -> Requests], NEW c \in Clients, ChainLoads(c)
  PROVE  IF base = None THEN req' = [req EXCEPT ![c] = LooksAtScene(req[c])]
         ELSE IF live = {} \/ req[c].from \notin live \cup {None} THEN Ended(c)
         ELSE req' = [req EXCEPT ![c] = Resolves(req[c])]
  <1>1. CASE base = None
    <2>1. req' = [req EXCEPT ![c].pc = "base", ![c].sees.scene = scene]
      BY <1>1 DEF ChainLoads
    <2>2. req' = [req EXCEPT ![c] = LooksAtScene(req[c])]
      <3> DEFINE q  == req[c]
                 q1 == [q EXCEPT !.pc = "base"]
                 q2 == [q1 EXCEPT !.sees.scene = scene]
      <3>10. req' = [req EXCEPT ![c] = q2]
        BY <2>1
      <3>11. q = Asks(q.kind, q.pc, q.from, q.todo, q.sees.scene, q.sees.images, q.rows, q.inserts, q.alone)
        BY AsksOfRequest
      <3> HIDE DEF q, q1, q2
      <3>12. q1 = Asks(q.kind, "base", q.from, q.todo, q.sees.scene, q.sees.images, q.rows, q.inserts, q.alone)
        BY <3>11, AsksUpdates DEF q1
      <3>13. q2 = LooksAtScene(q)
        BY <3>12, AsksUpdates DEF q2, LooksAtScene
      <3> QED  BY <3>10, <3>13 DEF q
    <2> QED  BY <1>1, <2>2
  <1>2. CASE base # None /\ (live = {} \/ req[c].from \notin live \cup {None})
    BY <1>2 DEF ChainLoads
  <1>3. CASE base # None /\ ~(live = {} \/ req[c].from \notin live \cup {None})
    <2>1. req' = [req EXCEPT ![c].pc = "commit", ![c].rows = Rows(req[c]),
                             ![c].inserts = {s \in DOMAIN Rows(req[c]) : chain[s] = NoRow}]
      BY <1>3 DEF ChainLoads, Rows
    <2> DEFINE ro == Rows(req[c])
               ins == {s \in DOMAIN Rows(req[c]) : chain[s] = NoRow}
    <2>2. ro = Rows(req[c]) /\ ins = {s \in DOMAIN Rows(req[c]) : chain[s] = NoRow}
      OBVIOUS
    <2> HIDE DEF ro, ins
    <2>3. req' = [req EXCEPT ![c] = Resolves(req[c])]
      <3> DEFINE q  == req[c]
                 q1 == [q EXCEPT !.pc = "commit"]
                 q2 == [q1 EXCEPT !.rows = ro]
                 q3 == [q2 EXCEPT !.inserts = ins]
      <3>10. req' = [req EXCEPT ![c] = q3]
        BY <2>1, <2>2
      <3>11. q = Asks(q.kind, q.pc, q.from, q.todo, q.sees.scene, q.sees.images, q.rows, q.inserts, q.alone)
        BY AsksOfRequest
      <3> HIDE DEF q, q1, q2, q3
      <3>12. q1 = Asks(q.kind, "commit", q.from, q.todo, q.sees.scene, q.sees.images, q.rows, q.inserts, q.alone)
        BY <3>11, AsksUpdates DEF q1
      <3>13. q2 = Asks(q.kind, "commit", q.from, q.todo, q.sees.scene, q.sees.images, ro, q.inserts, q.alone)
        BY <3>12, AsksUpdates DEF q2
      <3>14. q3 = Asks(q.kind, "commit", q.from, q.todo, q.sees.scene, q.sees.images, ro, ins, q.alone)
        BY <3>13, AsksUpdates DEF q3
      <3>15. ro = Rows(q) /\ ins = {s \in DOMAIN Rows(q) : chain[s] = NoRow}
        BY <2>2 DEF q
      <3>16. q3 = Resolves(q)
        BY <3>14, <3>15 DEF Resolves
      <3> QED  BY <3>10, <3>16 DEF q
    <2> QED  BY <1>3, <2>3
  <1> QED  BY <1>1, <1>2, <1>3

LEMMA ChainCommitsAsks ==
  ASSUME req \in [Clients -> Requests], NEW c \in Clients, ChainCommits(c)
  PROVE  IF \E s \in req[c].inserts : chain[s] # NoRow
         THEN Ended(c) /\ UNCHANGED <<chain, suspect>>
         ELSE /\ chain' = [s \in Shots |-> IF s \in DOMAIN req[c].rows THEN req[c].rows[s] ELSE chain[s]]
              /\ suspect' = IF req[c].kind \in {"scene", "recompute"} /\ req[c].alone
                            THEN suspect \ {"rows"} ELSE suspect
              /\ \/ req[c].todo # Nothing /\ req' = [req EXCEPT ![c] = TurnsTo(req[c])]
                 \/ req[c].todo = Nothing /\ req[c].kind \in Hooks /\ req' = [req EXCEPT ![c] = Finishes(req[c])]
                 \/ req[c].todo = Nothing /\ req[c].kind \notin Hooks /\ Ended(c)
  <1>1. CASE \E s \in req[c].inserts : chain[s] # NoRow
    BY <1>1 DEF ChainCommits
  <1>2. CASE ~(\E s \in req[c].inserts : chain[s] # NoRow)
    <2>1. /\ chain' = [s \in Shots |-> IF s \in DOMAIN req[c].rows THEN req[c].rows[s] ELSE chain[s]]
          /\ suspect' = IF req[c].kind \in {"scene", "recompute"} /\ req[c].alone
                        THEN suspect \ {"rows"} ELSE suspect
      BY <1>2 DEF ChainCommits
    <2>2. CASE req[c].todo # Nothing
      <3>1. req' = [req EXCEPT ![c].pc = "load", ![c].from = FirstOf(req[c].todo), ![c].todo = RestOf(req[c].todo),
                               ![c].rows = Nothing, ![c].inserts = {}]
        BY <1>2, <2>2 DEF ChainCommits
      <3>2. req' = [req EXCEPT ![c] = TurnsTo(req[c])]
        <4> DEFINE q  == req[c]
                   q1 == [q EXCEPT !.pc = "load"]
                   q2 == [q1 EXCEPT !.from = FirstOf(req[c].todo)]
                   q3 == [q2 EXCEPT !.todo = RestOf(req[c].todo)]
                   q4 == [q3 EXCEPT !.rows = Nothing]
                   q5 == [q4 EXCEPT !.inserts = {}]
        <4>10. req' = [req EXCEPT ![c] = q5]
          BY <3>1
        <4>11. q = Asks(q.kind, q.pc, q.from, q.todo, q.sees.scene, q.sees.images, q.rows, q.inserts, q.alone)
          BY AsksOfRequest
        <4> HIDE DEF q, q1, q2, q3, q4, q5
        <4>12. q1 = Asks(q.kind, "load", q.from, q.todo, q.sees.scene, q.sees.images, q.rows, q.inserts, q.alone)
          BY <4>11, AsksUpdates DEF q1
        <4>13. q2 = Asks(q.kind, "load", FirstOf(req[c].todo), q.todo, q.sees.scene, q.sees.images, q.rows, q.inserts, q.alone)
          BY <4>12, AsksUpdates DEF q2
        <4>14. q3 = Asks(q.kind, "load", FirstOf(req[c].todo), RestOf(req[c].todo), q.sees.scene, q.sees.images, q.rows, q.inserts, q.alone)
          BY <4>13, AsksUpdates DEF q3
        <4>15. q4 = Asks(q.kind, "load", FirstOf(req[c].todo), RestOf(req[c].todo), q.sees.scene, q.sees.images, Nothing, q.inserts, q.alone)
          BY <4>14, AsksUpdates DEF q4
        <4>16. q5 = Asks(q.kind, "load", FirstOf(req[c].todo), RestOf(req[c].todo), q.sees.scene, q.sees.images, Nothing, {}, q.alone)
          BY <4>15 DEF q5, Asks
        <4>17. q5 = TurnsTo(q)
          BY <4>16 DEF TurnsTo, q
        <4> QED  BY <4>10, <4>17 DEF q
      <3> QED  BY <1>2, <2>1, <2>2, <3>2
    <2>3. CASE req[c].todo = Nothing /\ req[c].kind \in Hooks
      <3>1. req' = [req EXCEPT ![c].pc = "stale", ![c].rows = Nothing, ![c].inserts = {}]
        BY <1>2, <2>3 DEF ChainCommits, Hooks
      <3>2. req' = [req EXCEPT ![c] = Finishes(req[c])]
        <4> DEFINE q  == req[c]
                   q1 == [q EXCEPT !.pc = "stale"]
                   q2 == [q1 EXCEPT !.rows = Nothing]
                   q3 == [q2 EXCEPT !.inserts = {}]
        <4>10. req' = [req EXCEPT ![c] = q3]
          BY <3>1
        <4>11. q = Asks(q.kind, q.pc, q.from, q.todo, q.sees.scene, q.sees.images, q.rows, q.inserts, q.alone)
          BY AsksOfRequest
        <4> HIDE DEF q, q1, q2, q3
        <4>12. q1 = Asks(q.kind, "stale", q.from, q.todo, q.sees.scene, q.sees.images, q.rows, q.inserts, q.alone)
          BY <4>11, AsksUpdates DEF q1
        <4>13. q2 = Asks(q.kind, "stale", q.from, q.todo, q.sees.scene, q.sees.images, Nothing, q.inserts, q.alone)
          BY <4>12, AsksUpdates DEF q2
        <4>14. q3 = Asks(q.kind, "stale", q.from, q.todo, q.sees.scene, q.sees.images, Nothing, {}, q.alone)
          BY <4>13 DEF q3, Asks
        <4>15. q3 = Finishes(q)
          BY <4>14 DEF Finishes
        <4> QED  BY <4>10, <4>15 DEF q
      <3> QED  BY <1>2, <2>1, <2>3, <3>2
    <2>4. CASE req[c].todo = Nothing /\ req[c].kind \notin Hooks
      <3>1. Ended(c)
        BY <1>2, <2>4 DEF ChainCommits, Hooks
      <3> QED  BY <1>2, <2>1, <2>4, <3>1
    <2> QED  BY <2>2, <2>3, <2>4
  <1> QED  BY <1>1, <1>2

LEMMA AsksAlone ==
  ASSUME NEW k, NEW p, NEW f, NEW t, NEW sc, NEW im, NEW ro, NEW ins, NEW al, NEW al2
  PROVE  [Asks(k, p, f, t, sc, im, ro, ins, al) EXCEPT !.alone = al2]
           = Asks(k, p, f, t, sc, im, ro, ins, al2)
  BY DEF Asks

LEMMA RequestIs ==
  ASSUME NEW kind, NEW pc, NEW from
  PROVE  Request(kind, pc, from) = Asks(kind, pc, from, Nothing, scene, Nothing, Nothing, {}, TRUE)
  BY DEF Request, Asks

\* A new request, and the ones it meets.
Alike(q) == {q, [q EXCEPT !.alone = TRUE], [q EXCEPT !.alone = FALSE]}

LEMMA AlikeTypes ==
  ASSUME NEW q \in Requests, NEW r \in Alike(q)
  PROVE  /\ r \in Requests
         /\ r.kind = q.kind /\ r.pc = q.pc /\ r.from = q.from /\ r.todo = q.todo /\ r.sees = q.sees
         /\ r.rows = q.rows /\ r.inserts = q.inserts
  BY DEF Alike, Requests

NumbersStay == \A s \in Shots : num[s] > 0 => num'[s] > 0

LEMMA RequestsKept ==
  ASSUME RequestTypes, NumbersStay, req' = [d \in Clients |-> req'[d]],
         \A d \in Clients :
           \/ req'[d] \in Alike(req[d])
           \/ req'[d] \in Requests /\ \A r \in {req'[d]} : FitsKind(r)'
  PROVE  RequestTypes'
  <1>1. ASSUME NEW d \in Clients, NEW r, r = req'[d]  PROVE r \in Requests /\ FitsKind(r)'
    <2>1. CASE r \in Alike(req[d])
      <3>1. PICK q : q = req[d]
        OBVIOUS
      <3>2. q \in Requests /\ FitsKind(q)
        BY <3>1 DEF RequestTypes
      <3>3. /\ r \in Requests /\ DOMAIN r.rows \in SUBSET Shots
            /\ r.kind = q.kind /\ r.pc = q.pc /\ r.from = q.from /\ r.todo = q.todo /\ r.sees = q.sees
            /\ r.rows = q.rows /\ r.inserts = q.inserts
        <4>1. r \in Alike(q)
          BY <2>1, <3>1
        <4>2. r.rows \in Partial(ChainRows)
          BY <4>1, <3>2, AlikeTypes, AsksOfRequest
        <4> QED  BY <4>1, <4>2, <3>2, AlikeTypes, PartialTypes
      <3>4. \A s \in DOMAIN r.rows : num'[s] > 0
        BY <3>2, <3>3 DEF FitsKind, NumbersStay
      <3> QED  BY <3>2, <3>3, <3>4 DEF FitsKind
    <2>2. CASE ~(r \in Alike(req[d]))
      BY <1>1, <2>2
    <2> QED  BY <2>1, <2>2
  <1>2. \A d \in Clients : req'[d] \in Requests
    BY <1>1
  <1>3. req' \in [Clients -> Requests]
    BY <1>2
  <1>4. \A d \in Clients : \A r \in {req'[d]} : FitsKind(r)'
    BY <1>1
  <1> QED  BY <1>3, <1>4 DEF RequestTypes

LEMMA JoinedIs ==
  ASSUME RequestTypes
  PROVE  /\ Joined \in [Clients -> Requests]
         /\ \A d \in Clients : /\ Joined[d] = [req[d] EXCEPT !.alone = d \notin Busy]
                                /\ Joined[d] \in Alike(req[d])
  <1>1. \A d \in Clients : Joined[d] = [req[d] EXCEPT !.alone = d \notin Busy]
    BY DEF Joined
  <1>2. ASSUME NEW d \in Clients  PROVE Joined[d] \in Alike(req[d]) /\ Joined[d] \in Requests
    <2>1. PICK b \in BOOLEAN : b = (d \notin Busy)
      OBVIOUS
    <2>2. Joined[d] = [req[d] EXCEPT !.alone = b]
      BY <1>1, <2>1
    <2>3. Joined[d] \in Alike(req[d])
      BY <2>1, <2>2 DEF Alike
    <2>4. req[d] \in Requests
      BY DEF RequestTypes
    <2> QED  BY <2>3, <2>4, AlikeTypes
  <1> QED  BY <1>1, <1>2 DEF Joined

\* A request as it starts.
Begins(r, k, p, f, sc, im) ==
  /\ r.kind = k /\ r.pc = p /\ r.from = f /\ r.todo = Nothing
  /\ r.sees.scene = sc /\ r.sees.images = im
  /\ r.alone <=> Busy = {}
\* What it makes of the others.
Meets(c) == \A d \in Clients \ {c} : req'[d].pc = req[d].pc /\ (req'[d].alone <=> d \notin Busy)

LEMMA StartsAsks ==
  ASSUME RequestTypes, NumbersStay, NEW c \in Clients, NEW k \in Kinds, NEW p \in Points, NEW f \in Shots \cup {None},
         NEW sc \in Facts \cup {None}, NEW im \in Partial(Nat),
         k # "none", p = "list" => k = "version", p = "base" => sc # None, p # "stale",
         k = "scene" => DOMAIN im = {}, k \in {"scene", "recompute"} => f = None,
         Starts(c, Asks(k, p, f, Nothing, sc, im, Nothing, {}, TRUE))
  PROVE  /\ RequestTypes'
         /\ Begins(req'[c], k, p, f, sc, im)
         /\ Meets(c)
         /\ suspect' = suspect \cup Met
  <1>1. PICK b \in BOOLEAN : b = (Busy = {})
    OBVIOUS
  <1> DEFINE r0 == Asks(k, p, f, Nothing, sc, im, Nothing, {}, TRUE)
             r1 == Asks(k, p, f, Nothing, sc, im, Nothing, {}, b)
  <1>2. req' = [Joined EXCEPT ![c] = [r0 EXCEPT !.alone = b]] /\ suspect' = suspect \cup Met
    BY <1>1 DEF Starts
  <1>3. [r0 EXCEPT !.alone = b] = r1
    <2>1. ASSUME NEW n, NEW e, NEW t
          PROVE  [Asks(k, p, f, n, sc, im, n, e, t) EXCEPT !.alone = b] = Asks(k, p, f, n, sc, im, n, e, b)
      BY ONLY AsksAlone
    <2>2. [Asks(k, p, f, Nothing, sc, im, Nothing, {}, TRUE) EXCEPT !.alone = b]
            = Asks(k, p, f, Nothing, sc, im, Nothing, {}, b)
      BY ONLY <2>1, Zenon
    <2> QED  BY <2>2
  <1>4. r1 \in Requests
    BY NothingTypes, AsksTypes
  <1>5. FitsKind(r1)'
    BY NothingTypes DEF FitsKind, Asks
  <1> HIDE DEF r0, r1
  <1>6. req' = [Joined EXCEPT ![c] = r1]
    BY <1>2, <1>3
  <1>7. req'[c] = r1 /\ req' = [d \in Clients |-> req'[d]] /\ \A d \in Clients \ {c} : req'[d] = Joined[d]
    BY <1>6, JoinedIs
  <1>8. RequestTypes'
    BY <1>4, <1>5, <1>7, JoinedIs, RequestsKept
  <1>9. ASSUME NEW r, r = req'[c]
        PROVE  Begins(r, k, p, f, sc, im)
    <2>1. r = r1
      BY <1>7, <1>9
    <2> QED  BY <1>1, <2>1 DEF r1, Asks, Begins
  <1>10. ASSUME NEW d \in Clients \ {c}
         PROVE  req'[d].pc = req[d].pc /\ (req'[d].alone <=> d \notin Busy)
    <2>1. PICK a \in BOOLEAN : a = (d \notin Busy)
      OBVIOUS
    <2>2. req'[d] = [req[d] EXCEPT !.alone = a] /\ req[d] \in Requests
      BY <2>1, <1>7, JoinedIs DEF RequestTypes
    <2>3. req'[d].pc = req[d].pc /\ req'[d].alone = a
      BY <2>2 DEF Requests
    <2> QED  BY <2>1, <2>3
  <1>11. Meets(c)
    BY <1>10 DEF Meets
  <1> QED  BY <1>2, <1>8, <1>9, <1>11

\* The requests that are made.
LEMMA EditShotStarts ==
  ASSUME ChainTypes, NEW c \in Clients, NEW s \in Shots, NEW v, EditShot(c, s, v)
  PROVE  Starts(c, Asks("shot", "load", s, Nothing, scene, Held({s}), Nothing, {}, TRUE))
  <1>1. PICK q, n, st, x, e, t : /\ q = Request("shot", "load", s)
                               /\ n = Nothing /\ st = scene /\ x = Held({s}) /\ e = {} /\ t = TRUE
    OBVIOUS
  <1>2. q = Asks("shot", "load", s, n, st, n, n, e, t)
    BY <1>1, RequestIs
  <1>3. [q EXCEPT !.sees.images = x] = Asks("shot", "load", s, n, st, x, n, e, t)
    BY ONLY <1>2, AsksUpdates
  <1>4. Starts(c, [q EXCEPT !.sees.images = x])
    BY <1>1 DEF EditShot
  <1> QED  BY <1>1, <1>3, <1>4

LEMMA EditSceneStarts ==
  ASSUME ChainTypes, NEW c \in Clients, NEW v, EditScene(c, v)
  PROVE  Starts(c, Asks("scene", "base", None, Nothing, v, Nothing, Nothing, {}, TRUE))
  <1>1. PICK q, n, st, x, e, t : /\ q = Request("scene", "base", None)
                               /\ n = Nothing /\ st = scene /\ x = v /\ e = {} /\ t = TRUE
    OBVIOUS
  <1>2. q = Asks("scene", "base", None, n, st, n, n, e, t)
    BY <1>1, RequestIs
  <1>3. [q EXCEPT !.sees.scene = x] = Asks("scene", "base", None, n, x, n, n, e, t)
    BY ONLY <1>2, AsksUpdates
  <1>4. Starts(c, [q EXCEPT !.sees.scene = x])
    BY <1>1 DEF EditScene
  <1> QED  BY <1>1, <1>3, <1>4

LEMMA OthersStart ==
  ASSUME ChainTypes, NEW c \in Clients
  PROVE  /\ \A v : ActivateVersion(c, v) =>
               Starts(c, Asks("version", "list", None, Nothing, scene, Nothing, Nothing, {}, TRUE))
         /\ Recompute(c) =>
               Starts(c, Asks("recompute", "base", None, Nothing, scene, Nothing, Nothing, {}, TRUE))
         /\ ReadScene(c) =>
               Starts(c, Asks("read", IF base = None THEN "base" ELSE "load", None, Nothing, scene, Nothing,
                              Nothing, {}, TRUE))
         /\ \A s : ReadShot(c, s) =>
               Starts(c, Asks("read", "load", s, Nothing, scene, Nothing, Nothing, {}, TRUE))
  BY RequestIs DEF ActivateVersion, Recompute, ReadScene, ReadShot

\* A step of one request.
LEMMA OneRequestKept ==
  ASSUME RequestTypes, num' = num, NEW c \in Clients, NEW r \in Requests, FitsKind(r)',
         req' = [req EXCEPT ![c] = r]
  PROVE  RequestTypes' /\ req'[c] = r /\ \A d \in Clients \ {c} : req'[d] = req[d]
  <1>1. req' = [d \in Clients |-> req'[d]] /\ req'[c] = r /\ \A d \in Clients \ {c} : req'[d] = req[d]
    BY DEF RequestTypes
  <1>2. NumbersStay
    BY DEF NumbersStay
  <1>3. \A d \in Clients : req[d] \in Alike(req[d])
    BY DEF Alike
  <1> QED  BY <1>1, <1>2, <1>3, RequestsKept

LEMMA EndedKept ==
  ASSUME RequestTypes, num' = num, NEW c \in Clients, Ended(c)
  PROVE  /\ RequestTypes' /\ req'[c] = Idle /\ req'[c].pc = "idle"
         /\ \A d \in Clients \ {c} : req'[d] = req[d]
  <1>1. PICK r : r = Idle
    OBVIOUS
  <1>2. req' = [req EXCEPT ![c] = r]
    BY <1>1 DEF Ended
  <1> QED  BY <1>1, <1>2, IdleTypes, OneRequestKept

\* The steps of a request leave it a request.
LEMMA StepsOfRequests ==
  ASSUME ChainTypes, num' = num, NEW c \in Clients, NEW q, q = req[c], q.pc # "idle"
  PROVE  /\ q.pc = "list" /\ live # {} => Opens(q) \in Requests /\ \A r \in {Opens(q)} : FitsKind(r)'
         /\ Advances(q, "load") \in Requests /\ \A r \in {Advances(q, "load")} : FitsKind(r)'
         /\ LooksAtScene(q) \in Requests /\ \A r \in {LooksAtScene(q)} : FitsKind(r)'
         /\ base # None /\ q.from \in live \cup {None} =>
              Resolves(q) \in Requests /\ \A r \in {Resolves(q)} : FitsKind(r)'
         /\ q.todo # Nothing => TurnsTo(q) \in Requests /\ \A r \in {TurnsTo(q)} : FitsKind(r)'
         /\ q.kind \in Hooks => Finishes(q) \in Requests /\ \A r \in {Finishes(q)} : FitsKind(r)'
  <1>1. q \in Requests /\ FitsKind(q) /\ q.kind # "none"
    BY DEF ChainTypes, RequestTypes, FitsKind
  <1>2. /\ q.kind \in Kinds /\ q.pc \in Points /\ q.from \in Shots \cup {None}
        /\ q.todo \in Partial(Nat) /\ q.sees.scene \in Facts \cup {None}
        /\ q.sees.images \in Partial(Nat) /\ q.rows \in Partial(ChainRows)
        /\ q.inserts \in SUBSET Shots /\ q.alone \in BOOLEAN
    BY <1>1, AsksOfRequest
  <1>3. live \in SUBSET Shots /\ scene \in Facts /\ \A s \in live : num[s] > 0
    BY DEF ChainTypes, StoryTypes
  <1>4. \A s \in DOMAIN q.rows : num'[s] > 0
    BY <1>1 DEF FitsKind
  <1>5. "load" \in Points /\ "base" \in Points /\ "commit" \in Points /\ "stale" \in Points /\ {} \in SUBSET Shots
    BY DEF Points
  <1>6. ASSUME q.pc = "list", live # {}
        PROVE  Opens(q) \in Requests /\ \A r \in {Opens(q)} : FitsKind(r)'
    <2>1. Listed \in [live -> Nat] /\ DOMAIN Listed = live
      BY <1>3 DEF Listed, ChainTypes, StoryTypes
    <2>2. Listed \in Partial(Nat)
      BY <1>3, <2>1 DEF Partial
    <2>3. FirstOf(Listed) \in Shots /\ RestOf(Listed) \in Partial(Nat)
      BY <1>3, <1>6, <2>1, <2>2, FirstOfList, RestTypes
    <2>4. Held(live) \in Partial(Nat)
      BY <1>3, HeldTypes DEF ChainTypes
    <2>5. q.kind = "version"
      BY <1>1, <1>6 DEF FitsKind
    <2>6. PICK r : r = Opens(q)
      OBVIOUS
    <2>7. r \in Requests
      BY <1>2, <1>5, <2>3, <2>4, <2>6, AsksTypes DEF Opens
    <2>8. r.kind = "version" /\ r.pc = "load" /\ r.rows = q.rows
      BY <2>5, <2>6 DEF Opens, Asks
    <2>9. FitsKind(r)'
      BY <2>8, <1>4 DEF FitsKind
    <2> QED  BY <2>6, <2>7, <2>9
  <1>7. Advances(q, "load") \in Requests /\ \A r \in {Advances(q, "load")} : FitsKind(r)'
    <2>1. PICK r : r = Advances(q, "load")
      OBVIOUS
    <2>2. r \in Requests
      BY <1>2, <1>5, <2>1, AsksTypes DEF Advances
    <2>3. /\ r.kind = q.kind /\ r.pc = "load" /\ r.from = q.from /\ r.todo = q.todo /\ r.rows = q.rows
          /\ r.sees.images = q.sees.images
      BY <2>1 DEF Advances, Asks
    <2>4. FitsKind(r)'
      BY <2>3, <1>1, <1>4 DEF FitsKind
    <2> QED  BY <2>1, <2>2, <2>4
  <1>8. LooksAtScene(q) \in Requests /\ \A r \in {LooksAtScene(q)} : FitsKind(r)'
    <2>1. PICK r : r = LooksAtScene(q)
      OBVIOUS
    <2>2. r \in Requests
      BY <1>2, <1>3, <1>5, <2>1, AsksTypes DEF LooksAtScene
    <2>3. /\ r.kind = q.kind /\ r.pc = "base" /\ r.from = q.from /\ r.todo = q.todo /\ r.rows = q.rows
          /\ r.sees.images = q.sees.images /\ r.sees.scene = scene
      BY <2>1 DEF LooksAtScene, Asks
    <2>4. r.sees.scene # None
      BY <1>3, <2>3
    <2>5. FitsKind(r)'
      BY <2>3, <2>4, <1>1, <1>4 DEF FitsKind
    <2> QED  BY <2>1, <2>2, <2>5
  <1>9. ASSUME base # None, q.from \in live \cup {None}
        PROVE  Resolves(q) \in Requests /\ \A r \in {Resolves(q)} : FitsKind(r)'
    <2>1. Seed(From(q.from)) \in Ends \cup {None} /\ base \in Ends
      BY <1>9, SeedIsAnEnd DEF ChainTypes, StoreTypes
    <2>2. Rows(q) \in Partial(ChainRows) /\ DOMAIN Rows(q) \in SUBSET live
      <3>1. StoryTypes
        BY DEF ChainTypes
      <3>2. PICK from, prev, b : from = From(q.from) /\ prev = Seed(from) /\ b = base
        OBVIOUS
      <3>3. prev \in Ends \cup {None} /\ b \in Ends
        BY <2>1, <3>2
      <3>4. /\ DOMAIN Resolved(from, prev, b) = FromOn(from) /\ FromOn(from) \in SUBSET live
            /\ Resolved(from, prev, b) \in Partial(ChainRows)
        BY ONLY <3>1, <3>3, ResolvedTypes
      <3>5. Rows(q) = Resolved(from, prev, b)
        BY <3>2 DEF Rows
      <3> QED  BY <3>4, <3>5
    <2>3. {s \in DOMAIN Rows(q) : chain[s] = NoRow} \in SUBSET Shots
      BY <1>3, <2>2
    <2>4. PICK r : r = Resolves(q)
      OBVIOUS
    <2>50. PICK ro \in Partial(ChainRows) : ro = Rows(q)
      BY <2>2
    <2>51. PICK ins \in SUBSET Shots : ins = {s \in DOMAIN Rows(q) : chain[s] = NoRow}
      BY <2>3
    <2>52. r = Asks(q.kind, "commit", q.from, q.todo, q.sees.scene, q.sees.images, ro, ins, q.alone)
      BY <2>4, <2>50, <2>51 DEF Resolves
    <2>5. r \in Requests
      <3>1. q.kind \in Kinds /\ "commit" \in Points /\ q.from \in Shots \cup {None} /\ q.todo \in Partial(Nat)
            /\ q.sees.scene \in Facts \cup {None} /\ q.sees.images \in Partial(Nat) /\ q.alone \in BOOLEAN
        BY <1>2, <1>5
      <3> QED  BY ONLY <3>1, <2>50, <2>51, <2>52, AsksTypes
    <2>6. /\ r.kind = q.kind /\ r.pc = "commit" /\ r.from = q.from /\ r.todo = q.todo /\ r.rows = Rows(q)
          /\ r.sees.images = q.sees.images
      BY <2>4 DEF Resolves, Asks
    <2>7. \A s \in DOMAIN r.rows : num'[s] > 0
      BY <1>3, <2>2, <2>6
    <2>8. FitsKind(r)'
      BY <2>6, <2>7, <1>1 DEF FitsKind
    <2> QED  BY <2>4, <2>5, <2>8
  <1>10. ASSUME q.todo # Nothing
         PROVE  TurnsTo(q) \in Requests /\ \A r \in {TurnsTo(q)} : FitsKind(r)'
    <2>1. DOMAIN q.todo # {} /\ DOMAIN q.todo \in SUBSET Shots
      BY <1>2, <1>10, EmptyIsNothing, PartialTypes
    <2>2. FirstOf(q.todo) \in Shots /\ RestOf(q.todo) \in Partial(Nat)
      BY <1>2, <2>1, FirstOfList, RestTypes
    <2>3. q.kind = "version"
      BY <1>1, <1>10 DEF FitsKind
    <2>4. PICK r : r = TurnsTo(q)
      OBVIOUS
    <2>5. r \in Requests
      BY <1>2, <1>5, <2>2, <2>4, NothingTypes, AsksTypes DEF TurnsTo
    <2>6. r.kind = "version" /\ r.pc = "load" /\ r.rows = Nothing
      BY <2>3, <2>4 DEF TurnsTo, Asks
    <2>7. FitsKind(r)'
      BY <2>6, NothingTypes DEF FitsKind
    <2> QED  BY <2>4, <2>5, <2>7
  <1>11. ASSUME q.kind \in Hooks
         PROVE  Finishes(q) \in Requests /\ \A r \in {Finishes(q)} : FitsKind(r)'
    <2>1. PICK r : r = Finishes(q)
      OBVIOUS
    <2>20. r = Asks(q.kind, "stale", q.from, q.todo, q.sees.scene, q.sees.images, Nothing, {}, q.alone)
      BY <2>1 DEF Finishes
    <2>2. r \in Requests
      <3>1. q.kind \in Kinds /\ "stale" \in Points /\ q.from \in Shots \cup {None} /\ q.todo \in Partial(Nat)
            /\ q.sees.scene \in Facts \cup {None} /\ q.sees.images \in Partial(Nat) /\ q.alone \in BOOLEAN
            /\ Nothing \in Partial(ChainRows) /\ {} \in SUBSET Shots
        BY <1>2, <1>5, NothingTypes
      <3> QED  BY ONLY <3>1, <2>20, AsksTypes
    <2>3. /\ r.kind = q.kind /\ r.pc = "stale" /\ r.from = q.from /\ r.todo = q.todo /\ r.rows = Nothing
          /\ r.sees.images = q.sees.images
      BY <2>1 DEF Finishes, Asks
    <2>4. FitsKind(r)'
      BY <2>3, <1>1, <1>11, NothingTypes DEF FitsKind
    <2> QED  BY <2>1, <2>2, <2>4
  <1> QED  BY <1>6, <1>7, <1>8, <1>9, <1>10, <1>11

-----------------------------------------------------------------------------
(* Types are kept.                                                         *)

LEMMA OvertakesTypes ==
  ASSUME StoreTypes, Overtakes
  PROVE  /\ running' \in [Shots -> Images]
         /\ \A s \in Shots : running'[s].n = running[s].n /\ (running'[s].overtaken = (running[s].n > 0))
  <1>1. ASSUME NEW s \in Shots
        PROVE  /\ running'[s] \in Images /\ running'[s].n = running[s].n
               /\ running'[s].overtaken = (running[s].n > 0)
    <2>1. PICK o \in BOOLEAN : o = (running[s].n > 0)
      <3>1. CASE running[s].n > 0
        BY <3>1, Zenon
      <3>2. CASE ~(running[s].n > 0)
        <4>1. (running[s].n > 0) = FALSE
          BY <3>2
        <4> QED  BY <4>1, Zenon
      <3> QED  BY <3>1, <3>2
    <2>2. running'[s] = [running[s] EXCEPT !.overtaken = o]
      BY <2>1 DEF Overtakes
    <2>3. running[s] \in Images
      BY DEF StoreTypes
    <2>4. running'[s] \in Images /\ running'[s].n = running[s].n /\ running'[s].overtaken = o
      BY <2>2, <2>3 DEF Images
    <2> QED  BY <2>1, <2>4
  <1> QED  BY <1>1 DEF Overtakes

LEMMA StoresKept ==
  ASSUME StoreTypes, UncreatedOK, Overtakes, UNCHANGED <<base, chain, image>>
  PROVE  StoreTypes' /\ (num' = num => UncreatedOK')
  BY OvertakesTypes DEF StoreTypes, UncreatedOK

LEMMA RequestsJoin ==
  ASSUME RequestTypes, NumbersStay, req' = Joined
  PROVE  /\ RequestTypes'
         /\ \A d \in Clients : req'[d] = [req[d] EXCEPT !.alone = d \notin Busy]
  <1>1. req' = [d \in Clients |-> req'[d]] /\ \A d \in Clients : req'[d] \in Alike(req[d])
    BY JoinedIs
  <1> QED  BY <1>1, JoinedIs, RequestsKept

LEMMA ChainTypesInit == ChainInit => ChainTypes
  <1> SUFFICES ASSUME ChainInit  PROVE ChainTypes
    OBVIOUS
  <1>1. StoryTypes
    BY DEF ChainInit, StoryTypes
  <1>2. NoImage \in Images /\ NoImage.n = 0 /\ NoImage.status # "ready"
    BY DEF NoImage, Images
  <1>3. StoreTypes /\ UncreatedOK
    BY <1>2 DEF ChainInit, StoreTypes, UncreatedOK
  <1>4. PICK r : r = Idle
    OBVIOUS
  <1>5. r \in Requests /\ r = Asks("none", "idle", None, Nothing, None, Nothing, Nothing, {}, TRUE)
    BY <1>4, IdleIs, IdleTypes
  <1>6. FitsKind(r)
    BY <1>5, NothingTypes DEF FitsKind, Asks
  <1>7. RequestTypes
    BY <1>4, <1>5, <1>6 DEF ChainInit, RequestTypes
  <1> QED  BY <1>1, <1>3, <1>7 DEF ChainTypes

LEMMA EditShotTypes ==
  ASSUME ChainTypes, NEW c \in Clients, NEW s \in Shots, NEW v \in Facts \cup {None}, EditShot(c, s, v)
  PROVE  ChainTypes'
  <1>1. num' = num /\ NumbersStay
    BY DEF EditShot, NumbersStay
  <1>2. StoryTypes'
    BY DEF EditShot, ChainTypes, StoryTypes
  <1>3. StoreTypes' /\ UncreatedOK'
    BY <1>1, StoresKept DEF EditShot, ChainTypes
  <1>4. PICK im \in Partial(Nat), sc \in Facts \cup {None} : im = Held({s}) /\ sc = scene
    BY HeldTypes DEF ChainTypes, StoryTypes
  <1>5. Starts(c, Asks("shot", "load", s, Nothing, sc, im, Nothing, {}, TRUE))
    BY <1>4, EditShotStarts
  <1>6. RequestTypes'
    BY <1>1, <1>5, StartsAsks DEF Kinds, Points, ChainTypes
  <1> QED  BY <1>2, <1>3, <1>6 DEF ChainTypes

LEMMA EditSceneTypes ==
  ASSUME ChainTypes, NEW c \in Clients, NEW v \in Facts, EditScene(c, v)
  PROVE  ChainTypes'
  <1>1. num' = num /\ NumbersStay
    BY DEF EditScene, NumbersStay
  <1>2. StoryTypes'
    BY DEF EditScene, ChainTypes, StoryTypes
  <1>3. StoreTypes' /\ UncreatedOK'
    BY <1>1, StoresKept DEF EditScene, ChainTypes
  <1>4. Starts(c, Asks("scene", "base", None, Nothing, v, Nothing, Nothing, {}, TRUE))
    BY EditSceneStarts
  <1>5. v # None
    OBVIOUS
  <1>6. RequestTypes'
    BY <1>1, <1>4, <1>5, NothingTypes, StartsAsks DEF Kinds, Points, ChainTypes
  <1> QED  BY <1>2, <1>3, <1>6 DEF ChainTypes

LEMMA ActivateVersionTypes ==
  ASSUME ChainTypes, NEW c \in Clients, NEW v \in Versions, ActivateVersion(c, v)
  PROVE  ChainTypes'
  <1>1. num' = num /\ NumbersStay
    BY DEF ActivateVersion, NumbersStay
  <1>2. StoryTypes'
    BY DEF ActivateVersion, ChainTypes, StoryTypes
  <1>3. StoreTypes' /\ UncreatedOK'
    BY <1>1, StoresKept DEF ActivateVersion, ChainTypes
  <1>4. PICK sc \in Facts \cup {None} : sc = scene
    BY DEF ChainTypes, StoryTypes
  <1>5. Starts(c, Asks("version", "list", None, Nothing, sc, Nothing, Nothing, {}, TRUE))
    BY <1>4, OthersStart
  <1>6. RequestTypes'
    BY <1>1, <1>5, NothingTypes, StartsAsks DEF Kinds, Points, ChainTypes
  <1> QED  BY <1>2, <1>3, <1>6 DEF ChainTypes

\* Requests that change nothing of the story.
LEMMA ReadsTypes ==
  ASSUME ChainTypes, NEW c \in Clients, Recompute(c) \/ ReadScene(c) \/ \E s \in Shots : ReadShot(c, s)
  PROVE  ChainTypes'
  <1>1. UNCHANGED <<story, base, chain, image, running>>
    BY DEF Recompute, ReadScene, ReadShot
  <1>2. num' = num /\ NumbersStay /\ StoryTypes' /\ StoreTypes' /\ UncreatedOK'
    BY <1>1 DEF story, NumbersStay, ChainTypes, StoryTypes, StoreTypes, UncreatedOK
  <1>3. PICK sc \in Facts : sc = scene
    BY DEF ChainTypes, StoryTypes
  <1>4. sc \in Facts \cup {None} /\ sc # None
    BY <1>3
  <1>5. PICK k \in {"recompute", "read"}, p \in {"base", "load"}, f \in Shots \cup {None} :
          /\ Starts(c, Asks(k, p, f, Nothing, sc, Nothing, Nothing, {}, TRUE))
          /\ k = "recompute" => f = None
    <2>1. CASE Recompute(c)
      BY <1>3, <2>1, OthersStart
    <2>2. CASE ReadScene(c)
      <3>1. PICK p \in {"base", "load"} : p = IF base = None THEN "base" ELSE "load"
        OBVIOUS
      <3>2. Starts(c, Asks("read", p, None, Nothing, sc, Nothing, Nothing, {}, TRUE))
        BY <3>1, <1>3, <2>2, OthersStart
      <3> QED  BY <3>2
    <2>3. CASE \E s \in Shots : ReadShot(c, s)
      <3>1. PICK s \in Shots : ReadShot(c, s)
        BY <2>3
      <3>2. Starts(c, Asks("read", "load", s, Nothing, sc, Nothing, Nothing, {}, TRUE))
        BY <3>1, <1>3, OthersStart
      <3> QED  BY <3>2
    <2> QED  BY <2>1, <2>2, <2>3
  <1>6. k \in Kinds /\ p \in Points /\ p # "list" /\ p # "stale" /\ k # "scene"
    BY DEF Kinds, Points
  <1>7. k \in {"scene", "recompute"} => f = None
    BY <1>5
  <1>8. RequestTypes'
    BY <1>2, <1>4, <1>5, <1>6, <1>7, NothingTypes, StartsAsks DEF ChainTypes
  <1> QED  BY <1>2, <1>8 DEF ChainTypes

LEMMA ServesTypes ==
  ASSUME ChainTypes, NEW c \in Clients, Serves(c)
  PROVE  ChainTypes'
  <1> DEFINE q == req[c]
  <1>0. q.pc # "idle"
    BY DEF Serves, ListsShots, BaseCommits, ChainLoads, ChainCommits, StaleMarks, HookFails
  <1>1. CASE ListsShots(c)
    <2>1. UNCHANGED <<story, base, chain, image, running>>
      BY <1>1 DEF ListsShots
    <2>2. num' = num /\ StoryTypes' /\ StoreTypes' /\ UncreatedOK'
      BY <2>1 DEF story, ChainTypes, StoryTypes, StoreTypes, UncreatedOK
    <2>3. CASE live = {}
      <3>1. Ended(c)
        BY <1>1, <2>3 DEF ListsShots
      <3> QED  BY <2>2, <3>1, EndedKept DEF ChainTypes
    <2>4. CASE live # {}
      <3>1. q.pc = "list"
        BY <1>1 DEF ListsShots
      <3>2. PICK r \in Requests : r = Opens(q) /\ FitsKind(r)'
        BY <2>2, <2>4, <3>1, <1>0, StepsOfRequests
      <3>3. req' = [req EXCEPT ![c] = r]
        BY <1>1, <2>4, <3>2, ListsShotsAsks DEF ChainTypes, RequestTypes
      <3> QED  BY <2>2, <3>2, <3>3, OneRequestKept DEF ChainTypes
    <2> QED  BY <2>3, <2>4
  <1>2. CASE BaseCommits(c)
    <2>1. UNCHANGED <<story, chain, image, running>> /\ base' = BaseState(q.sees.scene) /\ q.pc = "base"
      BY <1>2 DEF BaseCommits
    <2>2. q \in Requests /\ FitsKind(q)
      BY DEF ChainTypes, RequestTypes
    <2>3. q.sees.scene \in Facts
      BY <2>1, <2>2, AsksOfRequest DEF FitsKind
    <2>4. base' \in Ends
      BY <2>1, <2>3 DEF BaseState, Ends, ChainTypes, StoryTypes
    <2>5. num' = num /\ StoryTypes' /\ StoreTypes' /\ UncreatedOK'
      BY <2>1, <2>4 DEF story, ChainTypes, StoryTypes, StoreTypes, UncreatedOK
    <2>6. CASE Ended(c)
      BY <2>5, <2>6, EndedKept DEF ChainTypes
    <2>7. CASE Goes(c, "load")
      <3>1. PICK r \in Requests : r = Advances(q, "load") /\ FitsKind(r)'
        BY <2>5, <1>0, StepsOfRequests
      <3>2. req' = [req EXCEPT ![c] = r]
        BY <2>7, <3>1, GoesAsks DEF ChainTypes, RequestTypes
      <3> QED  BY <2>5, <3>1, <3>2, OneRequestKept DEF ChainTypes
    <2> QED  BY <1>2, <2>6, <2>7 DEF BaseCommits
  <1>3. CASE ChainLoads(c)
    <2>1. UNCHANGED <<story, base, chain, image, running>>
      BY <1>3 DEF ChainLoads
    <2>2. num' = num /\ StoryTypes' /\ StoreTypes' /\ UncreatedOK'
      BY <2>1 DEF story, ChainTypes, StoryTypes, StoreTypes, UncreatedOK
    <2>3. req \in [Clients -> Requests]
      BY DEF ChainTypes, RequestTypes
    <2>4. CASE base = None
      <3>1. PICK r \in Requests : r = LooksAtScene(q) /\ FitsKind(r)'
        BY <2>2, <1>0, StepsOfRequests
      <3>2. req' = [req EXCEPT ![c] = r]
        BY <1>3, <2>3, <2>4, <3>1, ChainLoadsAsks
      <3> QED  BY <2>2, <3>1, <3>2, OneRequestKept DEF ChainTypes
    <2>5. CASE base # None /\ (live = {} \/ q.from \notin live \cup {None})
      <3>1. Ended(c)
        BY <1>3, <2>3, <2>5, ChainLoadsAsks
      <3> QED  BY <2>2, <3>1, EndedKept DEF ChainTypes
    <2>6. CASE base # None /\ ~(live = {} \/ q.from \notin live \cup {None})
      <3>1. PICK r \in Requests : r = Resolves(q) /\ FitsKind(r)'
        BY <2>2, <2>6, <1>0, StepsOfRequests
      <3>2. req' = [req EXCEPT ![c] = r]
        BY <1>3, <2>3, <2>6, <3>1, ChainLoadsAsks
      <3> QED  BY <2>2, <3>1, <3>2, OneRequestKept DEF ChainTypes
    <2> QED  BY <2>4, <2>5, <2>6
  <1>4. CASE ChainCommits(c)
    <2>1. UNCHANGED <<story, base, image, running>>
      BY <1>4 DEF ChainCommits
    <2>2. q \in Requests /\ FitsKind(q) /\ q.rows \in Partial(ChainRows) /\ req \in [Clients -> Requests]
      BY AsksOfRequest DEF ChainTypes, RequestTypes
    <2>3. DOMAIN q.rows \in SUBSET Shots /\ q.rows \in [DOMAIN q.rows -> ChainRows]
          /\ \A s \in DOMAIN q.rows : num[s] > 0
      BY <2>2, PartialTypes DEF FitsKind
    <2>4. chain' = chain \/ chain' = [s \in Shots |-> IF s \in DOMAIN q.rows THEN q.rows[s] ELSE chain[s]]
      BY <1>4, <2>2, ChainCommitsAsks
    <2>5. chain' \in [Shots -> ChainRows \cup {NoRow}] /\ \A s \in Shots : num[s] = 0 => chain'[s] = chain[s]
      BY <2>3, <2>4 DEF ChainTypes, StoreTypes
    <2>6. num' = num /\ StoryTypes'
      BY <2>1 DEF story, ChainTypes, StoryTypes
    <2>60. StoreTypes' /\ UncreatedOK'
      BY <2>1, <2>5, <2>6 DEF ChainTypes, StoreTypes, UncreatedOK
    <2>7. \/ Ended(c)
          \/ q.todo # Nothing /\ req' = [req EXCEPT ![c] = TurnsTo(q)]
          \/ q.kind \in Hooks /\ req' = [req EXCEPT ![c] = Finishes(q)]
      BY <1>4, <2>2, ChainCommitsAsks
    <2>8. CASE Ended(c)
      BY <2>6, <2>60, <2>8, EndedKept DEF ChainTypes
    <2>9. CASE q.todo # Nothing /\ req' = [req EXCEPT ![c] = TurnsTo(q)]
      <3>1. PICK r \in Requests : r = TurnsTo(q) /\ FitsKind(r)'
        BY <2>6, <2>9, <1>0, StepsOfRequests
      <3> QED  BY <2>6, <2>60, <2>9, <3>1, OneRequestKept DEF ChainTypes
    <2>10. CASE q.kind \in Hooks /\ req' = [req EXCEPT ![c] = Finishes(q)]
      <3>1. PICK r \in Requests : r = Finishes(q) /\ FitsKind(r)'
        BY <2>6, <2>10, <1>0, StepsOfRequests
      <3> QED  BY <2>6, <2>60, <2>10, <3>1, OneRequestKept DEF ChainTypes
    <2> QED  BY <2>7, <2>8, <2>9, <2>10
  <1>5. CASE StaleMarks(c)
    <2>1. UNCHANGED <<story, base, chain, running>> /\ Ended(c)
      BY <1>5 DEF StaleMarks
    <2>2. \A s \in Shots : image'[s] = image[s] \/ (image[s].n > 0 /\ image'[s] = [image[s] EXCEPT !.status = "stale"])
      BY <1>5 DEF StaleMarks
    <2>3. ASSUME NEW s \in Shots
          PROVE  /\ image'[s] \in Images /\ (image'[s] = image[s] \/ image'[s].status = "stale")
                 /\ num[s] = 0 => image'[s] = image[s]
      <3>1. image[s] \in Images
        BY DEF ChainTypes, StoreTypes
      <3>2. CASE image'[s] = image[s]
        BY <3>1, <3>2
      <3>3. CASE image[s].n > 0 /\ image'[s] = [image[s] EXCEPT !.status = "stale"]
        <4>1. image'[s] \in Images /\ image'[s].status = "stale"
          BY <3>1, <3>3 DEF Images
        <4>2. num[s] # 0
          <5>1. image[s].n # 0
            BY <3>1, <3>3 DEF Images
          <5>2. image[s] # NoImage
            BY <5>1 DEF NoImage
          <5> QED  BY <5>2 DEF ChainTypes, UncreatedOK
        <4> QED  BY <4>1, <4>2
      <3> QED  BY <2>2, <3>2, <3>3
    <2>4. image' \in [Shots -> Images]
      BY <1>5, <2>3 DEF StaleMarks
    <2>5. num' = num /\ StoryTypes' /\ StoreTypes' /\ UncreatedOK'
      BY <2>1, <2>3, <2>4 DEF story, ChainTypes, StoryTypes, StoreTypes, UncreatedOK
    <2> QED  BY <2>1, <2>5, EndedKept DEF ChainTypes
  <1>6. CASE HookFails(c)
    <2>1. UNCHANGED <<story, base, chain, image, running>> /\ Ended(c)
      BY <1>6 DEF HookFails
    <2>2. num' = num /\ StoryTypes' /\ StoreTypes' /\ UncreatedOK'
      BY <2>1 DEF story, ChainTypes, StoryTypes, StoreTypes, UncreatedOK
    <2> QED  BY <2>1, <2>2, EndedKept DEF ChainTypes
  <1> QED  BY <1>1, <1>2, <1>3, <1>4, <1>5, <1>6 DEF Serves

LEMMA CreateShotTypes ==
  ASSUME ChainTypes, NEW s \in Shots, CreateShot(s)
  PROVE  /\ ChainTypes' /\ num'[s] > 0 /\ s \notin live
         /\ \A t \in live : num'[t] = num[t] /\ num[t] < num'[s]
         /\ \A t \in Shots \ {s} : num'[t] = num[t]
  <1>1. /\ num[s] = 0 /\ live' = live \cup {s} /\ Overtakes /\ req' = Joined
        /\ num' = [num EXCEPT ![s] = 1 + Max({0} \cup {num[t] : t \in live})]
        /\ UNCHANGED <<fact, scene, master, base, chain, image>>
    BY DEF CreateShot, Rearranges
  <1>2. PICK n \in Nat \ {0} : n = 1 + Max({0} \cup {num[t] : t \in live}) /\ \A t \in live : num[t] < n
    BY LastNumber DEF ChainTypes
  <1>3. s \notin live
    BY <1>1 DEF ChainTypes, StoryTypes
  <1>4. num' = [num EXCEPT ![s] = n]
    BY <1>1, <1>2
  <1>5. num' \in [Shots -> Nat] /\ num'[s] = n /\ \A t \in Shots \ {s} : num'[t] = num[t]
    BY <1>4 DEF ChainTypes, StoryTypes
  <1>50. n > 0 /\ live \subseteq Shots \ {s}
    BY <1>2, <1>3 DEF ChainTypes, StoryTypes
  <1>6. NumbersStay
    BY <1>5, <1>50 DEF NumbersStay
  <1>7. StoryTypes'
    BY <1>1, <1>5, <1>50 DEF ChainTypes, StoryTypes
  <1>8. StoreTypes'
    BY <1>1, StoresKept DEF ChainTypes
  <1>9. UncreatedOK'
    BY <1>1, <1>5, <1>50, OvertakesTypes DEF ChainTypes, UncreatedOK
  <1>10. RequestTypes'
    BY <1>1, <1>6, RequestsJoin DEF ChainTypes
  <1> QED  BY <1>2, <1>3, <1>5, <1>50, <1>7, <1>8, <1>9, <1>10 DEF ChainTypes

LEMMA RearrangesTypes ==
  ASSUME ChainTypes, \/ \E s \in Shots : DeleteShot(s) \/ RestoreShot(s)
                     \/ \E order \in Bijection(live, 1 .. Cardinality(live)) : ReorderShots(order)
  PROVE  ChainTypes' /\ Rearranges({"rows", "images"})
  <1>1. Rearranges({"rows", "images"})
    BY DEF DeleteShot, RestoreShot, ReorderShots
  <1>2. /\ Overtakes /\ req' = Joined
        /\ UNCHANGED <<fact, scene, master, base, chain, image>>
    BY <1>1 DEF Rearranges
  <1>3. /\ live' \subseteq Shots /\ num' \in [Shots -> Nat] /\ \A s \in live' : num'[s] > 0
        /\ \A s \in Shots : num[s] > 0 <=> num'[s] > 0
    <2>1. CASE \E s \in Shots : DeleteShot(s) \/ RestoreShot(s)
      BY <2>1 DEF DeleteShot, RestoreShot, ChainTypes, StoryTypes
    <2>2. ASSUME NEW order \in Bijection(live, 1 .. Cardinality(live)), ReorderShots(order)
          PROVE  /\ live' \subseteq Shots /\ num' \in [Shots -> Nat] /\ \A s \in live' : num'[s] > 0
                 /\ \A s \in Shots : num[s] > 0 <=> num'[s] > 0
      <3>1. order \in [live -> 1 .. Cardinality(live)]
        BY DEF Bijection, Injection
      <3>2. \A s \in live : order[s] \in Nat /\ order[s] > 0
        BY <3>1
      <3>3. live' = live /\ num' = [s \in Shots |-> IF s \in live THEN order[s] ELSE num[s]]
        BY <2>2 DEF ReorderShots
      <3> QED  BY <3>2, <3>3 DEF ChainTypes, StoryTypes
    <2> QED  BY <2>1, <2>2
  <1>4. NumbersStay /\ \A s \in Shots : num'[s] = 0 => num[s] = 0
    BY <1>3 DEF NumbersStay, ChainTypes, StoryTypes
  <1>5. StoryTypes'
    BY <1>2, <1>3 DEF ChainTypes, StoryTypes
  <1>6. StoreTypes' /\ UncreatedOK'
    BY <1>2, <1>4, StoresKept, OvertakesTypes DEF ChainTypes, UncreatedOK
  <1>7. RequestTypes'
    BY <1>2, <1>4, RequestsJoin DEF ChainTypes
  <1> QED  BY <1>1, <1>5, <1>6, <1>7 DEF ChainTypes

LEMMA ImageTypes ==
  ASSUME ChainTypes, NEW s \in Shots, Generates(s) \/ Delivers(s)
  PROVE  ChainTypes'
  <1>1. UNCHANGED <<story, base, chain, req>>
    BY DEF Generates, Delivers
  <1>2. StoryTypes' /\ RequestTypes'
    BY <1>1 DEF story, ChainTypes, StoryTypes, RequestTypes, FitsKind
  <1>3. CASE Generates(s)
    <2>1. Shown(s) \in Ends
      BY ShownIsAnEnd DEF ChainTypes
    <2>2. [n |-> image[s].n + 1, status |-> "ready", of |-> Shown(s), overtaken |-> FALSE] \in Images
      <3>1. image[s].n + 1 \in Nat
        BY DEF ChainTypes, StoreTypes, Images
      <3> QED  BY <2>1, <3>1 DEF Images
    <2>3. image' = image /\ running' \in [Shots -> Images] /\ s \in live
          /\ \A t \in Shots \ {s} : running'[t] = running[t]
      BY <1>3, <2>2 DEF Generates, ChainTypes, StoreTypes
    <2> QED  BY <1>1, <1>2, <2>3 DEF story, ChainTypes, StoryTypes, StoreTypes, UncreatedOK
  <1>4. CASE Delivers(s)
    <2>1. NoImage \in Images /\ NoImage.n = 0
      BY DEF NoImage, Images
    <2>2. running[s].n > 0 /\ running[s] \in Images /\ running[s].n # 0 /\ num[s] # 0
      BY <1>4 DEF Delivers, ChainTypes, StoreTypes, UncreatedOK, Images
    <2>3. /\ image' = [image EXCEPT ![s] = running[s]]
          /\ running' = [running EXCEPT ![s] = NoImage]
      BY <1>4 DEF Delivers
    <2>4. /\ image' \in [Shots -> Images] /\ running' \in [Shots -> Images]
          /\ image'[s] = running[s] /\ \A t \in Shots \ {s} : image'[t] = image[t] /\ running'[t] = running[t]
      BY <2>1, <2>2, <2>3 DEF ChainTypes, StoreTypes
    <2>5. StoreTypes'
      BY <1>1, <2>2, <2>4 DEF ChainTypes, StoreTypes
    <2>6. UncreatedOK'
      BY <1>1, <2>2, <2>4 DEF story, ChainTypes, UncreatedOK
    <2> QED  BY <1>2, <2>5, <2>6 DEF ChainTypes
  <1> QED  BY <1>3, <1>4

LEMMA ChainTypesStep ==
  ASSUME ChainTypes, [ChainNext]_continuityVars
  PROVE  ChainTypes'
  <1>1. ASSUME UNCHANGED continuityVars  PROVE ChainTypes'
    BY <1>1 DEF continuityVars, story, ChainTypes, StoryTypes, StoreTypes, UncreatedOK, RequestTypes, FitsKind
  <1>2. ASSUME ChainNext  PROVE ChainTypes'
    BY <1>2, EditShotTypes, EditSceneTypes, ActivateVersionTypes, ReadsTypes, ServesTypes, CreateShotTypes,
       RearrangesTypes, ImageTypes DEF ChainNext
  <1> QED  BY <1>1, <1>2

-----------------------------------------------------------------------------
(* A change of the story leaves what comes before it as it was.            *)

Upto(s) == {t \in live : num[t] <= num[s]}

\* Up to s, nothing has changed.
SamePast(s) ==
  /\ scene' = scene /\ master' = master
  /\ num'[s] = num[s] /\ fact'[s] = fact[s]
  /\ Upto(s)' = Upto(s)
  /\ \A t \in Upto(s) : num'[t] = num[t] /\ fact'[t] = fact[t]

LEMMA PastShown ==
  ASSUME StoryTypes, NEW s, SamePast(s)
  PROVE  Shown(s)' = Shown(s)
  <1>1. Stating(s)' = {t \in Upto(s)' : fact'[t] # None} /\ Stating(s) = {t \in Upto(s) : fact[t] # None}
    BY DEF Stating, Upto
  <1>2. Stating(s)' = Stating(s)
    BY <1>1 DEF SamePast
  <1>3. Latest(Stating(s))' = {t \in Stating(s)' : \A u \in Stating(s)' : num'[u] <= num'[t]}
    BY DEF Latest
  <1>4. Latest(Stating(s)) = {t \in Stating(s) : \A u \in Stating(s) : num[u] <= num[t]}
    BY DEF Latest
  <1>5. \A t \in Stating(s) : num'[t] = num[t] /\ fact'[t] = fact[t]
    BY <1>1 DEF SamePast
  <1>6. Latest(Stating(s))' = Latest(Stating(s))
    BY <1>2, <1>3, <1>4, <1>5
  <1>7. OneOf(Latest(Stating(s)))' = OneOf(Latest(Stating(s)))
    BY <1>6 DEF OneOf
  <1>8. ASSUME Stating(s) # {}
        PROVE  fact'[OneOf(Latest(Stating(s)))] = fact[OneOf(Latest(Stating(s)))]
    <2>1. Stating(s) \in SUBSET Shots
      BY DEF Stating, StoryTypes
    <2>2. OneOf(Latest(Stating(s))) \in Stating(s)
      BY <1>8, <2>1, LatestExists
    <2> QED  BY <2>2, <1>5
  <1>9. scene' = scene /\ master' = master
    BY DEF SamePast
  <1> QED  BY <1>2, <1>7, <1>8, <1>9 DEF Shown

LEMMA PastTold ==
  ASSUME StoryTypes, StoryTypes', NEW s \in Shots, SamePast(s), NEW row
  PROVE  Tells(s, row)' <=> Tells(s, row)
  <1>1. num[s] \in Nat /\ num'[s] = num[s] /\ \A t \in live : num[t] \in Nat
    BY DEF SamePast, StoryTypes
  <1>2. \A t \in live' : num'[t] \in Nat
    BY DEF StoryTypes
  <1>3. ASSUME NEW t \in Before(s)  PROVE t \in Before(s)'
    <2>1. t \in Upto(s)
      BY <1>1 DEF Before, Upto
    <2>2. t \in Upto(s)' /\ num'[t] = num[t]
      BY <2>1 DEF SamePast
    <2>3. t \in live'
      BY <2>2 DEF Upto
    <2> QED  BY <1>1, <2>2, <2>3 DEF Before
  <1>4. ASSUME NEW t \in Before(s)'  PROVE t \in Before(s)
    <2>1. t \in live' /\ num'[t] < num'[s]
      BY DEF Before
    <2>2. num'[t] <= num'[s]
      BY <1>1, <1>2, <2>1
    <2>3. t \in Upto(s)'
      BY <2>1, <2>2 DEF Upto
    <2>4. t \in Upto(s) /\ num'[t] = num[t]
      BY <2>3 DEF SamePast
    <2> QED  BY <1>1, <2>1, <2>4 DEF Before, Upto
  <1>5. Before(s)' = Before(s)
    BY <1>3, <1>4
  <1>6. \A t \in Before(s) : fact'[t] = fact[t]
    BY <1>1 DEF Before, Upto, SamePast
  <1>7. Holds(s)' = Holds(s)
    BY <1>5, <1>6 DEF Holds, SamePast
  <1>8. scene' = scene /\ master' = master
    BY DEF SamePast
  <1> QED  BY <1>7, <1>8 DEF Tells

LEMMA SameStory ==
  ASSUME UNCHANGED story, NEW s
  PROVE  SamePast(s) /\ Before(s)' = Before(s) /\ FromOn(s)' = FromOn(s) /\ Downstream(s)' = Downstream(s)
  BY DEF story, SamePast, Upto, Before, FromOn, Downstream

-----------------------------------------------------------------------------
(* Images that are being generated.                                        *)

LEMMA RunningKept ==
  ASSUME ChainTypes, RunningOK, UNCHANGED <<story, running>>
  PROVE  RunningOK'
  <1>1. \A s \in Shots : Shown(s)' = Shown(s)
    BY SameStory, PastShown DEF ChainTypes
  <1> QED  BY <1>1 DEF RunningOK

LEMMA RunningOvertaken ==
  ASSUME ChainTypes, Overtakes
  PROVE  RunningOK'
  <1>1. \A s \in Shots : ~(running'[s].n > 0 /\ ~running'[s].overtaken)
    BY OvertakesTypes DEF ChainTypes
  <1> QED  BY <1>1 DEF RunningOK

LEMMA RunningStep ==
  ASSUME ChainTypes, RunningOK, [ChainNext]_continuityVars
  PROVE  RunningOK'
  <1>1. CASE UNCHANGED continuityVars
    BY <1>1, RunningKept DEF continuityVars
  <1>2. ASSUME NEW c \in Clients, Recompute(c) \/ ReadScene(c) \/ Serves(c) \/ \E s \in Shots : ReadShot(c, s)
        PROVE  RunningOK'
    <2>1. UNCHANGED <<story, running>>
      BY <1>2 DEF Recompute, ReadScene, ReadShot, Serves, ListsShots, BaseCommits, ChainLoads, ChainCommits,
                  StaleMarks, HookFails
    <2> QED  BY <2>1, RunningKept
  <1>3. ASSUME \/ \E c \in Clients, s \in Shots, v \in Facts \cup {None} : EditShot(c, s, v)
               \/ \E c \in Clients, v \in Facts : EditScene(c, v)
               \/ \E c \in Clients, v \in Versions : ActivateVersion(c, v)
               \/ \E s \in Shots : CreateShot(s) \/ DeleteShot(s) \/ RestoreShot(s)
               \/ \E order \in Bijection(live, 1 .. Cardinality(live)) : ReorderShots(order)
        PROVE  RunningOK'
    <2>1. Overtakes
      BY <1>3 DEF EditShot, EditScene, ActivateVersion, CreateShot, DeleteShot, RestoreShot, ReorderShots, Rearranges
    <2> QED  BY <2>1, RunningOvertaken
  <1>4. ASSUME NEW s \in Shots, Generates(s) \/ Delivers(s)
        PROVE  RunningOK'
    <2>1. UNCHANGED story
      BY <1>4 DEF Generates, Delivers
    <2>2. \A t \in Shots : Shown(t)' = Shown(t)
      BY <2>1, SameStory, PastShown DEF ChainTypes
    <2>3. /\ \A t \in Shots \ {s} : running'[t] = running[t]
          /\ running'[s].n > 0 => running'[s].of = Shown(s)
      <3>1. ~(NoImage.n > 0)
        BY DEF NoImage
      <3> QED  BY <1>4, <3>1 DEF Generates, Delivers, ChainTypes, StoreTypes
    <2> QED  BY <2>2, <2>3 DEF RunningOK
  <1>5. ASSUME ChainNext  PROVE RunningOK'
    BY <1>2, <1>3, <1>4, <1>5 DEF ChainNext
  <1> QED  BY <1>1, <1>5

-----------------------------------------------------------------------------
(* Requests that meet.                                                     *)

LEMMA QuietRests ==
  ASSUME ChainInv, Busy = {}
  PROVE  /\ "rows" \notin suspect => BaseTells /\ RowsTell(live)
         /\ "images" \notin suspect => \A s \in live : IsCurrent(s)
  BY DEF ChainInv, Doubted, AtRest, OneAlone

LEMMA StartsMeets ==
  ASSUME ChainTypes, NEW c \in Clients, req[c].pc = "idle", RequestTypes',
         req'[c].pc # "idle", req'[c].alone <=> Busy = {},
         Meets(c),
         suspect' = suspect \cup Met
  PROVE  /\ Busy # {} => Doubted'
         /\ Busy = {} => Busy' = {c} /\ suspect' = suspect
  <1>3. Busy' = Busy \cup {c} /\ c \notin Busy
    BY DEF Busy, Meets
  <1>4. CASE Busy # {}
    <2>1. {"rows", "images"} \subseteq suspect'
      BY <1>4 DEF Met
    <2>2. \A d \in Busy' : ~req'[d].alone
      BY <1>3, <1>4 DEF Busy, Meets
    <2> QED  BY <1>4, <2>1, <2>2 DEF Doubted
  <1>5. CASE Busy = {}
    BY <1>3, <1>5 DEF Met
  <1> QED  BY <1>4, <1>5

LEMMA IsAlone ==
  ASSUME NEW c \in Clients, Busy' = {c}, NEW r, r = req'[c], r.alone, Fits(r)'
  PROVE  OneAlone'
  BY DEF OneAlone

LEMMA ReadsStep ==
  ASSUME ChainInv, ChainTypes', NEW c \in Clients,
         Recompute(c) \/ ReadScene(c) \/ \E s \in Shots : ReadShot(c, s)
  PROVE  Doubted' \/ OneAlone'
  <1>1. UNCHANGED <<story, base, chain, image, running>> /\ req[c].pc = "idle"
    BY DEF Recompute, ReadScene, ReadShot
  <1>2. PICK sc \in Facts : sc = scene
    BY DEF ChainInv, ChainTypes, StoryTypes
  <1>3. sc \in Facts \cup {None} /\ sc # None
    BY <1>2
  <1>4. PICK k \in {"recompute", "read"}, p \in {"base", "load"}, f \in live \cup {None} :
          /\ Starts(c, Asks(k, p, f, Nothing, sc, Nothing, Nothing, {}, TRUE))
          /\ k = "recompute" => f = None /\ p = "base"
    <2>1. CASE Recompute(c)
      BY <1>2, <2>1, OthersStart DEF ChainInv
    <2>2. CASE ReadScene(c)
      <3>1. PICK p \in {"base", "load"} : p = IF base = None THEN "base" ELSE "load"
        OBVIOUS
      <3>2. Starts(c, Asks("read", p, None, Nothing, sc, Nothing, Nothing, {}, TRUE))
        BY <3>1, <1>2, <2>2, OthersStart DEF ChainInv
      <3> QED  BY <3>2
    <2>3. CASE \E s \in Shots : ReadShot(c, s)
      <3>1. PICK s \in live : ReadShot(c, s)
        BY <2>3 DEF ReadShot
      <3>2. Starts(c, Asks("read", "load", s, Nothing, sc, Nothing, Nothing, {}, TRUE))
        BY <3>1, <1>2, OthersStart DEF ChainInv
      <3> QED  BY <3>2
    <2> QED  BY <2>1, <2>2, <2>3
  <1>5. k \in Kinds /\ p \in Points /\ p # "list" /\ p # "stale" /\ k # "scene" /\ f \in Shots \cup {None}
        /\ (k \in {"scene", "recompute"} => f = None) /\ NumbersStay
    BY <1>1, <1>4 DEF Kinds, Points, NumbersStay, story, ChainInv, ChainTypes, StoryTypes
  <1>6. PICK r : r = req'[c]
    OBVIOUS
  <1>7. /\ r.kind = k /\ r.pc = p /\ r.from = f /\ r.todo = Nothing
        /\ r.sees.scene = sc /\ r.sees.images = Nothing /\ (r.alone <=> Busy = {})
        /\ Meets(c) /\ suspect' = suspect \cup Met
    <2>1. RequestTypes /\ Nothing \in Partial(Nat) /\ DOMAIN Nothing = {}
      BY NothingTypes DEF ChainInv, ChainTypes
    <2>2. c \in Clients /\ NumbersStay /\ k \in Kinds /\ p \in Points /\ f \in Shots \cup {None} /\ sc \in Facts \cup {None}
      BY <1>3, <1>5
    <2>3. /\ k # "none" /\ (p = "list" => k = "version") /\ (p = "base" => sc # None) /\ p # "stale"
          /\ (k = "scene" => DOMAIN Nothing = {}) /\ (k \in {"scene", "recompute"} => f = None)
      BY <1>3, <1>5
    <2>4. Starts(c, Asks(k, p, f, Nothing, sc, Nothing, Nothing, {}, TRUE))
      BY <1>4
    <2>5. Begins(req'[c], k, p, f, sc, Nothing) /\ Meets(c) /\ suspect' = suspect \cup Met
      BY ONLY <2>1, <2>2, <2>3, <2>4, StartsAsks
    <2> QED  BY <1>6, <2>5 DEF Begins
  <1>9. CASE Busy # {}
    BY <1>1, <1>4, <1>6, <1>7, <1>9, StartsMeets DEF ChainInv, ChainTypes
  <1>10. CASE Busy = {}
    <2>1. Busy' = {c} /\ suspect' = suspect
      BY <1>1, <1>4, <1>6, <1>7, <1>10, StartsMeets DEF ChainInv, ChainTypes
    <2>2. r.alone
      BY <1>7, <1>10
    <2>3. live' = live /\ scene' = scene /\ chain' = chain /\ base' = base /\ image' = image
      BY <1>1 DEF story
    <2>4. ASSUME NEW s \in live
          PROVE  /\ "rows" \notin suspect => Tells(s, chain[s])'
                 /\ "images" \notin suspect => IsCurrent(s)'
      <3>1. PICK row : row = chain[s] /\ s \in Shots
        BY DEF ChainInv, ChainTypes, StoryTypes
      <3>2. (Tells(s, row)' <=> Tells(s, row)) /\ Shown(s)' = Shown(s)
        BY <1>1, <3>1, SameStory, PastTold, PastShown DEF ChainInv, ChainTypes
      <3>3. chain'[s] = row /\ image'[s] = image[s]
        BY <2>3, <3>1
      <3>4. "rows" \notin suspect => Tells(s, row)
        BY <1>10, <3>1, QuietRests DEF RowsTell
      <3>5. "images" \notin suspect => IsCurrent(s)
        BY <1>10, QuietRests
      <3> QED  BY <3>2, <3>3, <3>4, <3>5 DEF Tells, IsCurrent
    <2>5. FitsPlace(r)'
      BY <1>4, <1>7, <2>3, NothingTypes DEF FitsPlace
    <2>6. FitsBase(r)'
      BY <1>2, <1>4, <1>7, <1>10, <2>1, <2>3, QuietRests DEF FitsBase, BaseTells, Rewrites
    <2>7. FitsCommit(r)'
      BY <1>4, <1>7 DEF FitsCommit
    <2>8. FitsRows(r)'
      BY <1>4, <1>7, <2>1, <2>3, <2>4 DEF FitsRows, RowsTell
    <2>9. FitsImages(r)'
      BY <2>1, <2>3, <2>4 DEF FitsImages
    <2> QED  BY <1>6, <2>1, <2>2, <2>5, <2>6, <2>7, <2>8, <2>9, IsAlone DEF Fits
  <1> QED  BY <1>9, <1>10

\* What a request finds when nothing else is under way.
LEMMA BeginsAlone ==
  ASSUME ChainInv, ChainTypes', NEW c \in Clients, req[c].pc = "idle", NEW r, r = req'[c],
         NEW k, NEW p, NEW f, NEW sc, NEW im, Begins(r, k, p, f, sc, im), p # "idle",
         Meets(c), suspect' = suspect \cup Met
  PROVE  \/ Doubted'
         \/ /\ Busy' = {c} /\ suspect' = suspect /\ r.alone /\ DOMAIN r.todo = {}
            /\ "rows" \notin suspect => BaseTells /\ RowsTell(live)
            /\ "images" \notin suspect => \A s \in live : IsCurrent(s)
  <1>1. req'[c].pc # "idle" /\ (req'[c].alone <=> Busy = {}) /\ DOMAIN r.todo = {}
    BY NothingTypes DEF Begins
  <1>2. ChainTypes /\ RequestTypes'
    BY DEF ChainInv, ChainTypes
  <1>3. /\ Busy # {} => Doubted'
        /\ Busy = {} => Busy' = {c} /\ suspect' = suspect
    BY <1>1, <1>2, StartsMeets
  <1> QED  BY <1>1, <1>3, QuietRests

LEMMA EditShotStep ==
  ASSUME ChainInv, ChainTypes', NEW c \in Clients, NEW s \in Shots, NEW v \in Facts \cup {None}, EditShot(c, s, v)
  PROVE  Doubted' \/ OneAlone'
  <1>1. /\ s \in live /\ req[c].pc = "idle" /\ fact' = [fact EXCEPT ![s] = v]
        /\ live' = live /\ num' = num /\ scene' = scene /\ master' = master
        /\ base' = base /\ chain' = chain /\ image' = image
    BY DEF EditShot
  <1>2. ChainTypes /\ RequestTypes /\ NumbersStay
    BY <1>1 DEF ChainInv, ChainTypes, NumbersStay
  <1>3. PICK im \in Partial(Nat), sc \in Facts \cup {None} : im = Held({s}) /\ sc = scene
    BY <1>2, HeldTypes DEF ChainTypes, StoryTypes
  <1>4. DOMAIN im = {s} /\ im[s] = image[s].n
    BY <1>2, <1>3, HeldTypes DEF ChainTypes
  <1>5. Starts(c, Asks("shot", "load", s, Nothing, sc, im, Nothing, {}, TRUE))
    BY <1>2, <1>3, EditShotStarts
  <1>6. Begins(req'[c], "shot", "load", s, sc, im) /\ Meets(c) /\ suspect' = suspect \cup Met
    BY <1>2, <1>5, StartsAsks DEF Kinds, Points
  <1>7. PICK r : r = req'[c]
    OBVIOUS
  <1>8. Begins(r, "shot", "load", s, sc, im)
    BY <1>6, <1>7
  <1>9. CASE Doubted'
    BY <1>9
  <1>10. CASE ~Doubted'
    <2>1. /\ Busy' = {c} /\ suspect' = suspect /\ r.alone /\ DOMAIN r.todo = {}
          /\ "rows" \notin suspect => BaseTells /\ RowsTell(live)
          /\ "images" \notin suspect => \A t \in live : IsCurrent(t)
      BY <1>1, <1>6, <1>7, <1>8, <1>10, BeginsAlone
    <2>2. r.kind = "shot" /\ r.pc = "load" /\ r.from = s /\ r.sees.images = im
      BY <1>8 DEF Begins
    <2>3. \A t \in live : num[t] \in Nat /\ t \in Shots
      BY <1>2 DEF ChainTypes, StoryTypes
    <2>4. ASSUME NEW t \in live, num[t] < num[s]  PROVE SamePast(t)
      <3>1. t # s
        BY <1>1, <2>3, <2>4
      <3>2. s \notin Upto(t)
        BY <1>1, <2>3, <2>4 DEF Upto
      <3>3. \A u \in Upto(t) : u \in Shots /\ u # s
        BY <2>3, <3>2 DEF Upto
      <3>4. \A u \in Shots \ {s} : fact'[u] = fact[u]
        BY <1>1, <1>2 DEF ChainTypes, StoryTypes
      <3>5. Upto(t)' = Upto(t)
        BY <1>1 DEF Upto
      <3> QED  BY <1>1, <2>3, <3>1, <3>3, <3>4, <3>5 DEF SamePast
    <2>5. FitsPlace(r)'
      BY <1>1, <2>1, <2>2 DEF FitsPlace
    <2>6. FitsBase(r)'
      BY <1>1, <2>1, <2>2 DEF FitsBase, Rewrites, BaseTells
    <2>7. FitsCommit(r)'
      BY <2>2 DEF FitsCommit
    <2>8. ASSUME "rows" \notin suspect', NEW t \in Before(s)'  PROVE Tells(t, chain[t])'
      <3>1. t \in live /\ num[t] < num[s]
        BY <1>1 DEF Before
      <3>2. PICK row : row = chain[t]
        OBVIOUS
      <3>3. Tells(t, row)
        BY <2>1, <2>8, <3>1, <3>2 DEF RowsTell
      <3>4. StoryTypes /\ StoryTypes' /\ t \in Shots
        BY <1>2, <2>3, <3>1 DEF ChainTypes
      <3>5. Tells(t, row)'
        BY <2>4, <3>1, <3>3, <3>4, PastTold
      <3>6. chain'[t] = row
        BY <1>1, <3>2
      <3> QED  BY <3>5, <3>6 DEF Tells
    <2>9. FitsRows(r)'
      BY <2>2, <2>8 DEF FitsRows, RowsTell
    <2>10. ASSUME "images" \notin suspect', NEW t \in live  PROVE IsCurrent(t)' \/ Marks(r, t)'
      <3>1. CASE num[t] < num[s]
        <4>1. Shown(t)' = Shown(t)
          BY <1>2, <2>4, <3>1, PastShown DEF ChainTypes
        <4> QED  BY <1>1, <2>1, <2>10, <4>1 DEF IsCurrent
      <3>2. CASE ~(num[t] < num[s])
        <4>0. num[t] \in Nat /\ num[s] \in Nat
          BY <1>1, <2>3
        <4>1. num[t] >= num[s]
          BY <3>2, <4>0
        <4>2. t \in Downstream(s)'
          BY <1>1, <4>1 DEF Downstream
        <4>3. t \in DOMAIN im => image'[t].n = im[t]
          BY <1>1, <1>4
        <4> QED  BY <2>2, <4>2, <4>3 DEF Marks, Hooks
      <3> QED  BY <3>1, <3>2
    <2>11. FitsImages(r)'
      BY <1>1, <2>10 DEF FitsImages
    <2> QED  BY <1>7, <2>1, <2>5, <2>6, <2>7, <2>9, <2>11, IsAlone DEF Fits
  <1> QED  BY <1>9, <1>10

LEMMA EditSceneStep ==
  ASSUME ChainInv, ChainTypes', NEW c \in Clients, NEW v \in Facts, EditScene(c, v)
  PROVE  Doubted' \/ OneAlone'
  <1>1. /\ req[c].pc = "idle" /\ scene' = v
        /\ live' = live /\ num' = num
    BY DEF EditScene
  <1>2. ChainTypes /\ RequestTypes /\ NumbersStay /\ Nothing \in Partial(Nat) /\ DOMAIN Nothing = {}
    BY <1>1, NothingTypes DEF ChainInv, ChainTypes, NumbersStay
  <1>3. Starts(c, Asks("scene", "base", None, Nothing, v, Nothing, Nothing, {}, TRUE))
    BY <1>2, EditSceneStarts
  <1>4. v # None
    OBVIOUS
  <1>5. Begins(req'[c], "scene", "base", None, v, Nothing) /\ Meets(c) /\ suspect' = suspect \cup Met
    BY <1>2, <1>3, <1>4, StartsAsks DEF Kinds, Points
  <1>6. PICK r : r = req'[c]
    OBVIOUS
  <1>7. Begins(r, "scene", "base", None, v, Nothing)
    BY <1>5, <1>6
  <1>8. CASE Doubted'
    BY <1>8
  <1>9. CASE ~Doubted'
    <2>1. Busy' = {c} /\ suspect' = suspect /\ r.alone /\ DOMAIN r.todo = {}
      BY <1>1, <1>5, <1>6, <1>7, <1>9, BeginsAlone
    <2>2. r.kind = "scene" /\ r.pc = "base" /\ r.from = None /\ r.sees.images = Nothing /\ r.sees.scene = v
      BY <1>7 DEF Begins
    <2>3. FitsPlace(r)'
      BY <2>1, <2>2 DEF FitsPlace
    <2>4. FitsBase(r)'
      BY <1>1, <2>2 DEF FitsBase, Rewrites
    <2>5. FitsCommit(r)' /\ FitsRows(r)'
      BY <2>2 DEF FitsCommit, FitsRows
    <2>6. \A t \in live' : t \in Downstream(None)'
      BY DEF Downstream
    <2>7. FitsImages(r)'
      BY <1>2, <2>2, <2>6 DEF FitsImages, Marks, Hooks
    <2> QED  BY <1>6, <2>1, <2>3, <2>4, <2>5, <2>7, IsAlone DEF Fits
  <1> QED  BY <1>8, <1>9

LEMMA ActivateVersionStep ==
  ASSUME ChainInv, ChainTypes', NEW c \in Clients, NEW v \in Versions, ActivateVersion(c, v)
  PROVE  Doubted' \/ OneAlone'
  <1>1. /\ req[c].pc = "idle" /\ scene' = scene /\ base' = base
        /\ live' = live /\ num' = num
    BY DEF ActivateVersion
  <1>2. ChainTypes /\ RequestTypes /\ NumbersStay /\ Nothing \in Partial(Nat) /\ DOMAIN Nothing = {}
    BY <1>1, NothingTypes DEF ChainInv, ChainTypes, NumbersStay
  <1>3. PICK sc \in Facts \cup {None} : sc = scene
    BY <1>2 DEF ChainTypes, StoryTypes
  <1>4. Starts(c, Asks("version", "list", None, Nothing, sc, Nothing, Nothing, {}, TRUE))
    BY <1>2, <1>3, OthersStart
  <1>5. Begins(req'[c], "version", "list", None, sc, Nothing) /\ Meets(c) /\ suspect' = suspect \cup Met
    BY <1>2, <1>4, StartsAsks DEF Kinds, Points
  <1>6. PICK r : r = req'[c]
    OBVIOUS
  <1>7. Begins(r, "version", "list", None, sc, Nothing)
    BY <1>5, <1>6
  <1>8. CASE Doubted'
    BY <1>8
  <1>9. CASE ~Doubted'
    <2>1. /\ Busy' = {c} /\ suspect' = suspect /\ r.alone /\ DOMAIN r.todo = {}
          /\ "rows" \notin suspect => BaseTells /\ RowsTell(live)
      BY <1>1, <1>5, <1>6, <1>7, <1>9, BeginsAlone
    <2>2. r.kind = "version" /\ r.pc = "list" /\ r.from = None /\ r.sees.images = Nothing
      BY <1>7 DEF Begins
    <2>3. FitsPlace(r)'
      BY <2>1, <2>2 DEF FitsPlace
    <2>4. FitsBase(r)'
      BY <1>1, <2>1, <2>2 DEF FitsBase, Rewrites, BaseTells
    <2>5. FitsCommit(r)' /\ FitsRows(r)'
      BY <2>2 DEF FitsCommit, FitsRows
    <2>6. \A t \in live' : t \in Downstream(None)'
      BY DEF Downstream
    <2>7. FitsImages(r)'
      BY <1>2, <2>2, <2>6 DEF FitsImages, Marks, Hooks
    <2> QED  BY <1>6, <2>1, <2>3, <2>4, <2>5, <2>7, IsAlone DEF Fits
  <1> QED  BY <1>8, <1>9

-----------------------------------------------------------------------------
(* Shots that come and go, and images.                                     *)

LEMMA JoinMeets ==
  ASSUME ChainTypes, req' = Joined
  PROVE  /\ Busy' = Busy
         /\ \A d \in Busy : ~req'[d].alone
         /\ {"rows", "images"} \subseteq suspect' => Doubted'
  <1>1. ASSUME NEW d \in Clients
        PROVE  req'[d].pc = req[d].pc /\ (req'[d].alone <=> d \notin Busy)
    <2>1. PICK a \in BOOLEAN : a = (d \notin Busy)
      OBVIOUS
    <2>2. req'[d] = [req[d] EXCEPT !.alone = a] /\ req[d] \in Requests
      BY <2>1, JoinedIs DEF RequestTypes, ChainTypes
    <2>3. req'[d].pc = req[d].pc /\ req'[d].alone = a
      BY <2>2 DEF Requests
    <2> QED  BY <2>1, <2>3
  <1>2. Busy' = Busy
    BY <1>1 DEF Busy
  <1>3. \A d \in Busy : ~req'[d].alone
    BY <1>1 DEF Busy
  <1> QED  BY <1>2, <1>3 DEF Doubted

LEMMA RearrangesStep ==
  ASSUME ChainInv, Rearranges({"rows", "images"})
  PROVE  Doubted'
  <1>1. req' = Joined /\ {"rows", "images"} \subseteq suspect'
    BY DEF Rearranges
  <1> QED  BY <1>1, JoinMeets DEF ChainInv

LEMMA CreateShotStep ==
  ASSUME ChainInv, ChainTypes', NEW s \in Shots, CreateShot(s)
  PROVE  Doubted' \/ AtRest'
  <1>1. /\ num[s] = 0 /\ live' = live \cup {s} /\ req' = Joined /\ suspect' = suspect \cup Met
        /\ UNCHANGED <<fact, scene, master, base, chain, image>>
    BY DEF CreateShot, Rearranges
  <1>2. /\ num'[s] > 0 /\ s \notin live
        /\ \A t \in live : num'[t] = num[t] /\ num[t] < num'[s]
    BY CreateShotTypes DEF ChainInv
  <1>3. CASE Busy # {}
    <2>1. {"rows", "images"} \subseteq suspect'
      BY <1>1, <1>3 DEF Met
    <2> QED  BY <1>1, <2>1, JoinMeets DEF ChainInv
  <1>4. CASE Busy = {}
    <2>1. Busy' = {} /\ suspect' = suspect
      BY <1>1, <1>4, JoinMeets DEF ChainInv, Met
    <2>2. chain[s] = NoRow /\ image[s] = NoImage
      BY <1>1 DEF ChainInv, ChainTypes, UncreatedOK
    <2>3. StoryTypes /\ StoryTypes' /\ num'[s] \in Nat /\ \A t \in live : t \in Shots /\ num[t] \in Nat
      BY DEF ChainInv, ChainTypes, StoryTypes
    <2>4. ASSUME NEW t \in live  PROVE SamePast(t)
      <3>1. num'[t] = num[t] /\ ~(num'[s] <= num'[t])
        BY <1>2, <2>3
      <3>2. Upto(t)' = Upto(t)
        BY <1>1, <1>2, <3>1 DEF Upto
      <3>3. \A u \in Upto(t) : num'[u] = num[u] /\ fact'[u] = fact[u]
        BY <1>1, <1>2 DEF Upto
      <3> QED  BY <1>1, <3>1, <3>2, <3>3 DEF SamePast
    <2>5. ASSUME "rows" \notin suspect', NEW t \in live'  PROVE Tells(t, chain[t])'
      <3>1. CASE t = s
        BY <1>1, <2>2, <3>1 DEF Tells, NoRow
      <3>2. CASE t # s
        <4>1. t \in live
          BY <1>1, <3>2
        <4>2. PICK row : row = chain[t]
          OBVIOUS
        <4>3. Tells(t, row)
          BY <1>4, <2>1, <2>5, <4>1, <4>2, QuietRests DEF RowsTell
        <4>4. Tells(t, row)'
          BY <2>3, <2>4, <4>1, <4>3, PastTold
        <4>5. chain'[t] = row
          BY <1>1, <4>2
        <4> QED  BY <4>4, <4>5 DEF Tells
      <3> QED  BY <3>1, <3>2
    <2>6. ASSUME "images" \notin suspect', NEW t \in live'  PROVE IsCurrent(t)'
      <3>1. CASE t = s
        BY <1>1, <2>2, <3>1 DEF IsCurrent, NoImage
      <3>2. CASE t # s
        <4>1. t \in live
          BY <1>1, <3>2
        <4>2. Shown(t)' = Shown(t)
          BY <2>3, <2>4, <4>1, PastShown
        <4>3. IsCurrent(t)
          BY <1>4, <2>1, <2>6, <4>1, QuietRests
        <4> QED  BY <1>1, <4>2, <4>3 DEF IsCurrent
      <3> QED  BY <3>1, <3>2
    <2>7. "rows" \notin suspect' => BaseTells'
      BY <1>1, <1>4, <2>1, QuietRests DEF BaseTells
    <2> QED  BY <2>1, <2>5, <2>6, <2>7 DEF AtRest, RowsTell
  <1> QED  BY <1>3, <1>4

LEMMA TellsKept ==
  ASSUME StoryTypes, StoryTypes', UNCHANGED story
  PROVE  \A s \in Shots : \A row : Tells(s, row)' <=> Tells(s, row)
  BY SameStory, PastTold

LEMMA RowsKept ==
  ASSUME StoryTypes, StoryTypes', UNCHANGED <<story, chain>>
  PROVE  /\ RowsTell(live) => RowsTell(live)'
         /\ \A s : RowsTell(Before(s)) => RowsTell(Before(s))'
  <1>1. ASSUME NEW s \in live, Tells(s, chain[s])  PROVE Tells(s, chain[s])'
    <2>1. PICK row : row = chain[s] /\ s \in Shots
      BY DEF StoryTypes
    <2>2. Tells(s, row)' /\ chain'[s] = row
      BY <1>1, <2>1, TellsKept
    <2> QED  BY <2>2 DEF Tells
  <1>2. live' = live /\ \A s : Before(s)' = Before(s) /\ Before(s) \in SUBSET live
    BY DEF story, Before
  <1> QED  BY <1>1, <1>2 DEF RowsTell

LEMMA FitsKept ==
  ASSUME StoryTypes, StoryTypes', UNCHANGED <<story, base, chain, suspect>>, NEW r, DOMAIN r.rows \in SUBSET Shots
  PROVE  /\ FitsPlace(r) => FitsPlace(r)'
         /\ FitsBase(r) => FitsBase(r)'
         /\ FitsCommit(r) => FitsCommit(r)'
         /\ FitsRows(r) => FitsRows(r)'
  <1>1. live' = live /\ scene' = scene /\ FromOn(r.from)' = FromOn(r.from)
    BY DEF story, FromOn
  <1>2. FitsPlace(r) => FitsPlace(r)'
    BY <1>1 DEF FitsPlace
  <1>3. FitsBase(r) => FitsBase(r)'
    BY <1>1 DEF FitsBase, BaseTells
  <1>4. FitsRows(r) => FitsRows(r)'
    BY <1>1, RowsKept DEF FitsRows
  <1>5. FitsCommit(r) => FitsCommit(r)'
    <2>1. \A s \in DOMAIN r.rows : Tells(s, r.rows[s]) => Tells(s, r.rows[s])'
      <3>1. ASSUME NEW s \in DOMAIN r.rows, NEW row, row = r.rows[s], Tells(s, row)
            PROVE  Tells(s, row)'
        BY <3>1, TellsKept
      <3> QED  BY <3>1
    <2> QED  BY <1>1, <2>1 DEF FitsCommit
  <1> QED  BY <1>2, <1>3, <1>4, <1>5

\* Nothing but images changes.
LEMMA ImagesStep ==
  ASSUME ChainInv, ChainTypes', UNCHANGED <<story, base, chain, req, suspect>>,
         \A t \in Shots : image'[t] = image[t] \/ (running[t].n > 0 /\ image'[t] = running[t])
  PROVE  Doubted' \/ AtRest' \/ OneAlone'
  <1>1. Busy' = Busy /\ live' = live /\ req' = req /\ StoryTypes /\ StoryTypes' /\ \A t \in live : t \in Shots
    BY DEF Busy, story, ChainInv, ChainTypes, StoryTypes
  <1>2. ASSUME NEW t \in live  PROVE IsCurrent(t)' \/ (image'[t] = image[t] /\ (IsCurrent(t) => IsCurrent(t)'))
    <2>1. Shown(t)' = Shown(t)
      BY <1>1, SameStory, PastShown
    <2>2. CASE image'[t] = image[t]
      BY <2>1, <2>2 DEF IsCurrent
    <2>3. CASE running[t].n > 0 /\ image'[t] = running[t]
      <3>1. ~running[t].overtaken => running[t].of = Shown(t)
        BY <1>1, <2>3 DEF ChainInv, RunningOK
      <3> QED  BY <2>1, <2>3, <3>1 DEF IsCurrent
    <2> QED  BY <1>1, <2>2, <2>3
  <1>3. CASE Doubted
    BY <1>1, <1>3 DEF Doubted
  <1>4. CASE AtRest
    BY <1>1, <1>2, <1>4, RowsKept DEF AtRest, BaseTells, story
  <1>5. CASE OneAlone
    <2>1. PICK c \in Clients : Busy = {c} /\ req[c].alone /\ \A r \in {req[c]} : Fits(r)
      BY <1>5 DEF OneAlone
    <2>2. PICK r : r = req[c]
      OBVIOUS
    <2>3. Fits(r) /\ DOMAIN r.rows \in SUBSET Shots
      BY <2>1, <2>2, AsksOfRequest, PartialTypes DEF ChainInv, ChainTypes, RequestTypes
    <2>4. FitsPlace(r)' /\ FitsBase(r)' /\ FitsCommit(r)' /\ FitsRows(r)'
      BY <1>1, <2>3, FitsKept DEF Fits
    <2>5. \A s : Downstream(s)' = Downstream(s)
      BY DEF story, Downstream
    <2>6. ASSUME NEW t \in live, IsCurrent(t) \/ Marks(r, t)  PROVE IsCurrent(t)' \/ Marks(r, t)'
      <3>1. CASE image'[t] = image[t] /\ Marks(r, t)
        BY <2>5, <3>1 DEF Marks
      <3> QED  BY <1>2, <2>6, <3>1
    <2>7. FitsImages(r)'
      BY <1>1, <2>3, <2>6 DEF Fits, FitsImages
    <2> QED  BY <1>1, <2>1, <2>2, <2>4, <2>7, IsAlone DEF Fits
  <1> QED  BY <1>3, <1>4, <1>5 DEF ChainInv

-----------------------------------------------------------------------------
(* The steps of a request.                                                 *)

LEMMA ServesOne ==
  ASSUME ChainTypes, NEW c \in Clients, Serves(c)
  PROVE  /\ c \in Busy
         /\ \A d \in Clients \ {c} : req'[d] = req[d]
         /\ req'[c].pc = "idle" \/ req'[c].alone = req[c].alone
         /\ \/ suspect' = {"rows", "images"}
            \/ suspect' = suspect
            \/ req[c].alone
  <1> DEFINE q == req[c]
  <1>1. req \in [Clients -> Requests]
    BY DEF ChainTypes, RequestTypes
  <1>2. c \in Busy
    BY DEF Busy, Serves, ListsShots, BaseCommits, ChainLoads, ChainCommits, StaleMarks, HookFails
  <1>3. \/ suspect' = {"rows", "images"}
        \/ suspect' = suspect
        \/ q.alone
    BY DEF Serves, ListsShots, BaseCommits, ChainLoads, ChainCommits, StaleMarks, HookFails
  <1>4. Ended(c) \/ \E r : req' = [req EXCEPT ![c] = r] /\ r.alone = q.alone
    <2>1. CASE ListsShots(c)
      <3>1. CASE live = {}
        BY <2>1, <3>1 DEF ListsShots
      <3>2. CASE live # {}
        <4>1. Opens(q).alone = q.alone
          BY DEF Opens, Asks
        <4> QED  BY <1>1, <2>1, <3>2, <4>1, ListsShotsAsks
      <3> QED  BY <3>1, <3>2
    <2>2. CASE BaseCommits(c)
      <3>1. Advances(q, "load").alone = q.alone
        BY DEF Advances, Asks
      <3> QED  BY <1>1, <2>2, <3>1, GoesAsks DEF BaseCommits
    <2>3. CASE ChainLoads(c)
      <3>1. LooksAtScene(q).alone = q.alone /\ Resolves(q).alone = q.alone
        BY DEF LooksAtScene, Resolves, Asks
      <3> QED  BY <1>1, <2>3, <3>1, ChainLoadsAsks
    <2>4. CASE ChainCommits(c)
      <3>1. TurnsTo(q).alone = q.alone /\ Finishes(q).alone = q.alone
        BY DEF TurnsTo, Finishes, Asks
      <3> QED  BY <1>1, <2>4, <3>1, ChainCommitsAsks
    <2>5. CASE StaleMarks(c) \/ HookFails(c)
      BY <2>5 DEF StaleMarks, HookFails
    <2> QED  BY <2>1, <2>2, <2>3, <2>4, <2>5 DEF Serves
  <1>5. CASE Ended(c)
    <2>1. req'[c] = Idle /\ \A d \in Clients \ {c} : req'[d] = req[d]
      BY <1>1, <1>5 DEF Ended
    <2> QED  BY <1>2, <1>3, <2>1, IdleTypes
  <1>6. CASE \E r : req' = [req EXCEPT ![c] = r] /\ r.alone = q.alone
    BY <1>1, <1>2, <1>3, <1>6
  <1> QED  BY <1>4, <1>5, <1>6

LEMMA ServesDoubted ==
  ASSUME ChainTypes, Doubted, NEW c \in Clients, Serves(c)
  PROVE  Doubted'
  <1>1. c \in Busy /\ ~req[c].alone
    BY ServesOne DEF Doubted
  <1>2. {"rows", "images"} \subseteq suspect'
    BY <1>1, ServesOne DEF Doubted
  <1>3. ASSUME NEW d \in Busy'  PROVE ~req'[d].alone
    <2>1. d \in Clients /\ req'[d].pc # "idle"
      BY DEF Busy
    <2>2. CASE d = c
      BY <1>1, <2>1, <2>2, ServesOne
    <2>3. CASE d # c
      <3>1. req'[d] = req[d] /\ d \in Busy
        BY <2>1, <2>3, ServesOne DEF Busy
      <3> QED  BY <3>1 DEF Doubted
    <2> QED  BY <2>2, <2>3
  <1> QED  BY <1>2, <1>3 DEF Doubted

LEMMA GoesOn ==
  ASSUME req \in [Clients -> Requests], NEW c \in Clients, Busy = {c}, NEW r, req' = [req EXCEPT ![c] = r]
  PROVE  /\ req'[c] = r
         /\ r.pc # "idle" => Busy' = {c}
         /\ r.pc = "idle" => Busy' = {}
  <1>1. req'[c] = r /\ \A d \in Clients \ {c} : req'[d] = req[d] /\ req[d].pc = "idle"
    BY DEF Busy
  <1> QED  BY <1>1 DEF Busy

LEMMA GoesToRest ==
  ASSUME req \in [Clients -> Requests], NEW c \in Clients, Busy = {c}, Ended(c)
  PROVE  Busy' = {}
  <1>1. PICK r : r = Idle
    OBVIOUS
  <1>2. req' = [req EXCEPT ![c] = r] /\ r.pc = "idle"
    BY <1>1, IdleTypes DEF Ended
  <1> QED  BY <1>2, GoesOn

\* A request that has the scene to itself.
Alone(c, q) == Busy = {c} /\ q = req[c] /\ q.alone /\ q \in Requests /\ FitsKind(q) /\ Fits(q)

LEMMA ListsShotsAlone ==
  ASSUME ChainTypes, ChainTypes', NEW c \in Clients, NEW q, Alone(c, q), ListsShots(c)
  PROVE  AtRest' \/ OneAlone'
  <1>1. UNCHANGED <<story, base, chain, image, suspect>> /\ q.pc = "list"
    BY DEF ListsShots, Alone
  <1>2. StoryTypes /\ StoryTypes' /\ live' = live /\ live \in SUBSET Shots /\ req \in [Clients -> Requests]
    BY <1>1 DEF ChainTypes, StoryTypes, RequestTypes, story
  <1>3. q.kind = "version" /\ ("rows" \notin suspect => BaseTells)
    BY <1>1 DEF Alone, FitsKind, Fits, FitsBase, Rewrites
  <1>4. CASE live = {}
    <2>1. Ended(c)
      BY <1>4 DEF ListsShots
    <2>2. Busy' = {}
      BY <1>2, <2>1, GoesToRest DEF Alone
    <2> QED  BY <1>1, <1>2, <1>3, <1>4, <2>2 DEF AtRest, RowsTell, BaseTells, story
  <1>5. CASE live # {}
    <2>1. Listed \in [live -> Nat] /\ DOMAIN Listed = live /\ \A s \in live : Listed[s] = num[s]
      BY <1>2 DEF Listed, StoryTypes
    <2>2. Listed \in Partial(Nat)
      BY <1>2, <2>1 DEF Partial
    <2>3. PICK first : first = FirstOf(Listed)
      OBVIOUS
    <2>4. first \in live /\ \A t \in live : num[first] <= num[t]
      BY <1>5, <2>1, <2>2, <2>3, FirstOfList
    <2>5. PICK r : r = Opens(q)
      OBVIOUS
    <2>6. DOMAIN RestOf(Listed) \in SUBSET live
      BY <1>5, <2>1, <2>2, RestTypes
    <2>7. /\ r.kind = "version" /\ r.pc = "load" /\ r.from = first /\ r.todo = RestOf(Listed)
          /\ r.sees.images = Held(live) /\ r.alone
      BY <1>3, <2>3, <2>5 DEF Opens, Asks, Alone
    <2>8. req' = [req EXCEPT ![c] = r]
      BY <1>2, <1>5, <2>5, ListsShotsAsks DEF Alone
    <2>9. req'[c] = r /\ Busy' = {c}
      BY <1>2, <2>7, <2>8, GoesOn DEF Alone
    <2>10. FitsPlace(r)'
      BY <1>2, <2>4, <2>6, <2>7 DEF FitsPlace
    <2>11. FitsBase(r)'
      BY <1>1, <1>3, <2>7 DEF FitsBase, Rewrites, BaseTells, story
    <2>12. FitsCommit(r)'
      BY <2>7 DEF FitsCommit
    <2>13. FitsRows(r)'
      <3>1. \A t \in live : num[t] \in Nat
        BY <1>2 DEF StoryTypes
      <3>2. Before(first) = {}
        BY <2>4, <3>1 DEF Before
      <3>3. Before(first)' = {}
        BY <1>1, <3>2 DEF Before, story
      <3> QED  BY <2>7, <3>3 DEF FitsRows, RowsTell
    <2>14. FitsImages(r)'
      <3>1. \A s \in live' : s \in Downstream(None)'
        BY DEF Downstream
      <3>2. \A s \in live : Held(live)[s] = image[s].n
        BY <1>2, HeldTypes DEF ChainTypes
      <3> QED  BY <1>1, <1>2, <2>7, <3>1, <3>2 DEF FitsImages, Marks, Hooks
    <2> QED  BY <2>7, <2>9, <2>10, <2>11, <2>12, <2>13, <2>14, IsAlone DEF Fits
  <1> QED  BY <1>4, <1>5

LEMMA BaseCommitsAlone ==
  ASSUME ChainTypes, ChainTypes', NEW c \in Clients, NEW q, Alone(c, q), BaseCommits(c)
  PROVE  AtRest' \/ OneAlone'
  <1>1. /\ UNCHANGED <<story, chain, image, suspect>> /\ q.pc = "base"
        /\ base' = BaseState(q.sees.scene)
        /\ \/ q.kind = "read" /\ Ended(c)
           \/ Goes(c, "load")
    BY DEF BaseCommits, Alone
  <1>2. StoryTypes /\ StoryTypes' /\ live' = live /\ live \in SUBSET Shots /\ req \in [Clients -> Requests]
    BY <1>1 DEF ChainTypes, StoryTypes, RequestTypes, story
  <1>3. Fits(q) /\ FitsKind(q)
    BY DEF Alone
  <1>4. base'.fact = scene'
    <2>1. q.sees.scene = scene
      BY <1>1, <1>3 DEF Fits, FitsBase
    <2> QED  BY <1>1, <2>1 DEF BaseState, story
  <1>5. \A s : Downstream(s)' = Downstream(s)
    BY <1>1, SameStory
  <1>6. \A s \in live : Shown(s)' = Shown(s)
    BY <1>1, <1>2, SameStory, PastShown
  <1>7. CASE q.kind = "read" /\ Ended(c)
    <2>1. Busy' = {}
      BY <1>2, <1>7, GoesToRest DEF Alone
    <2>2. "rows" \notin suspect => RowsTell(live)'
      BY <1>1, <1>2, <1>3, <1>7, RowsKept DEF Fits, FitsRows
    <2>3. "images" \notin suspect => \A s \in live : IsCurrent(s)
      BY <1>3, <1>7 DEF Fits, FitsImages, Marks, Hooks
    <2>4. \A s \in live : IsCurrent(s) => IsCurrent(s)'
      BY <1>1, <1>6 DEF IsCurrent
    <2> QED  BY <1>1, <1>2, <1>4, <2>1, <2>2, <2>3, <2>4 DEF AtRest, BaseTells
  <1>8. CASE Goes(c, "load")
    <2>1. PICK r : r = Advances(q, "load")
      OBVIOUS
    <2>2. /\ r.kind = q.kind /\ r.pc = "load" /\ r.from = q.from /\ r.todo = q.todo
          /\ r.sees.images = q.sees.images /\ r.alone
      BY <2>1 DEF Advances, Asks, Alone
    <2>3. req' = [req EXCEPT ![c] = r]
      BY <1>2, <1>8, <2>1, GoesAsks DEF Alone
    <2>4. req'[c] = r /\ Busy' = {c}
      BY <1>2, <2>2, <2>3, GoesOn DEF Alone
    <2>5. FitsPlace(r)'
      BY <1>1, <1>2, <1>3, <2>2 DEF Fits, FitsPlace
    <2>6. FitsBase(r)'
      BY <1>4, <2>2 DEF FitsBase, BaseTells
    <2>7. FitsCommit(r)'
      BY <2>2 DEF FitsCommit
    <2>8. FitsRows(r)'
      BY <1>1, <1>2, <1>3, <2>2, RowsKept DEF Fits, FitsRows
    <2>9. FitsImages(r)'
      <3>1. ASSUME NEW s \in live, IsCurrent(s) \/ Marks(q, s)  PROVE IsCurrent(s)' \/ Marks(r, s)'
        BY <1>1, <1>5, <1>6, <2>2, <3>1 DEF IsCurrent, Marks
      <3> QED  BY <1>1, <1>2, <1>3, <3>1 DEF Fits, FitsImages
    <2> QED  BY <2>2, <2>4, <2>5, <2>6, <2>7, <2>8, <2>9, IsAlone DEF Fits
  <1> QED  BY <1>1, <1>7, <1>8

\* What a recompute writes is so, if what it reads is.
LEMMA ResolvedTells ==
  ASSUME StoryTypes, StoreTypes, base # None, base.fact = scene, NEW f \in live \cup {None},
         f # None => RowsTell(Before(f)),
         NEW rows, rows = Resolved(From(f), Seed(From(f)), base)
  PROVE  /\ DOMAIN rows \in SUBSET live /\ FromOn(f) \subseteq DOMAIN rows
         /\ \A s \in DOMAIN rows : Tells(s, rows[s])
  <1>1. PICK from, prev : from = From(f) /\ prev = Seed(from)
    OBVIOUS
  <1>2. prev \in Ends \cup {None} /\ base \in Ends
    BY <1>1, SeedIsAnEnd DEF StoreTypes
  <1>3. rows = Resolved(from, prev, base)
    BY <1>1
  <1>4. from = f \/ from = None
    BY <1>1 DEF From
  <1>50. PICK b : b = base
    OBVIOUS
  <1>51. /\ DOMAIN Resolved(from, prev, b) = FromOn(from) /\ FromOn(from) \in SUBSET live
         /\ \A s \in FromOn(from) :
              /\ Resolved(from, prev, b)[s].end = Stated(s, IF prev # None THEN prev ELSE b)
              /\ "changed" \in Resolved(from, prev, b)[s].warnings
                   <=> Resolved(from, prev, b)[s].end.fact # b.fact
              /\ "outdated" \in Resolved(from, prev, b)[s].warnings
                   <=> Resolved(from, prev, b)[s].end.version \notin {None, master}
    <2>1. StoryTypes /\ prev \in Ends \cup {None} /\ b \in Ends
      BY <1>2, <1>50
    <2> QED  BY ONLY <2>1, ResolvedTypes, ZenonT(60)
  <1>5. DOMAIN rows = FromOn(from) /\ FromOn(from) \in SUBSET live
    BY <1>3, <1>50, <1>51
  <1>6. FromOn(f) \subseteq DOMAIN rows
    BY <1>4, <1>5 DEF FromOn
  <1> DEFINE before == IF prev # None THEN prev ELSE base
  <1>7. ASSUME NEW s \in FromOn(from)  PROVE Tells(s, rows[s])
    <2>1. /\ rows[s].end = Stated(s, before)
          /\ "changed" \in rows[s].warnings <=> rows[s].end.fact # base.fact
          /\ "outdated" \in rows[s].warnings <=> rows[s].end.version \notin {None, master}
      BY <1>3, <1>50, <1>51
    <2>2. s \in live /\ s \in Shots /\ before \in Ends
      BY <1>2, <1>5 DEF StoryTypes
    <2>3. rows[s].end.fact = IF fact[s] = None THEN before.fact ELSE fact[s]
      BY <2>1, <2>2, StatedIsAnEnd
    <2>4. fact[s] = None => before.fact \in Holds(s)
      <3>1. CASE prev = None
        BY <3>1 DEF Holds
      <3>2. CASE prev # None
        <4>1. PICK p : p = Previous(from)
          OBVIOUS
        <4>2. p # None /\ prev = chain[p].end
          BY <1>1, <3>2, <4>1 DEF Seed
        <4>3. from # None /\ p \in Before(from) /\ p \in live
          BY <4>1, <4>2, PreviousIsBefore
        <4>4. from = f /\ chain[p] # NoRow
          BY <1>1, <1>4, <4>1, <4>2, <4>3 DEF From
        <4>5. prev.fact \in Holds(p)
          BY <4>2, <4>3, <4>4 DEF RowsTell, Tells
        <4>6. \A t \in live : num[t] \in Nat
          BY DEF StoryTypes
        <4>7. f \in live /\ num[p] < num[f] /\ num[f] <= num[s]
          BY <4>3, <4>4, <4>6, <2>2 DEF Before, FromOn
        <4>70. num[p] \in Nat /\ num[f] \in Nat /\ num[s] \in Nat
          BY <4>3, <4>6, <4>7, <2>2
        <4>71. num[p] < num[s]
          BY ONLY <4>7, <4>70
        <4>72. ASSUME NEW t \in Before(p)  PROVE t \in Before(s)
          <5>1. t \in live /\ num[t] < num[p] /\ num[t] \in Nat
            BY <4>6 DEF Before
          <5>2. num[t] < num[s]
            BY ONLY <5>1, <4>70, <4>71
          <5> QED  BY <5>1, <5>2 DEF Before
        <4>8. p \in Before(s) /\ Before(p) \subseteq Before(s)
          BY <4>3, <4>71, <4>72 DEF Before
        <4>9. (prev.fact = fact[p] /\ fact[p] # None) \/ prev.fact \in {scene} \cup ({fact[t] : t \in Before(p)} \ {None})
          BY <4>5 DEF Holds
        <4>10. prev.fact \in {scene} \cup ({fact[t] : t \in Before(s)} \ {None})
          BY <4>8, <4>9
        <4> QED  BY <3>2, <4>10 DEF Holds
      <3> QED  BY <3>1, <3>2
    <2>5. rows[s].end.fact \in Holds(s)
      BY <2>3, <2>4 DEF Holds
    <2> QED  BY <2>1, <2>5 DEF Tells
  <1> QED  BY <1>5, <1>6, <1>7

LEMMA ChainLoadsAlone ==
  ASSUME ChainTypes, ChainTypes', NEW c \in Clients, NEW q, Alone(c, q), ChainLoads(c)
  PROVE  AtRest' \/ OneAlone'
  <1>1. UNCHANGED <<story, base, chain, image, suspect>> /\ q.pc = "load"
    BY DEF ChainLoads, Alone
  <1>2. StoryTypes /\ StoryTypes' /\ live' = live /\ live \in SUBSET Shots /\ req \in [Clients -> Requests]
    BY <1>1 DEF ChainTypes, StoryTypes, RequestTypes, story
  <1>3. Fits(q) /\ FitsKind(q) /\ q.from \in live \cup {None} /\ q \in Requests /\ q.kind # "none"
    BY <1>1 DEF Alone, Fits, FitsPlace, FitsKind
  <1>4. (Rewrites(q) \/ "rows" \notin suspect) => BaseTells
    BY <1>1, <1>3 DEF Fits, FitsBase
  <1>5. \A s : Downstream(s)' = Downstream(s)
    BY <1>1, SameStory
  <1>6. \A s \in live : Shown(s)' = Shown(s)
    BY <1>1, <1>2, SameStory, PastShown
  <1>7. CASE base = None
    <2>1. PICK r : r = LooksAtScene(q)
      OBVIOUS
    <2>2. /\ r.kind = q.kind /\ r.pc = "base" /\ r.from = q.from /\ r.todo = q.todo
          /\ r.sees.images = q.sees.images /\ r.sees.scene = scene /\ r.alone
      BY <2>1 DEF LooksAtScene, Asks, Alone
    <2>3. req' = [req EXCEPT ![c] = r]
      BY <1>2, <1>7, <2>1, ChainLoadsAsks DEF Alone
    <2>4. req'[c] = r /\ Busy' = {c}
      BY <1>2, <2>2, <2>3, GoesOn DEF Alone
    <2>5. FitsPlace(r)'
      BY <1>1, <1>2, <1>3, <2>2 DEF Fits, FitsPlace
    <2>6. FitsBase(r)'
      BY <1>1, <1>7, <2>2 DEF FitsBase, BaseTells, story
    <2>7. FitsCommit(r)'
      BY <2>2 DEF FitsCommit
    <2>8. FitsRows(r)'
      BY <1>1, <1>2, <1>3, <2>2, RowsKept DEF Fits, FitsRows
    <2>9. FitsImages(r)'
      <3>1. ASSUME NEW s \in live, IsCurrent(s) \/ Marks(q, s)  PROVE IsCurrent(s)' \/ Marks(r, s)'
        BY <1>1, <1>5, <1>6, <2>2, <3>1 DEF IsCurrent, Marks
      <3> QED  BY <1>1, <1>2, <1>3, <3>1 DEF Fits, FitsImages
    <2> QED  BY <2>2, <2>4, <2>5, <2>6, <2>7, <2>8, <2>9, IsAlone DEF Fits
  <1>8. CASE base # None /\ live = {}
    <2>1. Ended(c)
      BY <1>2, <1>8, ChainLoadsAsks
    <2>2. Busy' = {}
      BY <1>2, <2>1, GoesToRest DEF Alone
    <2> QED  BY <1>1, <1>2, <1>4, <1>8, <2>2 DEF AtRest, RowsTell, BaseTells, story
  <1>9. CASE base # None /\ live # {}
    <2>1. PICK r, rows : r = Resolves(q) /\ rows = Rows(q)
      OBVIOUS
    <2>2. /\ r.kind = q.kind /\ r.pc = "commit" /\ r.from = q.from /\ r.todo = q.todo
          /\ r.sees.images = q.sees.images /\ r.alone
          /\ r.rows = rows /\ r.inserts = {s \in DOMAIN rows : chain[s] = NoRow}
      BY <2>1 DEF Resolves, Asks, Alone
    <2>3. req' = [req EXCEPT ![c] = r]
      BY <1>2, <1>3, <1>9, <2>1, ChainLoadsAsks DEF Alone
    <2>4. req'[c] = r /\ Busy' = {c}
      BY <1>2, <2>2, <2>3, GoesOn DEF Alone
    <2>5. FitsPlace(r)'
      BY <1>1, <1>2, <1>3, <2>2 DEF Fits, FitsPlace
    <2>6. FitsBase(r)'
      BY <1>1, <1>4, <2>2 DEF FitsBase, Rewrites, BaseTells, story
    <2>7. DOMAIN rows \in SUBSET live /\ FromOn(q.from) \subseteq DOMAIN rows
      <3>1. Seed(From(q.from)) \in Ends \cup {None} /\ base \in Ends
        BY <1>9, SeedIsAnEnd DEF ChainTypes, StoreTypes
      <3>2. DOMAIN rows = FromOn(From(q.from)) /\ FromOn(From(q.from)) \in SUBSET live
        <4>1. PICK from, prev, b : from = From(q.from) /\ prev = Seed(from) /\ b = base
          OBVIOUS
        <4>2. StoryTypes /\ prev \in Ends \cup {None} /\ b \in Ends
          BY <1>2, <3>1, <4>1
        <4>3. DOMAIN Resolved(from, prev, b) = FromOn(from) /\ FromOn(from) \in SUBSET live
          BY ONLY <4>2, ResolvedTypes
        <4> QED  BY <2>1, <4>1, <4>3 DEF Rows
      <3>3. From(q.from) = q.from \/ From(q.from) = None
        BY DEF From
      <3>4. FromOn(q.from) \subseteq FromOn(From(q.from))
        BY <3>3 DEF FromOn
      <3> QED  BY <3>2, <3>4
    <2>8. ASSUME Rewrites(q) \/ "rows" \notin suspect
          PROVE  \A s \in DOMAIN rows : Tells(s, rows[s])
      <3>1. base.fact = scene
        BY <1>4, <1>9, <2>8 DEF BaseTells
      <3>2. q.from # None => RowsTell(Before(q.from))
        <4>1. CASE Rewrites(q)
          BY <1>3, <4>1 DEF Rewrites, FitsKind
        <4>2. CASE ~Rewrites(q)
          <5>1. "rows" \notin suspect /\ q.kind \in {"read", "shot", "version"}
            BY <1>3, <2>8, <4>2, AsksOfRequest DEF Rewrites, Kinds
          <5>2. CASE q.kind = "read"
            <6>1. RowsTell(live) /\ \A s : Before(s) \in SUBSET live
              BY <1>3, <5>1, <5>2 DEF Fits, FitsRows, Before
            <6> QED  BY <6>1 DEF RowsTell
          <5>3. CASE q.kind \in {"shot", "version"}
            BY <1>1, <1>3, <5>1, <5>3 DEF Fits, FitsRows
          <5> QED  BY <5>1, <5>2, <5>3
        <4> QED  BY <4>1, <4>2
      <3>3. rows = Resolved(From(q.from), Seed(From(q.from)), base) /\ StoreTypes
        BY <2>1 DEF Rows, ChainTypes
      <3> QED  BY <1>2, <1>3, <1>9, <3>1, <3>2, <3>3, ResolvedTells
    <2>9. FitsCommit(r)'
      <3>1. \A s \in r.inserts : chain'[s] = NoRow
        BY <1>1, <2>2
      <3>2. FromOn(q.from)' = FromOn(q.from)
        BY <1>1, SameStory
      <3>3. ASSUME Rewrites(r) \/ "rows" \notin suspect', NEW s \in DOMAIN rows, NEW row, row = rows[s]
            PROVE  Tells(s, row)'
        <4>1. Tells(s, row) /\ s \in Shots
          BY <1>1, <1>2, <2>2, <2>7, <2>8, <3>3 DEF Rewrites
        <4> QED  BY <1>1, <1>2, <4>1, TellsKept
      <3>4. ASSUME Rewrites(r) \/ "rows" \notin suspect', NEW s \in DOMAIN rows
            PROVE  Tells(s, rows[s])'
        BY <3>3, <3>4
      <3> QED  BY <1>2, <2>2, <2>7, <3>1, <3>2, <3>4 DEF FitsCommit, Rewrites
    <2>10. FitsRows(r)'
      BY <1>1, <1>2, <1>3, <2>2, RowsKept DEF Fits, FitsRows
    <2>11. FitsImages(r)'
      <3>1. ASSUME NEW s \in live, IsCurrent(s) \/ Marks(q, s)  PROVE IsCurrent(s)' \/ Marks(r, s)'
        BY <1>1, <1>5, <1>6, <2>2, <3>1 DEF IsCurrent, Marks
      <3> QED  BY <1>1, <1>2, <1>3, <3>1 DEF Fits, FitsImages
    <2> QED  BY <2>2, <2>4, <2>5, <2>6, <2>9, <2>10, <2>11, IsAlone DEF Fits
  <1> QED  BY <1>7, <1>8, <1>9

LEMMA ChainCommitsAlone ==
  ASSUME ChainTypes, ChainTypes', NEW c \in Clients, NEW q, Alone(c, q), ChainCommits(c)
  PROVE  AtRest' \/ OneAlone'
  <1>1. UNCHANGED <<story, base, image>> /\ q.pc = "commit"
    BY DEF ChainCommits, Alone
  <1>2. StoryTypes /\ StoryTypes' /\ live' = live /\ live \in SUBSET Shots /\ req \in [Clients -> Requests]
    BY <1>1 DEF ChainTypes, StoryTypes, RequestTypes, story
  <1>3. Fits(q) /\ FitsKind(q) /\ q \in Requests /\ q.kind \in Kinds /\ q.kind # "none"
    BY <1>1, AsksOfRequest DEF Alone, FitsKind
  <1>4. ~(\E s \in q.inserts : chain[s] # NoRow)
    BY <1>1, <1>3 DEF Fits, FitsCommit
  <1>5. /\ chain' = [s \in Shots |-> IF s \in DOMAIN q.rows THEN q.rows[s] ELSE chain[s]]
        /\ suspect' = IF Rewrites(q) THEN suspect \ {"rows"} ELSE suspect
        /\ \/ q.todo # Nothing /\ req' = [req EXCEPT ![c] = TurnsTo(q)]
           \/ q.todo = Nothing /\ q.kind \in Hooks /\ req' = [req EXCEPT ![c] = Finishes(q)]
           \/ q.todo = Nothing /\ q.kind \notin Hooks /\ Ended(c)
    BY <1>2, <1>4, ChainCommitsAsks DEF Alone, Rewrites
  <1>6. \A s : Downstream(s)' = Downstream(s)
    BY <1>1, SameStory
  <1>7. \A s \in live : Shown(s)' = Shown(s)
    BY <1>1, <1>2, SameStory, PastShown
  <1>8. "rows" \notin suspect' => Rewrites(q) \/ "rows" \notin suspect
    BY <1>5
  <1>9. "rows" \notin suspect' => BaseTells'
    BY <1>1, <1>3, <1>8 DEF Fits, FitsBase, BaseTells, story
  <1>10. Rewrites(q) => BaseTells'
    BY <1>1, <1>3 DEF Fits, FitsBase, BaseTells, story
  <1>11. ASSUME "rows" \notin suspect'  PROVE RowsTell(live)'
    <2>1. ASSUME NEW s \in live, NEW row, row = chain'[s]  PROVE Tells(s, row)'
      <3>1. s \in Shots /\ FromOn(q.from) \subseteq DOMAIN q.rows
        BY <1>1, <1>2, <1>3 DEF Fits, FitsCommit
      <3>2. CASE s \in DOMAIN q.rows
        <4>1. Tells(s, row)
          BY <1>1, <1>3, <1>5, <1>8, <1>11, <2>1, <3>1, <3>2 DEF Fits, FitsCommit
        <4> QED  BY <1>1, <1>2, <3>1, <4>1, TellsKept
      <3>3. CASE s \notin DOMAIN q.rows
        <4>1. row = chain[s]
          BY <1>5, <2>1, <3>1, <3>3
        <4>2. s \notin FromOn(q.from)
          BY <3>1, <3>3
        <4>3. q.from # None /\ q.from \in live
          BY <1>3, <4>2 DEF FromOn, Fits, FitsPlace
        <4>4. num[s] \in Nat /\ num[q.from] \in Nat
          BY <1>2, <4>3 DEF StoryTypes
        <4>5. ~(num[s] >= num[q.from])
          BY <4>2 DEF FromOn
        <4>6. num[s] < num[q.from]
          BY ONLY <4>4, <4>5
        <4>7. s \in Before(q.from)
          BY <4>6 DEF Before
        <4>8. ~Rewrites(q)
          BY <1>3, <4>3 DEF FitsKind, Rewrites
        <4>9. "rows" \notin suspect /\ q.kind \in {"read", "shot", "version"}
          BY <1>3, <1>8, <1>11, <4>8 DEF Rewrites, Kinds
        <4>10. Tells(s, chain[s])
          <5>1. CASE q.kind = "read"
            BY <1>3, <4>9, <5>1 DEF Fits, FitsRows, RowsTell
          <5>2. CASE q.kind \in {"shot", "version"}
            BY <1>1, <1>3, <4>7, <4>9, <5>2 DEF Fits, FitsRows, RowsTell
          <5> QED  BY <4>9, <5>1, <5>2
        <4> QED  BY <1>1, <1>2, <3>1, <4>1, <4>10, TellsKept
      <3> QED  BY <3>2, <3>3
    <2>2. ASSUME NEW s \in live  PROVE Tells(s, chain[s])'
      <3>1. PICK row : row = chain'[s]
        OBVIOUS
      <3>2. Tells(s, row)'
        BY <2>1, <3>1
      <3> QED  BY <3>1, <3>2 DEF Tells
    <2> QED  BY <1>2, <2>2 DEF RowsTell
  <1>12. \A s \in live : IsCurrent(s) => IsCurrent(s)'
    BY <1>1, <1>7 DEF IsCurrent
  <1>13. "images" \notin suspect' => "images" \notin suspect
    BY <1>5
  <1>14. ASSUME NEW r, r.kind = q.kind, r.sees.images = q.sees.images, r.kind = "shot" => r.from = q.from
         PROVE  FitsImages(r)'
    <2>1. ASSUME NEW s \in live, IsCurrent(s) \/ Marks(q, s)  PROVE IsCurrent(s)' \/ Marks(r, s)'
      <3>1. CASE IsCurrent(s)
        BY <1>12, <3>1
      <3>2. CASE Marks(q, s)
        BY <1>1, <1>6, <1>14, <3>2 DEF Marks
      <3> QED  BY <2>1, <3>1, <3>2
    <2> QED  BY <1>2, <1>3, <1>13, <2>1 DEF Fits, FitsImages
  <1>15. CASE q.todo # Nothing /\ req' = [req EXCEPT ![c] = TurnsTo(q)]
    <2>1. q.kind = "version" /\ q.todo \in Partial(Nat)
      BY <1>3, <1>15, AsksOfRequest DEF FitsKind
    <2>2. DOMAIN q.todo # {}
      BY <1>15, <2>1, EmptyIsNothing
    <2>3. PICK first : first = FirstOf(q.todo)
      OBVIOUS
    <2>4. first \in live /\ DOMAIN RestOf(q.todo) \subseteq live
      <3>1. DOMAIN q.todo \subseteq live
        BY <1>3 DEF Fits, FitsPlace
      <3> QED  BY <2>1, <2>2, <2>3, <3>1, FirstOfList, RestTypes
    <2>5. PICK r : r = TurnsTo(q)
      OBVIOUS
    <2>6. /\ r.kind = "version" /\ r.pc = "load" /\ r.from = first /\ r.todo = RestOf(q.todo)
          /\ r.sees.images = q.sees.images /\ r.alone
      BY <2>1, <2>3, <2>5 DEF TurnsTo, Asks, Alone
    <2>7. req'[c] = r /\ Busy' = {c}
      BY <1>2, <1>15, <2>5, <2>6, GoesOn DEF Alone
    <2>8. FitsPlace(r)'
      BY <1>2, <2>4, <2>6 DEF FitsPlace
    <2>9. FitsBase(r)'
      BY <1>9, <2>6 DEF FitsBase, Rewrites
    <2>10. FitsCommit(r)'
      BY <2>6 DEF FitsCommit
    <2>11. FitsRows(r)'
      <3>1. Before(first)' \subseteq live'
        BY DEF Before
      <3> QED  BY <1>11, <2>6, <3>1 DEF FitsRows, RowsTell
    <2>12. FitsImages(r)'
      BY <1>14, <2>1, <2>6
    <2> QED  BY <2>6, <2>7, <2>8, <2>9, <2>10, <2>11, <2>12, IsAlone DEF Fits
  <1>16. CASE q.kind \in Hooks /\ req' = [req EXCEPT ![c] = Finishes(q)]
    <2>1. PICK r : r = Finishes(q)
      OBVIOUS
    <2>2. /\ r.kind = q.kind /\ r.pc = "stale" /\ r.from = q.from /\ r.todo = q.todo
          /\ r.sees.images = q.sees.images /\ r.alone
      BY <2>1 DEF Finishes, Asks, Alone
    <2>3. req'[c] = r /\ Busy' = {c}
      BY <1>2, <1>16, <2>1, <2>2, GoesOn DEF Alone
    <2>4. FitsPlace(r)'
      BY <1>1, <1>2, <1>3, <2>2 DEF Fits, FitsPlace
    <2>5. FitsBase(r)'
      BY <1>9, <1>10, <2>2 DEF FitsBase, Rewrites
    <2>6. FitsCommit(r)'
      BY <2>2 DEF FitsCommit
    <2>7. FitsRows(r)'
      BY <1>11, <2>2 DEF FitsRows
    <2>8. FitsImages(r)'
      BY <1>14, <2>2
    <2> QED  BY <2>2, <2>3, <2>4, <2>5, <2>6, <2>7, <2>8, IsAlone DEF Fits
  <1>17. CASE q.kind \notin Hooks /\ Ended(c)
    <2>1. Busy' = {}
      BY <1>2, <1>17, GoesToRest DEF Alone
    <2>2. "images" \notin suspect => \A s \in live : IsCurrent(s)
      BY <1>3, <1>17 DEF Fits, FitsImages, Marks
    <2> QED  BY <1>2, <1>9, <1>11, <1>12, <1>13, <2>1, <2>2 DEF AtRest
  <1> QED  BY <1>5, <1>15, <1>16, <1>17

LEMMA StaleMarksAlone ==
  ASSUME ChainTypes, ChainTypes', NEW c \in Clients, NEW q, Alone(c, q), StaleMarks(c)
  PROVE  AtRest'
  <1> DEFINE marked == {s \in Downstream(IF q.kind = "shot" THEN q.from ELSE None) :
                          image[s].n > 0 /\ (s \in DOMAIN q.sees.images => image[s].n = q.sees.images[s])}
  <1>1. /\ UNCHANGED <<story, base, chain>> /\ q.pc = "stale" /\ Ended(c)
        /\ image' = [s \in Shots |-> IF s \in marked THEN [image[s] EXCEPT !.status = "stale"] ELSE image[s]]
        /\ suspect' = IF q.kind = "scene" THEN suspect \ {"images"} ELSE suspect
    BY DEF StaleMarks, Alone
  <1>2. StoryTypes /\ StoryTypes' /\ live' = live /\ live \in SUBSET Shots /\ req \in [Clients -> Requests]
    BY <1>1 DEF ChainTypes, StoryTypes, RequestTypes, story
  <1>3. Fits(q) /\ FitsKind(q) /\ q.kind \in Hooks
    BY <1>1 DEF Alone, FitsKind
  <1>4. Busy' = {}
    BY <1>1, <1>2, GoesToRest DEF Alone
  <1>5. "rows" \notin suspect' => BaseTells' /\ RowsTell(live)'
    <2>1. "rows" \notin suspect' => "rows" \notin suspect
      BY <1>1
    <2>2. "rows" \notin suspect => BaseTells /\ RowsTell(live)
      BY <1>1, <1>3 DEF Fits, FitsBase, FitsRows
    <2> QED  BY <1>1, <1>2, <2>1, <2>2, RowsKept DEF BaseTells, story
  <1>6. ASSUME "images" \notin suspect', NEW s \in live  PROVE IsCurrent(s)'
    <2>1. s \in Shots /\ image[s] \in Images /\ Shown(s)' = Shown(s)
      BY <1>1, <1>2, SameStory, PastShown DEF ChainTypes, StoreTypes
    <2>2. CASE s \in marked
      <3>1. image'[s] = [image[s] EXCEPT !.status = "stale"]
        BY <1>1, <2>1, <2>2
      <3>2. image'[s].status = "stale"
        BY <2>1, <3>1 DEF Images
      <3> QED  BY <3>2 DEF IsCurrent
    <2>3. CASE s \notin marked
      <3>1. image'[s] = image[s]
        BY <1>1, <2>1, <2>3
      <3>2. image[s].n > 0 \/ image[s].status # "ready"
        BY <2>1 DEF ChainTypes, StoreTypes
      <3>3. IsCurrent(s) => IsCurrent(s)'
        BY <2>1, <3>1 DEF IsCurrent
      <3>4. ~(image[s].n > 0) => IsCurrent(s)
        BY <3>2 DEF IsCurrent
      <3>5. CASE q.kind = "scene"
        <4>1. s \in Downstream(None) /\ DOMAIN q.sees.images = {}
          BY <1>3, <3>5 DEF Downstream, FitsKind
        <4>2. ~(image[s].n > 0)
          BY <2>3, <3>5, <4>1
        <4> QED  BY <3>3, <3>4, <4>2
      <3>6. CASE q.kind # "scene"
        <4>1. IsCurrent(s) \/ Marks(q, s)
          BY <1>1, <1>3, <1>6, <3>6 DEF Fits, FitsImages
        <4>2. Marks(q, s) => ~(image[s].n > 0)
          BY <2>3 DEF Marks
        <4> QED  BY <3>3, <3>4, <4>1, <4>2
      <3> QED  BY <3>5, <3>6
    <2> QED  BY <2>2, <2>3
  <1> QED  BY <1>2, <1>4, <1>5, <1>6 DEF AtRest

LEMMA HookFailsAlone ==
  ASSUME ChainTypes, NEW c \in Clients, Busy = {c}, HookFails(c)
  PROVE  Doubted'
  <1>1. Busy' = {} /\ suspect' = {"rows", "images"}
    BY GoesToRest DEF HookFails, ChainTypes, RequestTypes
  <1> QED  BY <1>1 DEF Doubted

LEMMA ServesStep ==
  ASSUME ChainInv, ChainTypes', NEW c \in Clients, Serves(c)
  PROVE  Doubted' \/ AtRest' \/ OneAlone'
  <1>1. ChainTypes /\ c \in Busy
    BY ServesOne DEF ChainInv
  <1>2. CASE Doubted
    BY <1>1, <1>2, ServesDoubted
  <1>3. CASE OneAlone
    <2>1. PICK d \in Clients : Busy = {d} /\ req[d].alone /\ \A r \in {req[d]} : Fits(r)
      BY <1>3 DEF OneAlone
    <2>2. PICK q : q = req[c]
      OBVIOUS
    <2>3. d = c
      BY <1>1, <2>1
    <2>4. q \in Requests /\ FitsKind(q)
      BY <1>1, <2>2 DEF ChainTypes, RequestTypes
    <2>5. Alone(c, q)
      BY <2>1, <2>2, <2>3, <2>4 DEF Alone
    <2>6. Busy = {c}
      BY <2>1, <2>3
    <2> QED  BY <1>1, <2>5, <2>6, ListsShotsAlone, BaseCommitsAlone, ChainLoadsAlone, ChainCommitsAlone,
                StaleMarksAlone, HookFailsAlone DEF Serves
  <1>4. ~AtRest
    BY <1>1 DEF AtRest
  <1> QED  BY <1>2, <1>3, <1>4 DEF ChainInv

-----------------------------------------------------------------------------
(* The invariant.                                                          *)

LEMMA ChainInvInit == ChainInit => ChainInv
  <1> SUFFICES ASSUME ChainInit  PROVE ChainInv
    OBVIOUS
  <1>1. ChainTypes
    BY ChainTypesInit
  <1>2. NoImage.n = 0 /\ NoImage.status = "none"
    BY DEF NoImage
  <1>3. RunningOK
    BY <1>2 DEF ChainInit, RunningOK
  <1>4. Busy = {}
    <2>1. PICK r : r = Idle
      OBVIOUS
    <2>2. \A c \in Clients : req[c] = r
      BY <2>1 DEF ChainInit
    <2>3. r.pc = "idle"
      BY <2>1, IdleTypes
    <2> QED  BY <2>2, <2>3 DEF Busy
  <1>5. BaseTells
    BY DEF ChainInit, BaseTells
  <1>6. live \subseteq Shots
    BY DEF ChainInit
  <1>7. RowsTell(live)
    BY <1>6 DEF ChainInit, RowsTell, Tells
  <1>8. \A s \in live : IsCurrent(s)
    BY <1>2, <1>6 DEF ChainInit, IsCurrent
  <1> QED  BY <1>1, <1>3, <1>4, <1>5, <1>7, <1>8 DEF ChainInv, AtRest

LEMMA ChainInvStep ==
  ASSUME ChainInv, [ChainNext]_continuityVars
  PROVE  ChainInv'
  <1>1. ChainTypes /\ RunningOK
    BY DEF ChainInv
  <1>2. ChainTypes' /\ RunningOK'
    BY <1>1, ChainTypesStep, RunningStep
  <1> DEFINE Settled == Doubted' \/ AtRest' \/ OneAlone'
  <1>3. ASSUME UNCHANGED continuityVars  PROVE Settled
    <2>1. UNCHANGED <<story, base, chain, req, suspect>> /\ \A t \in Shots : image'[t] = image[t]
      BY <1>3 DEF continuityVars
    <2> QED  BY <1>2, <2>1, ImagesStep
  <1>4. ASSUME NEW s \in Shots, Generates(s) \/ Delivers(s)  PROVE Settled
    <2>1. UNCHANGED <<story, base, chain, req, suspect>>
      BY <1>4 DEF Generates, Delivers
    <2>2. \A t \in Shots : image'[t] = image[t] \/ (running[t].n > 0 /\ image'[t] = running[t])
      BY <1>1, <1>4 DEF Generates, Delivers, ChainTypes, StoreTypes
    <2> QED  BY <1>2, <2>1, <2>2, ImagesStep
  <1>5. ASSUME \/ \E s \in Shots : DeleteShot(s) \/ RestoreShot(s)
               \/ \E order \in Bijection(live, 1 .. Cardinality(live)) : ReorderShots(order)
        PROVE  Settled
    <2>1. Rearranges({"rows", "images"})
      BY <1>5 DEF DeleteShot, RestoreShot, ReorderShots
    <2> QED  BY <2>1, RearrangesStep
  <1>6. ASSUME NEW c \in Clients, Recompute(c) \/ ReadScene(c) \/ \E s \in Shots : ReadShot(c, s)  PROVE Settled
    BY <1>2, <1>6, ReadsStep
  <1>7. ASSUME NEW c \in Clients, Serves(c)  PROVE Settled
    BY <1>2, <1>7, ServesStep
  <1>8. ASSUME NEW c \in Clients, NEW s \in Shots, NEW v \in Facts \cup {None}, EditShot(c, s, v)  PROVE Settled
    BY <1>2, <1>8, EditShotStep
  <1>9. ASSUME NEW c \in Clients, NEW v \in Facts, EditScene(c, v)  PROVE Settled
    BY <1>2, <1>9, EditSceneStep
  <1>10. ASSUME NEW c \in Clients, NEW v \in Versions, ActivateVersion(c, v)  PROVE Settled
    BY <1>2, <1>10, ActivateVersionStep
  <1>11. ASSUME NEW s \in Shots, CreateShot(s)  PROVE Settled
    BY <1>2, <1>11, CreateShotStep
  <1> HIDE DEF Settled
  <1>12. ASSUME ChainNext  PROVE Settled
    BY <1>4, <1>5, <1>6, <1>7, <1>8, <1>9, <1>10, <1>11, <1>12 DEF ChainNext
  <1>13. Settled
    BY <1>3, <1>12
  <1> QED  BY <1>2, <1>13 DEF ChainInv, Settled

(* What is stored and what is under way at any time: either requests have  *)
(* met, and then both doubts are on record, or no request is under way and *)
(* all is true to the story, or one request has the scene to itself and    *)
(* what it is going to write or to mark is all that can be out of date.    *)
THEOREM ChainInvariant == ChainSpec => []ChainInv
  <1>1. ChainInit => ChainInv
    BY ChainInvInit
  <1>2. ChainInv /\ [ChainNext]_continuityVars => ChainInv'
    BY ChainInvStep
  <1> QED  BY <1>1, <1>2, PTL DEF ChainSpec

(* Whatever edits, reads and recomputes came one after the other, whatever *)
(* was generated meanwhile and however many shots the scene has: when no   *)
(* request is under way and no doubt is left, a stored row tells what its  *)
(* shot states, else what the scene or an earlier shot states now.         *)
THEOREM RowsTellTheStory == ChainSpec => []RowsComeFromTheStory
  <1>1. ChainInv => RowsComeFromTheStory
    <2> SUFFICES ASSUME ChainInv, Busy = {}, "rows" \notin suspect, NEW s \in live, chain[s] # NoRow
        PROVE  /\ chain[s].end.fact \in IF fact[s] # None THEN {fact[s]}
                                        ELSE {scene} \cup ({fact[t] : t \in Before(s)} \ {None})
               /\ "changed" \in chain[s].warnings <=> chain[s].end.fact # scene
               /\ "outdated" \in chain[s].warnings <=> chain[s].end.version \notin {None, master}
      BY DEF RowsComeFromTheStory
    <2>1. Tells(s, chain[s])
      BY QuietRests DEF RowsTell
    <2> QED  BY <2>1 DEF Tells, Holds
  <1> QED  BY <1>1, ChainInvariant, PTL

(* Under the same conditions no active image passes for current that shows *)
(* a fact or a version the story does not hold any more: the hook of each  *)
(* edit marks all the images that the edit has changed the basis of.       *)
THEOREM ImagesAreCurrent == ChainSpec => []ReadyImagesAreCurrent
  <1>1. ChainInv => ReadyImagesAreCurrent
    BY QuietRests DEF ReadyImagesAreCurrent, IsCurrent
  <1> QED  BY <1>1, ChainInvariant, PTL

=============================================================================
