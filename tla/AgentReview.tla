----------------------------- MODULE AgentReview -----------------------------
(***************************************************************************)
(* What an agent run may do to a shot, and how a human decides on it:      *)
(* proposals (pending, decided, expired), the changes they make, the       *)
(* change sets that record them and the undo that compensates them.  Every *)
(* request runs in a thread with a session of its own; it reads rows,      *)
(* decides, and commits several times on the way, so each operation is a   *)
(* chain of steps: Reads, Applies, Records.  The user edits the same shot. *)
(***************************************************************************)
EXTENDS Integers, FiniteSets, Sequences

CONSTANTS Proposals,
          ToolChoices, \* which tool each proposal may be of
          Patch,       \* the changes of a proposal: Fields -> Values or NoValue
          UserPatches, \* the patches the user may apply
          Values, NoValue,
          Reviewers,   \* request threads of the agent API
          MaxRevision, MaxChangeSets, \* bounds
          Initials     \* values the fields of the shot may start with

VARIABLES tool,       \* update_shot, continuity_fix, delete_shot or generate_image
          shot,       \* revision, live, fields
          proposal,   \* status and base_revision of each proposal
          overdue,    \* proposals whose expires_at has passed
          run,        \* status of the parent run
          changeSets, \* the agent_change_sets table, oldest first
          generated,  \* generations created for each proposal
          warning,    \* status of the warning of the continuity checks that is followed
          call        \* what each thread is doing

reviewVars == <<tool, shot, proposal, overdue, run, changeSets, generated, warning,
                call>>

\* image_prompt is written through a prompt version, the other field by the
\* conditional UPDATE
Fields == {"action", "image_prompt"}
Pending == "pending"
Decided == {"applied", "rejected", "conflict", "expired"}
Tools == {"update_shot", "continuity_fix", "delete_shot", "generate_image"}
Edits == {p \in Proposals : tool[p] \in {"update_shot", "continuity_fix"}}
NoCall == [op |-> "none"]

ASSUME ReviewAssumption ==
  /\ ToolChoices \subseteq [Proposals -> Tools]
  /\ Patch \in [Proposals -> [Fields -> Values \cup {NoValue}]]
  /\ UserPatches \subseteq [Fields -> Values \cup {NoValue}]
  /\ Initials \subseteq Values \cup {NoValue}
  /\ NoValue \notin Values
  /\ Proposals \cap Nat = {}

ReviewInit ==
  /\ tool \in ToolChoices
  /\ \E v \in Initials : shot = [rev |-> 1, live |-> TRUE, fields |-> [f \in Fields |-> v]]
  /\ proposal = [p \in Proposals |-> [status |-> "none", base |-> 0]]
  /\ overdue = {}
  /\ run = "running"
  /\ changeSets = <<>>
  /\ generated = [p \in Proposals |-> 0]
  /\ warning = "none"
  /\ call = [t \in Reviewers |-> NoCall]

Begin(t, c) ==
  /\ call[t] = NoCall
  /\ call' = [call EXCEPT ![t] = c]

Done(t) == call' = [call EXCEPT ![t] = NoCall]

----------------------------------------------------------------------------
(* ShotService.update_shot: None means "leave alone".                      *)
Patched(fields, patch) ==
  [f \in Fields |-> IF patch[f] = NoValue THEN fields[f] ELSE patch[f]]

NoPatch == [f \in Fields |-> NoValue]

IsEmpty(patch) == patch = NoPatch

CanUpdateMutant(rev) == shot.live  \* mutant: no revision in the WHERE

(* The conditional UPDATE: the row is live and has the revision expected.  *)
CanUpdate(rev) == shot.live /\ shot.rev = rev

Updated(patch) ==
  [shot EXCEPT !.rev = @ + 1, !.fields = Patched(@, patch)]

(* What a refused update leaves in the session: the prompt version and the *)
(* prompt column were flushed before the conditional UPDATE.               *)
Leftover(patch) ==
  [shot EXCEPT !.fields["image_prompt"] =
     IF patch["image_prompt"] = NoValue THEN @ ELSE patch["image_prompt"]]

UserEdits ==
  /\ shot.live /\ shot.rev < MaxRevision
  /\ \E patch \in UserPatches : shot' = Updated(patch)
  /\ UNCHANGED <<proposal, overdue, run, changeSets, generated, warning, call>>

UserDeletesOrRestores ==
  /\ shot' = [shot EXCEPT !.live = ~@]
  /\ UNCHANGED <<proposal, overdue, run, changeSets, generated, warning, call>>

----------------------------------------------------------------------------
(* A resumed run meets what it has proposed before, and leaves it.         *)
IsNew(p) == proposal[p].status = "none"

(* create_fix_run wants a warning to fix, whatever its status is by now.   *)
CanFix == warning # "none"

(* A tool of the run records a proposal and parks the run.                 *)
Propose(p) ==
  /\ IsNew(p)
  /\ run \in {"running", "waiting_human"}
  /\ shot.live
  /\ proposal' = [proposal EXCEPT ![p] = [status |-> Pending, base |-> shot.rev]]
  /\ run' = "waiting_human"
  /\ UNCHANGED <<shot, overdue, changeSets, generated, warning, call>>

ProposeEdit(p) == tool[p] = "update_shot" /\ Propose(p)
ProposeFix(p) == tool[p] = "continuity_fix" /\ CanFix /\ Propose(p)
ProposeDeletion(p) == tool[p] = "delete_shot" /\ Propose(p)
ProposeGeneration(p) == tool[p] = "generate_image" /\ Propose(p)

TimePasses(p) ==
  /\ proposal[p].status = Pending
  /\ overdue' = overdue \cup {p}
  /\ UNCHANGED <<shot, proposal, run, changeSets, generated, warning, call>>

----------------------------------------------------------------------------
VerdictMutant(p) == IF ~shot.live THEN "conflict" ELSE "apply"  \* mutant: no base_revision

(* approve: the guards of _require_pending and of the base revision, read  *)
(* before anything is locked.                                              *)
Verdict(p) ==
  IF ~shot.live \/ shot.rev # proposal[p].base THEN "conflict" ELSE "apply"

ApproveReads(t, p) ==
  /\ proposal[p].status = Pending
  /\ Begin(t, IF p \in overdue \/ Verdict(p) = "conflict" \/ p \notin Edits
              THEN [op |-> IF p \in overdue THEN "expire" ELSE Verdict(p), p |-> p]
              ELSE [op |-> "apply", p |-> p, rev |-> shot.rev, before |-> shot.fields])
  /\ UNCHANGED <<shot, proposal, overdue, run, changeSets, generated, warning>>

SetStatus(p, status) == proposal' = [proposal EXCEPT ![p].status = status]

ApproveConflicts(t) ==
  /\ call[t].op = "conflict"
  /\ SetStatus(call[t].p, "conflict")
  /\ Done(t)
  /\ UNCHANGED <<shot, overdue, run, changeSets, generated, warning>>

ApproveEditsMutant(t) ==  \* mutant: a refused fix still marks the warning
  LET p == call[t].p IN
  /\ call[t].op = "apply" /\ p \in Edits
  /\ shot' = IF CanUpdate(call[t].rev) THEN Updated(Patch[p]) ELSE Leftover(Patch[p])
  /\ SetStatus(p, IF CanUpdate(call[t].rev) THEN "approved" ELSE "conflict")
  /\ call' = [call EXCEPT ![t].op = IF CanUpdate(call[t].rev) THEN "record" ELSE "mark fixed"]
  /\ UNCHANGED <<overdue, run, changeSets, generated, warning>>

(* The change and the status "approved" are committed together by the      *)
(* service that makes the change; the record follows in a commit of its own.*)
ApproveEdits(t) ==
  LET p == call[t].p IN
  /\ call[t].op = "apply" /\ p \in Edits
  /\ shot.rev < MaxRevision
  /\ IF CanUpdate(call[t].rev) \/ IsEmpty(Patch[p])
     THEN /\ shot' = IF IsEmpty(Patch[p]) THEN shot ELSE Updated(Patch[p])
          /\ SetStatus(p, "approved")
          /\ call' = [call EXCEPT ![t].op = "record"]
     ELSE /\ shot' = Leftover(Patch[p])
          /\ SetStatus(p, "conflict")
          /\ Done(t)
  /\ UNCHANGED <<overdue, run, changeSets, generated, warning>>

ApproveDeletes(t) ==
  LET p == call[t].p IN
  /\ call[t].op = "apply" /\ tool[p] = "delete_shot"
  /\ shot' = [shot EXCEPT !.live = FALSE]
  /\ SetStatus(p, "approved")
  /\ call' = [call EXCEPT ![t].op = "record"]
  /\ UNCHANGED <<overdue, run, changeSets, generated, warning>>

(* create_generation commits the row; a refusal of its own (a generation   *)
(* is in flight already) is a conflict.                                    *)
ApproveGenerates(t) ==
  LET p == call[t].p IN
  /\ call[t].op = "apply" /\ tool[p] = "generate_image"
  /\ \/ /\ generated' = [generated EXCEPT ![p] = @ + 1]
        /\ SetStatus(p, "approved")
        /\ call' = [call EXCEPT ![t].op = "record"]
     \/ /\ SetStatus(p, "conflict")
        /\ Done(t)
        /\ UNCHANGED generated
  /\ UNCHANGED <<shot, overdue, run, changeSets, warning>>

ChangeSet(p, t) ==
  LET after == IF p \in Edits THEN Patch[p] ELSE NoPatch
  IN [of |-> p, kind |-> IF p \in Edits THEN "patch" ELSE "lifecycle",
      before |-> [f \in Fields |-> IF after[f] = NoValue THEN NoValue ELSE call[t].before[f]],
      after |-> after, undone |-> FALSE]

ApproveRecords(t) ==
  LET p == call[t].p IN
  /\ call[t].op = "record"
  /\ Len(changeSets) < MaxChangeSets
  /\ SetStatus(p, "applied")
  /\ changeSets' = IF tool[p] = "generate_image" \/ (p \in Edits /\ IsEmpty(Patch[p]))
                   THEN changeSets
                   ELSE Append(changeSets, ChangeSet(p, t))
  /\ IF tool[p] = "continuity_fix"
     THEN call' = [call EXCEPT ![t] = [op |-> "mark fixed"]]
     ELSE Done(t)
  /\ UNCHANGED <<shot, overdue, run, generated, warning>>

MarksFixed(t) ==
  /\ call[t].op = "mark fixed"
  /\ warning' = "fixed"
  /\ Done(t)
  /\ UNCHANGED <<shot, proposal, overdue, run, changeSets, generated>>

RejectReads(t, p) ==
  /\ proposal[p].status = Pending
  /\ Begin(t, [op |-> IF p \in overdue THEN "expire" ELSE "reject", p |-> p])
  /\ UNCHANGED <<shot, proposal, overdue, run, changeSets, generated, warning>>

RejectCommits(t) ==
  /\ call[t].op = "reject"
  /\ SetStatus(call[t].p, "rejected")
  /\ Done(t)
  /\ UNCHANGED <<shot, overdue, run, changeSets, generated, warning>>

----------------------------------------------------------------------------
(* Warnings.  A check reads the shots of the scene, asks a model for an    *)
(* answer, and commits the warnings it found; one of them is followed.     *)
CheckReads(t) ==
  /\ warning = "none" /\ shot.live
  /\ Begin(t, [op |-> "check"])
  /\ UNCHANGED <<shot, proposal, overdue, run, changeSets, generated, warning>>

CheckCommits(t) ==
  /\ call[t].op = "check"
  /\ warning' = IF warning = "none" THEN "open" ELSE warning
  /\ Done(t)
  /\ UNCHANGED <<shot, proposal, overdue, run, changeSets, generated>>

(* Only a warning that is acknowledged already refuses to be acknowledged. *)
Acknowledges ==
  /\ warning \in {"open", "fixed"}
  /\ warning' = "acknowledged"
  /\ UNCHANGED <<shot, proposal, overdue, run, changeSets, generated, call>>

----------------------------------------------------------------------------
(* Expiry is lazy: a read of the run or of its proposals, or a decision,   *)
(* ends an overdue proposal, and then the run if nothing of it is pending. *)
SweepReads(t, p) ==
  /\ proposal[p].status = Pending /\ p \in overdue
  /\ Begin(t, [op |-> "expire", p |-> p])
  /\ UNCHANGED <<shot, proposal, overdue, run, changeSets, generated, warning>>

Expires(t) ==
  /\ call[t].op = "expire"
  /\ SetStatus(call[t].p, "expired")
  /\ call' = [call EXCEPT ![t] = [op |-> "look for pending"]]
  /\ UNCHANGED <<shot, overdue, run, changeSets, generated, warning>>

FailsRun(t) ==
  /\ call[t].op = "look for pending"
  /\ run' = IF run = "waiting_human" /\ \A p \in Proposals : proposal[p].status # Pending
            THEN "failed" ELSE run
  /\ Done(t)
  /\ UNCHANGED <<shot, proposal, overdue, changeSets, generated, warning>>

----------------------------------------------------------------------------
(* undo: the before-values as a new change, unless a later edit has        *)
(* overwritten what the change set wrote (force skips that check).         *)
Carries(after) == \A f \in Fields : after[f] # NoValue => shot.fields[f] = after[f]

UndoReadsMutant(t, i, force) ==  \* mutant: no check of what was written since
  LET c == changeSets[i] IN
  /\ ~c.undone /\ c.of \in Proposals
  /\ IF c.kind = "patch" THEN shot.live ELSE ~shot.live
  /\ Begin(t, [op |-> "undo", i |-> i, rev |-> shot.rev, force |-> force])
  /\ UNCHANGED <<shot, proposal, overdue, run, changeSets, generated, warning>>

UndoReads(t, i, force) ==
  LET c == changeSets[i] IN
  /\ ~c.undone /\ c.of \in Proposals
  /\ IF c.kind = "patch" THEN shot.live /\ (force \/ Carries(c.after)) ELSE ~shot.live
  /\ Begin(t, [op |-> "undo", i |-> i, rev |-> shot.rev, force |-> force])
  /\ UNCHANGED <<shot, proposal, overdue, run, changeSets, generated, warning>>

UndoApplies(t) ==
  LET c == changeSets[call[t].i] IN
  /\ call[t].op = "undo"
  /\ shot.rev <= MaxRevision
  /\ \/ /\ c.kind = "patch"
        /\ CanUpdate(call[t].rev) \/ IsEmpty(c.before)
        /\ shot' = IF IsEmpty(c.before) THEN shot ELSE Updated(c.before)
        /\ call' = [call EXCEPT ![t].op = "undone"]
     \/ /\ c.kind = "patch"
        /\ ~CanUpdate(call[t].rev) /\ ~IsEmpty(c.before)
        /\ Done(t)
        /\ UNCHANGED shot
     \/ /\ c.kind = "lifecycle"
        /\ shot' = [shot EXCEPT !.live = TRUE]
        /\ call' = [call EXCEPT ![t].op = "undone"]
     \/ /\ c.kind = "lifecycle"  \* the parent is gone, the number is taken
        /\ Done(t)
        /\ UNCHANGED shot
  /\ UNCHANGED <<proposal, overdue, run, changeSets, generated, warning>>

UndoRecords(t) ==
  LET i == call[t].i IN
  /\ call[t].op = "undone"
  /\ Len(changeSets) < MaxChangeSets
  /\ changeSets' = Append([changeSets EXCEPT ![i].undone = TRUE],
                          [of |-> i, kind |-> "undo", before |-> changeSets[i].after,
                           after |-> changeSets[i].before, undone |-> FALSE])
  /\ Done(t)
  /\ UNCHANGED <<shot, proposal, overdue, run, generated, warning>>

----------------------------------------------------------------------------
(* A request ends half-way: its process dies, or a statement of it raises. *)
RequestDies(t) ==
  /\ call[t] # NoCall
  /\ Done(t)
  /\ UNCHANGED <<shot, proposal, overdue, run, changeSets, generated, warning>>

ReviewStep ==
  \/ UserEdits \/ UserDeletesOrRestores \/ Acknowledges
  \/ \E p \in Proposals :
       \/ ProposeEdit(p) \/ ProposeFix(p) \/ ProposeDeletion(p) \/ ProposeGeneration(p)
       \/ TimePasses(p)
  \/ \E t \in Reviewers :
       \/ \E p \in Proposals : ApproveReads(t, p) \/ RejectReads(t, p) \/ SweepReads(t, p)
       \/ \E i \in DOMAIN changeSets, force \in BOOLEAN : UndoReads(t, i, force)
       \/ ApproveConflicts(t) \/ ApproveEdits(t) \/ ApproveDeletes(t)
       \/ ApproveGenerates(t) \/ ApproveRecords(t) \/ MarksFixed(t)
       \/ RejectCommits(t) \/ Expires(t) \/ FailsRun(t)
       \/ UndoApplies(t) \/ UndoRecords(t) \/ RequestDies(t)
       \/ CheckReads(t) \/ CheckCommits(t)

ReviewNext == ReviewStep /\ UNCHANGED tool

ReviewSpec == ReviewInit /\ [][ReviewNext]_reviewVars

----------------------------------------------------------------------------
(* Types of the variables.                                                 *)
ReviewTypeOK ==
  /\ shot \in [rev : 1 .. MaxRevision + 1, live : BOOLEAN, fields : [Fields -> {NoValue} \cup Values]]
  /\ proposal \in [Proposals -> [status : {"none", Pending, "approved"} \cup Decided,
                                 base : 0 .. MaxRevision + 1]]
  /\ overdue \subseteq Proposals
  /\ run \in {"running", "waiting_human", "failed"}
  /\ generated \in [Proposals -> Nat]

(* An edit an approval makes meets the very shot the reviewer saw: nothing *)
(* has bumped the revision between the proposal and the write, whoever     *)
(* else is approving, undoing or editing at the time.                      *)
AppliesToReviewedShot ==
  [][\A t \in Reviewers :
       call[t].op = "apply" /\ call'[t].op = "record" /\ call[t].p \in Edits
         /\ ~IsEmpty(Patch[call[t].p])
       => shot.live /\ shot.rev = proposal[call[t].p].base]_reviewVars

(* Two approvals of one edit, or an approval after a crash between the     *)
(* change and its record, never apply and record the edit a second time.   *)
EditAppliedOnce ==
  \A p \in Edits : Cardinality({i \in DOMAIN changeSets : changeSets[i].of = p}) <= 1

(* An undo that is not forced writes only over what its change set wrote:  *)
(* an edit made since, also between its check and its write, survives.     *)
(* Only the prompt a refused approval has left behind may be lost.         *)
IsLeftover(v) ==
  \E p \in Edits : proposal[p].status \notin {"none", Pending} /\ v = Patch[p]["image_prompt"]

CarriesUpToLeftovers(after) ==
  \A f \in Fields : after[f] = NoValue \/ shot.fields[f] = after[f]
                     \/ (f = "image_prompt" /\ IsLeftover(shot.fields[f]))

UndoOverwritesNothing ==
  [][\A t \in Reviewers :
       call[t].op = "undo" /\ call'[t].op = "undone" /\ ~call[t].force
         /\ shot'.fields # shot.fields
       => CarriesUpToLeftovers(changeSets[call[t].i].after)]_reviewVars

(* The warning is only marked fixed after a fix was really applied and     *)
(* recorded (or had nothing to change).                                    *)
FixedMeansApplied ==
  warning = "fixed" => \E p \in Proposals : tool[p] = "continuity_fix" /\
    (IsEmpty(Patch[p]) \/ \E i \in DOMAIN changeSets : changeSets[i].of = p)

=============================================================================
