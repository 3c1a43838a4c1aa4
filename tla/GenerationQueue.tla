--------------------------- MODULE GenerationQueue ---------------------------
(***************************************************************************)
(* The generation queue of the studio backend: the rows of the table       *)
(* `generations`, the worker loop that claims and executes them, the       *)
(* request threads that create and retry them, the cancel endpoints, and   *)
(* the death and restart of the one backend process.                       *)
(*                                                                         *)
(* The process runs worker_loop as a task of one asyncio event loop.  The  *)
(* cancel endpoints are `async def` and run on that same loop, so they are *)
(* interleaved with the worker only where the worker awaits: while it      *)
(* sleeps between polls ("poll") and while the provider works ("await").   *)
(* The create and retry endpoints are plain `def`: they run in threads and *)
(* interleave with everything at each statement they send to the database. *)
(*                                                                         *)
(* Rows are numbered in order of creation, so the worker's ORDER BY        *)
(* created_at is the order of the numbers.                                 *)
(***************************************************************************)
EXTENDS Integers, Sequences, FiniteSets

CONSTANTS
  NumGen,        \* bound: rows ever created are 1..NumGen
  GuardedSlots,  \* (shot, image|video): create_generation guards these
  NoSlot,        \* the target of a row not created yet
  OpenSlots,     \* episode exports and clip voiceovers: created unguarded
  Budgets,       \* the values max_attempts may take
  Clients,       \* request threads that create or retry generations
  MaxCrashes,    \* bound: deaths of the backend process
  MaxAborts      \* bound: exceptions that escape run_generation

ASSUME QueueAssumption ==
  /\ NumGen \in Nat
  /\ Budgets \subseteq Nat \ {0}
  /\ 1 \in Budgets
  /\ GuardedSlots \cap OpenSlots = {}
  /\ NoSlot \notin GuardedSlots \cup OpenSlots
  /\ MaxCrashes \in Nat
  /\ MaxAborts \in Nat

Gen   == 1..NumGen
Slots == GuardedSlots \cup OpenSlots
NoGen == 0

Claimable == {"queued", "retrying"}
Executing == {"running", "cancelling"}
InFlight  == Claimable \cup Executing
Terminal  == {"completed", "failed", "cancelled", "interrupted"}
Status    == {"absent"} \cup InFlight \cup Terminal

\* The transition table that validate_transition consults.
AllowedTransitions ==
       ({"queued"} \X {"running", "cancelled"})
  \cup ({"running"} \X {"completed", "failed", "cancelled", "retrying",
                        "queued", "interrupted", "cancelling"})
  \cup ({"retrying"} \X {"running", "cancelled", "failed"})
  \cup ({"cancelling"} \X {"cancelled", "failed"})

VARIABLES
  \* durable: columns of the table generations, one entry per row
  count,      \* rows created so far
  status,     \* generations.status
  target,     \* the version group the row's output belongs to
  budget,     \* generations.max_attempts
  attempts,   \* generations.attempts
  claimed,    \* the rows whose claim_token IS NOT NULL
  lease,      \* lease_expires_at, against the clock
  backoff,    \* the rows whose next_attempt_at lies ahead
  retryOf,    \* generations.retry_of
  \* durable: the assets produced
  versions,   \* version group -> the rows whose assets are V1, V2, ...
  active,     \* the active pointer of the shot (or the clip's asset)
  \* volatile: the backend process
  phase,      \* where the worker loop stands
  current,    \* the row it is executing
  hint,       \* the set _cancelled
  paused,     \* the flag _paused
  req,        \* the create/retry request each thread is serving
  \* bounds and history
  crashes, aborts,
  runs        \* history: how often each row was given to its provider

rows   == <<count, status, target, budget, attempts, claimed, lease, backoff, retryOf>>
assets == <<versions, active>>
loop   == <<phase, current, hint, paused>>
bounds == <<crashes, aborts>>
vars   == <<rows, assets, loop, req, bounds, runs>>

Request(pc, slot, orig, row) == [pc |-> pc, slot |-> slot, orig |-> orig, row |-> row]

Idle == Request("idle", NoSlot, NoGen, NoGen)

Requests ==
  [pc : {"idle", "read", "counted", "linking"},
   slot : GuardedSlots \cup {NoSlot},
   orig : Gen \cup {NoGen},
   row : Gen \cup {NoGen}]

-----------------------------------------------------------------------------

Init ==
  /\ count = 0
  /\ status = [g \in Gen |-> "absent"]
  /\ target = [g \in Gen |-> NoSlot]
  /\ budget = [g \in Gen |-> 1]
  /\ attempts = [g \in Gen |-> 0]
  /\ claimed = {}
  /\ lease = [g \in Gen |-> "none"]
  /\ backoff = {}
  /\ retryOf = [g \in Gen |-> NoGen]
  /\ versions = [s \in Slots |-> <<>>]
  /\ active = [s \in Slots |-> NoGen]
  /\ phase = "poll"
  /\ current = NoGen
  /\ hint = {}
  /\ paused = FALSE
  /\ req = [c \in Clients |-> Idle]
  /\ crashes = 0
  /\ aborts = 0
  /\ runs = [g \in Gen |-> 0]

Up == phase # "down"

\* The loop has yielded: another coroutine of the process may run.
Yielded == phase \in {"poll", "await"}

-----------------------------------------------------------------------------
(* Creating rows: request threads, one action per statement that reads or  *)
(* commits.                                                                *)

NewRow(s, b) ==
  LET g == count + 1 IN
  /\ count' = g
  /\ status' = [status EXCEPT ![g] = "queued"]
  /\ target' = [target EXCEPT ![g] = s]
  /\ budget' = [budget EXCEPT ![g] = b]
  /\ UNCHANGED <<attempts, claimed, lease, backoff, retryOf>>

\* create_generation is called for a slot: the in-flight count is next.
StartCreate(c, s) ==
  /\ Up
  /\ req[c] = Idle
  /\ req' = [req EXCEPT ![c] = Request("read", s, NoGen, NoGen)]
  /\ UNCHANGED <<rows, assets, loop, bounds, runs>>

\* retry_generation reads the original: 409 while it is queued, running or
\* retrying, and for a row that has no shot.
StartRetry(c, g) ==
  /\ Up
  /\ req[c] = Idle
  /\ g <= count
  /\ status[g] \notin {"queued", "running", "retrying"}
  /\ target[g] \in GuardedSlots
  /\ req' = [req EXCEPT ![c] = Request("read", target[g], g, NoGen)]
  /\ UNCHANGED <<rows, assets, loop, bounds, runs>>

\* A mutated form: a cancelling row does not count.
InFlightForMutant(s) == {g \in Gen : status[g] \in InFlight \ {"cancelling"} /\ target[g] = s}

InFlightFor(s) == {g \in Gen : status[g] \in InFlight /\ target[g] = s}

\* The idempotency guard: SELECT count(*) of in-flight rows, 409 if any.
CountInFlight(c) ==
  /\ Up
  /\ req[c].pc = "read"
  /\ req' = [req EXCEPT ![c] =
               IF InFlightFor(req[c].slot) = {}
               THEN Request("counted", req[c].slot, req[c].orig, NoGen) ELSE Idle]
  /\ UNCHANGED <<rows, assets, loop, bounds, runs>>

\* INSERT and commit.  A retry keeps the default budget and still has its
\* link to write.
InsertRow(c) ==
  /\ Up
  /\ req[c].pc = "counted"
  /\ count < NumGen
  /\ \E b \in Budgets : NewRow(req[c].slot, b)
  /\ req' = [req EXCEPT ![c] =
               IF req[c].orig = NoGen THEN Idle
               ELSE Request("linking", req[c].slot, req[c].orig, count + 1)]
  /\ UNCHANGED <<assets, loop, bounds, runs>>

\* The second commit of retry_generation.
LinkRetry(c) ==
  /\ Up
  /\ req[c].pc = "linking"
  /\ retryOf' = [retryOf EXCEPT ![req[c].row] = req[c].orig]
  /\ req' = [req EXCEPT ![c] = Idle]
  /\ UNCHANGED <<count, status, target, budget, attempts, claimed, lease, backoff,
                 assets, loop, bounds, runs>>

\* Renders and voiceovers are queued by services of their own, without an
\* in-flight guard and with a budget of one attempt.
EnqueueUnguarded(s) ==
  /\ Up
  /\ count < NumGen
  /\ NewRow(s, 1)
  /\ UNCHANGED <<assets, loop, req, bounds, runs>>

-----------------------------------------------------------------------------
(* The cancel endpoints and the queue switch.                              *)

\* POST /generations/{id}/cancel of a row that waits: final at once.  The
\* endpoint then calls cancel_running, which leaves a hint behind.
CancelWaiting(g) ==
  /\ Yielded
  /\ status[g] \in Claimable
  /\ status' = [status EXCEPT ![g] = "cancelled"]
  /\ hint' = hint \cup {g}
  /\ UNCHANGED <<count, target, budget, attempts, claimed, lease, backoff, retryOf,
                 assets, phase, current, paused, req, bounds, runs>>

\* A mutated form: the row ends while it is being executed.
CancelRunningMutant(g) ==
  /\ Yielded
  /\ status[g] = "running"
  /\ status' = [status EXCEPT ![g] = "cancelled"]
  /\ hint' = hint \cup {g}
  /\ UNCHANGED <<count, target, budget, attempts, claimed, lease, backoff, retryOf,
                 assets, phase, current, paused, req, bounds, runs>>

\* The same of a running row: a durable marker, then the hint.
CancelRunning(g) ==
  /\ Yielded
  /\ status[g] = "running"
  /\ status' = [status EXCEPT ![g] = "cancelling"]
  /\ hint' = hint \cup {g}
  /\ UNCHANGED <<count, target, budget, attempts, claimed, lease, backoff, retryOf,
                 assets, phase, current, paused, req, bounds, runs>>

\* cancel_running called for a row by the job cancel endpoint: the hint alone.
HintCancel(g) ==
  /\ Yielded
  /\ status[g] \in InFlight
  /\ g \notin hint
  /\ hint' = hint \cup {g}
  /\ UNCHANGED <<rows, assets, phase, current, paused, req, bounds, runs>>

SetPaused(b) ==
  /\ Up
  /\ paused # b
  /\ paused' = b
  /\ UNCHANGED <<rows, assets, phase, current, hint, req, bounds, runs>>

\* POST /media-versions/{asset_id}/activate: an existing version of a shot.
SetActive(s) ==
  /\ Up
  /\ \E i \in DOMAIN versions[s] : active' = [active EXCEPT ![s] = versions[s][i]]
  /\ UNCHANGED <<rows, versions, loop, req, bounds, runs>>

-----------------------------------------------------------------------------
(* One iteration of worker_loop.                                           *)

\* A mutated form: the recovery forgets running rows.
StaleMutant == {g \in Gen : status[g] = "cancelling" /\ lease[g] = "expired"}

Stale == {g \in Gen : status[g] \in Executing /\ lease[g] = "expired"}

\* A mutated form: the attempt in progress is not counted.
ExhaustedMutant(g) == attempts[g] >= budget[g]

\* The last attempt of the row was the one that was lost.
Exhausted(g) == attempts[g] + 1 >= budget[g]

\* A mutated form: cancelling rows are recovered like running ones.
RecoveredStatusMutantRequeues(g) == IF Exhausted(g) THEN "interrupted" ELSE "queued"

RecoveredStatus(g) ==
  IF status[g] = "cancelling" THEN "cancelled"
  ELSE IF Exhausted(g) THEN "interrupted" ELSE "queued"

\* recover_expired_leases: one commit for all the stale rows.
RecoverExpiredLeases ==
  /\ phase = "poll"
  /\ status' = [g \in Gen |-> IF g \in Stale THEN RecoveredStatus(g) ELSE status[g]]
  /\ attempts' = [g \in Gen |-> IF g \in Stale /\ status[g] = "running"
                                THEN attempts[g] + 1 ELSE attempts[g]]
  /\ claimed' = claimed \ {g \in Stale : RecoveredStatus(g) = "queued"}
  /\ hint' = hint \ {g \in Stale : status[g] = "cancelling"}
  /\ phase' = "schedule"
  /\ UNCHANGED <<count, target, budget, lease, backoff, retryOf, assets,
                 current, paused, req, bounds, runs>>

\* The rows the poll query returns, before ORDER BY created_at LIMIT 1.
Pending == {g \in Gen : status[g] \in Claimable /\ g \notin backoff}

\* The WHERE clause of the atomic claim.
ClaimMatches(g) ==
  /\ status[g] \in Claimable
  /\ g \notin backoff
  /\ g \notin claimed \/ lease[g] \in {"none", "expired"}

\* ORDER BY created_at LIMIT 1
IsHead(g) == g \in Pending /\ \A h \in Pending : g <= h

\* The iteration ends without a row: the queue is paused or empty, or the
\* claim of the head of the queue matched no row.
ScheduleNothing ==
  /\ phase = "schedule"
  /\ ~paused => \A g \in Gen : IsHead(g) => ~ClaimMatches(g)
  /\ phase' = "poll"
  /\ UNCHANGED <<rows, assets, current, hint, paused, req, bounds, runs>>

\* The SET clause of the atomic claim.
TakeClaim(g) ==
  /\ status' = [status EXCEPT ![g] = "running"]
  /\ claimed' = claimed \cup {g}
  /\ lease' = [lease EXCEPT ![g] = "live"]

\* claim_generation succeeds, the row is given to its provider.
ScheduleClaim ==
  /\ phase = "schedule"
  /\ ~paused
  /\ \E g \in Gen :
       /\ IsHead(g)
       /\ ClaimMatches(g)
       /\ TakeClaim(g)
       /\ current' = g
       /\ runs' = [runs EXCEPT ![g] = @ + 1]
  /\ phase' = "await"
  /\ UNCHANGED <<count, target, budget, attempts, backoff, retryOf, assets,
                 hint, paused, req, bounds>>

\* A progress callback while the provider works: the lease is extended.
PersistProgress ==
  /\ phase = "await"
  /\ lease' = [lease EXCEPT ![current] = "live"]
  /\ UNCHANGED <<count, status, target, budget, attempts, claimed, backoff, retryOf,
                 assets, loop, req, bounds, runs>>

-----------------------------------------------------------------------------
(* The ends of run_generation.  From the provider's answer to the commit   *)
(* there is no await: each end is one step.                                *)

EndRun == phase' = "poll" /\ current' = NoGen

Hinted(g) == status[g] = "cancelling" \/ g \in hint

\* The verdicts of classify_failure.
RetryOutcome == {"retryable", "non_retryable"}

WaitForRetry(g) ==
  /\ status' = [status EXCEPT ![g] = "retrying"]
  /\ claimed' = claimed \ {g}
  /\ backoff' = backoff \cup {g}

\* _handle_failure: a cancel in flight is left alone, a transient failure is
\* retried within the budget, anything else fails the row.
HandleFailure(g, outcome) ==
  /\ UNCHANGED <<count, target, budget, lease, retryOf, hint, assets>>
  /\ IF Hinted(g)
     THEN UNCHANGED <<status, attempts, claimed, backoff>>
     ELSE IF outcome = "non_retryable"
     THEN /\ status' = [status EXCEPT ![g] = "failed"]
          /\ UNCHANGED <<attempts, claimed, backoff>>
     ELSE /\ attempts' = [attempts EXCEPT ![g] = @ + 1]
          /\ IF Exhausted(g)
             THEN /\ status' = [status EXCEPT ![g] = "failed"]
                  /\ UNCHANGED <<claimed, backoff>>
             ELSE WaitForRetry(g)

\* _handle_cancelled: conclude the cancel and forget the hint.
HandleCancelled(g) ==
  /\ status' = [status EXCEPT ![g] = "cancelled"]
  /\ hint' = hint \ {g}
  /\ UNCHANGED <<count, target, budget, attempts, claimed, lease, backoff, retryOf, assets>>

\* A mutated form: the output is committed before the status.
CompleteMutantEarly(g) ==
  /\ status[g] = "running"
  /\ UNCHANGED status
  /\ versions' = [versions EXCEPT ![target[g]] = Append(@, g)]
  /\ active' = [active EXCEPT ![target[g]] = g]
  /\ UNCHANGED <<count, target, budget, attempts, claimed, lease, backoff, retryOf, hint>>

\* The compare-and-swap of _cas_finalize, and the asset, version, pointer and
\* output rows that commit with it.
Complete(g) ==
  /\ status[g] = "running"
  /\ status' = [status EXCEPT ![g] = "completed"]
  /\ versions' = [versions EXCEPT ![target[g]] = Append(@, g)]
  /\ active' = [active EXCEPT ![target[g]] = g]
  /\ UNCHANGED <<count, target, budget, attempts, claimed, lease, backoff, retryOf, hint>>

\* provider.generate raises; classify_failure decides what is transient.
ProviderRaises ==
  /\ phase = "await"
  /\ \E outcome \in RetryOutcome : HandleFailure(current, outcome)
  /\ EndRun
  /\ UNCHANGED <<paused, req, bounds, runs>>

\* The provider answers for a row whose cancel was requested meanwhile.
ProviderAnswersCancelled ==
  /\ phase = "await"
  /\ Hinted(current)
  /\ HandleCancelled(current)
  /\ EndRun
  /\ UNCHANGED <<paused, req, bounds, runs>>

\* The provider reports failure, or success without an output file.
ProviderReturnsNothing ==
  /\ phase = "await"
  /\ ~Hinted(current)
  /\ HandleFailure(current, "non_retryable")
  /\ EndRun
  /\ UNCHANGED <<paused, req, bounds, runs>>

\* The output is registered in one transaction.
PersistOutput ==
  /\ phase = "await"
  /\ ~Hinted(current)
  /\ Complete(current)
  /\ EndRun
  /\ UNCHANGED <<paused, req, bounds, runs>>

\* The completion chain raises (disk, database, metadata): everything is rolled
\* back and the failure is classified like any other.
PersistOutputRaises ==
  /\ phase = "await"
  /\ ~Hinted(current)
  /\ \E outcome \in RetryOutcome : HandleFailure(current, outcome)
  /\ EndRun
  /\ UNCHANGED <<paused, req, bounds, runs>>

\* An exception escapes run_generation (the provider id no longer resolves, a
\* commit fails): the loop logs it and polls on, the row keeps its status.
RunAborts ==
  /\ phase = "await"
  /\ aborts < MaxAborts
  /\ aborts' = aborts + 1
  /\ EndRun
  /\ UNCHANGED <<rows, assets, hint, paused, req, crashes, runs>>

-----------------------------------------------------------------------------
(* Time, and the death of the process.                                     *)

LeaseExpires(g) ==
  /\ lease[g] = "live"
  /\ status[g] \in InFlight
  /\ lease' = [lease EXCEPT ![g] = "expired"]
  /\ UNCHANGED <<count, status, target, budget, attempts, claimed, backoff, retryOf,
                 assets, loop, req, bounds, runs>>

BackoffElapses(g) ==
  /\ g \in backoff
  /\ backoff' = backoff \ {g}
  /\ UNCHANGED <<count, status, target, budget, attempts, claimed, lease, retryOf,
                 assets, loop, req, bounds, runs>>

Crash ==
  /\ Up
  /\ crashes < MaxCrashes
  /\ crashes' = crashes + 1
  /\ phase' = "down"
  /\ current' = NoGen
  /\ hint' = {}
  /\ paused' = FALSE
  /\ req' = [c \in Clients |-> Idle]
  /\ UNCHANGED <<rows, assets, aborts, runs>>

\* The lifespan handler starts the worker task again.
Restart ==
  /\ phase = "down"
  /\ phase' = "poll"
  /\ UNCHANGED <<rows, assets, current, hint, paused, req, bounds, runs>>

-----------------------------------------------------------------------------

Requesting ==
  \/ \E c \in Clients :
       \/ \E s \in GuardedSlots : StartCreate(c, s)
       \/ \E g \in Gen : StartRetry(c, g)
       \/ CountInFlight(c)
       \/ InsertRow(c)
       \/ LinkRetry(c)
  \/ \E s \in OpenSlots : EnqueueUnguarded(s)

Controlling ==
  \/ \E g \in Gen : CancelWaiting(g) \/ CancelRunning(g) \/ HintCancel(g)
  \/ \E b \in BOOLEAN : SetPaused(b)
  \/ \E s \in GuardedSlots : SetActive(s)

\* run_generation comes back, in whatever way.
RunEnds ==
  \/ ProviderRaises
  \/ ProviderAnswersCancelled
  \/ ProviderReturnsNothing
  \/ PersistOutput
  \/ PersistOutputRaises

Working ==
  \/ RecoverExpiredLeases
  \/ ScheduleNothing
  \/ ScheduleClaim
  \/ PersistProgress
  \/ RunEnds
  \/ RunAborts

Environment ==
  \/ \E g \in Gen : LeaseExpires(g) \/ BackoffElapses(g)
  \/ Crash
  \/ Restart

Next == Requesting \/ Controlling \/ Working \/ Environment

Spec == Init /\ [][Next]_vars

(***************************************************************************)
(* Fairness.  The event loop keeps running the worker task, whose phases   *)
(* follow each other: a provider call comes back (every adapter has a      *)
(* timeout or a polling deadline), and a dead backend is started again.    *)
(* The clock passes lease and back-off times.  Nothing is assumed of       *)
(* users, of requests, or of crashes beyond their bound.                   *)
(***************************************************************************)
WorkerGoesOn == RecoverExpiredLeases \/ ScheduleNothing \/ ScheduleClaim \/ RunEnds \/ Restart
TimePasses   == \E g \in Gen : LeaseExpires(g) \/ BackoffElapses(g)

Fairness == WF_vars(WorkerGoesOn) /\ WF_vars(TimePasses)

FairSpec == Spec /\ Fairness

-----------------------------------------------------------------------------
(* Properties *)

TypeOK ==
  /\ count \in 0..NumGen
  /\ status \in [Gen -> Status]
  /\ target \in [Gen -> Slots \cup {NoSlot}]
  /\ budget \in [Gen -> Budgets]
  /\ attempts \in [Gen -> Nat]
  /\ claimed \subseteq Gen
  /\ lease \in [Gen -> {"none", "live", "expired"}]
  /\ backoff \subseteq Gen
  /\ retryOf \in [Gen -> Gen \cup {NoGen}]
  /\ versions \in [Slots -> Seq(Gen)]
  /\ active \in [Slots -> Gen \cup {NoGen}]
  /\ phase \in {"poll", "schedule", "await", "down"}
  /\ current \in Gen \cup {NoGen}
  /\ hint \subseteq Gen
  /\ paused \in BOOLEAN
  /\ req \in [Clients -> Requests]
  /\ crashes \in 0..MaxCrashes
  /\ aborts \in 0..MaxAborts
  /\ runs \in [Gen -> Nat]

\* The shape of the table: rows 1..count exist, each has its group and, while
\* it waits, no claim token.
TableShape ==
  \A g \in Gen :
    /\ g <= count <=> status[g] # "absent"
    /\ g <= count => target[g] \in Slots
    /\ g > count => retryOf[g] = NoGen
    /\ status[g] \in Claimable \cup {"absent"} => g \notin claimed

\* Attempts and provider calls of a row go up together: a row in flight has
\* attempts left, and the calls beyond its attempts are the one in progress.
AttemptsCoverRuns ==
  \A g \in Gen :
    /\ status[g] = "absent" => attempts[g] = 0 /\ runs[g] = 0
    /\ status[g] \in InFlight => attempts[g] < budget[g]
    /\ status[g] \in Claimable => runs[g] <= attempts[g]
    /\ status[g] \in Executing => runs[g] <= attempts[g] + 1
    /\ status[g] \in Terminal => runs[g] <= budget[g]

\* A retry request that has counted the rows in flight holds an original that
\* has finished: had it been cancelling, the count would have found it.
RequestSound(r) ==
  /\ r.pc # "idle" => r.slot \in GuardedSlots
  /\ r.pc # "idle" /\ r.orig # NoGen =>
       /\ r.orig <= count
       /\ target[r.orig] = r.slot
       /\ status[r.orig] \in Terminal \cup {"cancelling"}
       /\ r.pc # "read" => status[r.orig] \in Terminal
  /\ r.pc = "linking" =>
       /\ r.orig # NoGen
       /\ r.row \in Gen
       /\ r.orig < r.row
       /\ r.row <= count
       /\ target[r.row] = r.slot

RequestsSound == \A c \in Clients : RequestSound(req[c])

\* SAFETY.  The version groups hold exactly the outputs of the completed rows:
\* each completed row contributed one version, to its own group, once, whatever
\* crashes, retries, lease recoveries and cancels happened on the way.
\* (_persist_output: "Asset registration + version assignment + shot active
\* pointer + generation completion commit together".)
OneVersionPerCompletion ==
  /\ \A s \in Slots : \A i, j \in DOMAIN versions[s] :
       /\ status[versions[s][i]] = "completed"
       /\ target[versions[s][i]] = s
       /\ versions[s][i] = versions[s][j] => i = j
  /\ \A g \in Gen : status[g] = "completed" =>
       \E i \in DOMAIN versions[target[g]] : versions[target[g]][i] = g

\* SAFETY.  The active pointer of a group never names an output that is not
\* there: it is unset, or it is one of the group's versions.
ActiveIsAVersion ==
  \A s \in Slots : active[s] = NoGen
                   \/ \E i \in DOMAIN versions[s] : versions[s][i] = active[s]

\* SAFETY.  Every row that is being executed is either the one the worker loop
\* holds or is visible to recover_expired_leases, which only looks at rows with
\* a lease: no crash, swallowed failure or escaped exception puts a row out of
\* the reach of both.
NoRowOutOfReach ==
  \A g \in Gen : status[g] \in Executing => lease[g] # "none" /\ g \in claimed

\* SAFETY.  The row the worker loop is executing cannot have been taken from it:
\* it is still running, or marked for cancellation.
WorkerHoldsItsRow ==
  /\ phase = "await" => current \in Gen /\ status[current] \in Executing
  /\ phase # "await" => current = NoGen

\* SAFETY.  The poll query takes the oldest due row and does not look at claim
\* tokens, the claim does: a waiting row that kept a token would sit at the head
\* of the queue, unclaimable, and block every row behind it.
HeadOfQueueIsClaimable ==
  \A g \in Pending : ClaimMatches(g)

\* SAFETY.  max_attempts bounds what a row may cost: it is never given to its
\* provider more often, through failures, swallowed failures and crashes.
RunsWithinBudget ==
  \A g \in Gen : runs[g] <= budget[g]

\* SAFETY.  retry_of always leads to an older row of the same group that has
\* finished, although the original is read, the in-flight rows are counted and
\* the link is written in separate statements.
RetriesFollowFinishedRows ==
  \A g \in Gen : retryOf[g] # NoGen =>
    /\ retryOf[g] < g
    /\ status[retryOf[g]] \in Terminal
    /\ target[retryOf[g]] = target[g]

\* The inductive invariant: what every reachable state satisfies and every step
\* preserves.
IInv ==
  /\ TypeOK
  /\ TableShape
  /\ AttemptsCoverRuns
  /\ NoRowOutOfReach
  /\ WorkerHoldsItsRow
  /\ OneVersionPerCompletion
  /\ ActiveIsAVersion
  /\ RequestsSound
  /\ RetriesFollowFinishedRows

\* ACTION.  Every status the worker, the recovery and the endpoints write is one
\* the transition table allows, so that no validate_transition on the worker's
\* path can raise; a new row starts queued.
TransitionsFollowTable ==
  [][\A g \in Gen : status'[g] # status[g] =>
       \/ <<status[g], status'[g]>> \in AllowedTransitions
       \/ status[g] = "absent" /\ status'[g] = "queued"]_vars

\* ACTION.  A durable cancel is final: a cancelling row becomes nothing but
\* cancelled, and its output reaches neither the version group nor the active
\* pointer, also when the process dies and the hint is lost.
CancelIsFinal ==
  [][\A g \in Gen : status[g] = "cancelling" =>
       /\ status'[g] \in {"cancelling", "cancelled"}
       /\ \A s \in Slots : active'[s] = g => active[s] = g]_vars

\* ACTION.  Versions are immutable history: a group only grows, at its end, by
\* one version at a time.
VersionsAreAppendOnly ==
  [][\A s \in Slots :
       \/ versions'[s] = versions[s]
       \/ \E g \in Gen : versions'[s] = Append(versions[s], g)]_vars

\* LIVENESS.  Every row that is queued or executed reaches a final status, or
\* the user has paused the queue; but a requested cancel is concluded, paused
\* or not, whether the provider answers, fails, or dies with the process.
EveryRowFinishes ==
  \A g \in Gen : (status[g] \in InFlight) ~>
                   (status[g] \in Terminal \/ (paused /\ status[g] # "cancelling"))

\* The contract of a row, and how the columns of the table express it.
StageOf(st) ==
  CASE st = "absent"                                -> "none"
    [] st \in {"queued", "running", "retrying"}     -> "open"
    [] st = "cancelling"                            -> "stopping"
    [] st = "completed"                             -> "done"
    [] st \in {"failed", "interrupted"}             -> "failed"
    [] OTHER                                        -> "cancelled"

Delivered == {g \in Gen : \E s \in Slots : \E i \in DOMAIN versions[s] : versions[s][i] = g}

Contract == INSTANCE GenerationLifecycle
              WITH stage <- [g \in Gen |-> StageOf(status[g])], delivered <- Delivered

\* REFINEMENT.  Queue, worker, recovery and endpoints together implement the
\* contract: a row delivers at most once and only while it is open, a stop
\* request on a running row can only end in cancelled.
HonoursContract == Contract!Spec

=============================================================================
