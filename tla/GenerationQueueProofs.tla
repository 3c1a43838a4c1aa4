------------------------ MODULE GenerationQueueProofs ------------------------
(***************************************************************************)
(* Proofs about GenerationQueue, for any number of rows, groups, request   *)
(* threads, crashes and aborts, and any budgets.                           *)
(***************************************************************************)
EXTENDS GenerationQueue, TLAPS

USE QueueAssumption DEF Gen, NoGen, Slots, Claimable, Executing, InFlight, Terminal, Status

\* What a failure may do to a row: nothing (a cancel is in flight), fail it, or
\* put it back to wait without its claim, one attempt poorer.
LEMMA FailureCases ==
  ASSUME TypeOK, NEW g \in Gen, NEW outcome \in RetryOutcome, HandleFailure(g, outcome)
  PROVE  /\ UNCHANGED <<count, target, budget, lease, retryOf, hint, versions, active>>
         /\ \/ Hinted(g) /\ UNCHANGED <<status, attempts, claimed, backoff>>
            \/ /\ ~Hinted(g)
               /\ status' = [status EXCEPT ![g] = "failed"]
               /\ attempts' = attempts \/ attempts' = [attempts EXCEPT ![g] = @ + 1]
               /\ UNCHANGED <<claimed, backoff>>
            \/ /\ ~Hinted(g)
               /\ ~Exhausted(g)
               /\ status' = [status EXCEPT ![g] = "retrying"]
               /\ attempts' = [attempts EXCEPT ![g] = @ + 1]
               /\ claimed' = claimed \ {g}
               /\ backoff' = backoff \cup {g}
  BY Zenon DEF HandleFailure, WaitForRetry, assets

\* A failed run keeps the types of what it writes.
LEMMA FailureTypes ==
  ASSUME TypeOK, NEW g \in Gen, NEW outcome \in RetryOutcome, HandleFailure(g, outcome)
  PROVE  /\ UNCHANGED <<count, target, budget, lease, retryOf, hint, versions, active>>
         /\ status' \in [Gen -> Status]
         /\ attempts' \in [Gen -> Nat]
         /\ claimed' \subseteq Gen
         /\ backoff' \subseteq Gen
  <1>1. UNCHANGED <<count, target, budget, lease, retryOf, hint, versions, active>>
    BY FailureCases
  <1>2. status' \in [Gen -> Status]
    <2>1. status' = status \/ status' = [status EXCEPT ![g] = "failed"]
          \/ status' = [status EXCEPT ![g] = "retrying"]
      BY FailureCases, Zenon
    <2> QED  BY <2>1 DEF TypeOK
  <1>3. attempts' \in [Gen -> Nat]
    <2>1. attempts' = attempts \/ attempts' = [attempts EXCEPT ![g] = @ + 1]
      BY FailureCases, Zenon
    <2>2. attempts \in [Gen -> Nat]
      BY DEF TypeOK
    <2> QED  BY ONLY <2>1, <2>2, g \in Gen
  <1>4. claimed' \subseteq Gen
    <2>1. claimed' = claimed \/ claimed' = claimed \ {g}
      BY FailureCases, Zenon
    <2>2. claimed \subseteq Gen
      BY DEF TypeOK
    <2> QED  BY ONLY <2>1, <2>2
  <1>5. backoff' \subseteq Gen
    <2>1. backoff' = backoff \/ backoff' = backoff \cup {g}
      BY FailureCases, Zenon
    <2>2. backoff \subseteq Gen
      BY DEF TypeOK
    <2> QED  BY <2>1, <2>2, Zenon
  <1> QED  BY <1>1, <1>2, <1>3, <1>4, <1>5

\* Every step keeps the types of the variables.
LEMMA TypeStep == ASSUME IInv, [Next]_vars PROVE TypeOK'
<1> USE DEF IInv, TypeOK, WorkerHoldsItsRow
<1>1. CASE UNCHANGED vars
  BY <1>1 DEF vars, rows, assets, loop, bounds
<1>2. ASSUME NEW c \in Clients, NEW s \in GuardedSlots, StartCreate(c, s) PROVE TypeOK'
  BY <1>2 DEF StartCreate, Idle, Request, Requests, rows, assets, loop, bounds
<1>3. ASSUME NEW c \in Clients, NEW g \in Gen, StartRetry(c, g) PROVE TypeOK'
  BY <1>3 DEF StartRetry, Idle, Request, Requests, rows, assets, loop, bounds
<1>4. ASSUME NEW c \in Clients, CountInFlight(c) PROVE TypeOK'
  BY <1>4 DEF CountInFlight, Idle, Request, Requests, rows, assets, loop, bounds
<1>5. ASSUME NEW c \in Clients, InsertRow(c) PROVE TypeOK'
  <2>1. PICK b \in Budgets : NewRow(req[c].slot, b)
    BY <1>5 DEF InsertRow
  <2>2. count + 1 \in Gen /\ req[c].slot \in GuardedSlots
    BY <1>5 DEF InsertRow, RequestsSound, RequestSound
  <2>3. req' \in [Clients -> Requests]
    BY <1>5, <2>2 DEF InsertRow, Idle, Request, Requests
  <2> QED
    BY <1>5, <2>1, <2>2, <2>3, SMTT(40) DEF InsertRow, NewRow, assets, loop, bounds
<1>6. ASSUME NEW c \in Clients, LinkRetry(c) PROVE TypeOK'
  BY <1>6 DEF LinkRetry, Idle, Request, Requests, assets, loop, bounds
<1>7. ASSUME NEW s \in OpenSlots, EnqueueUnguarded(s) PROVE TypeOK'
  <2>1. count + 1 \in Gen
    BY <1>7 DEF EnqueueUnguarded
  <2> QED
    BY <1>7, <2>1, SMTT(40) DEF EnqueueUnguarded, NewRow, assets, loop, bounds
<1>8. ASSUME NEW g \in Gen, CancelWaiting(g) \/ CancelRunning(g) \/ HintCancel(g) PROVE TypeOK'
  BY <1>8 DEF CancelWaiting, CancelRunning, HintCancel, rows, assets, bounds
<1>9. ASSUME NEW b \in BOOLEAN, SetPaused(b) PROVE TypeOK'
  BY <1>9 DEF SetPaused, rows, assets, bounds
<1>10. ASSUME NEW s \in GuardedSlots, SetActive(s) PROVE TypeOK'
  <2>1. PICK i \in DOMAIN versions[s] : active' = [active EXCEPT ![s] = versions[s][i]]
    BY <1>10 DEF SetActive
  <2>2. versions[s][i] \in Gen
    BY <2>1
  <2> QED
    BY <1>10, <2>1, <2>2 DEF SetActive, rows, loop, bounds
<1>11. CASE RecoverExpiredLeases
  <2>1. \A g \in Gen : RecoveredStatus(g) \in Status
    BY DEF RecoveredStatus
  <2>2. status' \in [Gen -> Status]
    BY <1>11, <2>1 DEF RecoverExpiredLeases
  <2>3. attempts' \in [Gen -> Nat]
    BY <1>11 DEF RecoverExpiredLeases
  <2> QED
    BY <1>11, <2>2, <2>3 DEF RecoverExpiredLeases, assets, bounds
<1>12. CASE ScheduleNothing
  BY <1>12 DEF ScheduleNothing, rows, assets, bounds
<1>13. CASE ScheduleClaim
  BY <1>13 DEF ScheduleClaim, TakeClaim, assets, bounds
<1>14. CASE PersistProgress
  BY <1>14 DEF PersistProgress, assets, loop, bounds
<1>15. CASE ProviderRaises
  <2>1. PICK outcome \in RetryOutcome : HandleFailure(current, outcome)
    BY <1>15 DEF ProviderRaises
  <2>2. current \in Gen
    BY <1>15 DEF ProviderRaises
  <2>3. UNCHANGED <<req, crashes, aborts, runs, paused>> /\ EndRun
    BY <1>15 DEF ProviderRaises, bounds
  <2> QED
    BY <2>1, <2>2, <2>3, FailureTypes DEF EndRun
<1>16. CASE ProviderAnswersCancelled
  BY <1>16 DEF ProviderAnswersCancelled, HandleCancelled, EndRun, assets, bounds
<1>17. CASE ProviderReturnsNothing
  <2>1. HandleFailure(current, "non_retryable") /\ "non_retryable" \in RetryOutcome
    BY <1>17 DEF ProviderReturnsNothing, RetryOutcome
  <2>2. current \in Gen
    BY <1>17 DEF ProviderReturnsNothing
  <2>3. UNCHANGED <<req, crashes, aborts, runs, paused>> /\ EndRun
    BY <1>17 DEF ProviderReturnsNothing, bounds
  <2> QED
    BY <2>1, <2>2, <2>3, FailureTypes DEF EndRun
<1>18. CASE PersistOutput
  BY <1>18 DEF PersistOutput, Complete, EndRun, bounds, TableShape
<1>19. CASE PersistOutputRaises
  <2>1. PICK outcome \in RetryOutcome : HandleFailure(current, outcome)
    BY <1>19 DEF PersistOutputRaises
  <2>2. current \in Gen
    BY <1>19 DEF PersistOutputRaises
  <2>3. UNCHANGED <<req, crashes, aborts, runs, paused>> /\ EndRun
    BY <1>19 DEF PersistOutputRaises, bounds
  <2> QED
    BY <2>1, <2>2, <2>3, FailureTypes DEF EndRun
<1>20. CASE RunAborts
  BY <1>20 DEF RunAborts, EndRun, rows, assets
<1>21. ASSUME NEW g \in Gen, LeaseExpires(g) \/ BackoffElapses(g) PROVE TypeOK'
  BY <1>21 DEF LeaseExpires, BackoffElapses, assets, loop, bounds
<1>22. CASE Crash
  <2>1. req' \in [Clients -> Requests]
    BY <1>22 DEF Crash, Idle, Request, Requests
  <2> QED
    <3>1. paused' \in BOOLEAN
      BY <1>22, Zenon DEF Crash
    <3>2. /\ UNCHANGED <<rows, assets, aborts, runs>> /\ phase' = "down" /\ current' = NoGen
          /\ hint' = {} /\ crashes' \in 0..MaxCrashes
      BY <1>22 DEF Crash
    <3> QED
      BY <2>1, <3>1, <3>2 DEF rows, assets
<1>23. CASE Restart
  BY <1>23 DEF Restart, rows, assets, bounds
<1> QED
  BY <1>1, <1>2, <1>3, <1>4, <1>5, <1>6, <1>7, <1>8, <1>9, <1>10, <1>11, <1>12, <1>13,
     <1>14, <1>15, <1>16, <1>17, <1>18, <1>19, <1>20, <1>21, <1>22, <1>23
  DEF Next, Requesting, Controlling, Working, RunEnds, Environment

-----------------------------------------------------------------------------
(* What one step may do to one row.                                         *)

SameRow(g) ==
  /\ status'[g] = status[g]
  /\ attempts'[g] = attempts[g]
  /\ runs'[g] = runs[g]
  /\ g \in claimed' <=> g \in claimed

CreatedRow(g) ==
  /\ g = count + 1
  /\ status'[g] = "queued"
  /\ target'[g] \in Slots
  /\ attempts'[g] = attempts[g]
  /\ runs'[g] = runs[g]
  /\ g \in claimed' <=> g \in claimed

ClosedRow(g) ==
  /\ runs'[g] = runs[g]
  /\ \/ status[g] \in InFlight /\ status'[g] = "cancelled"
     \/ status[g] = "running" /\ status'[g] \in {"failed", "completed", "interrupted"}

MarkedRow(g) ==
  /\ status[g] = "running" /\ status'[g] = "cancelling"
  /\ attempts'[g] = attempts[g]
  /\ runs'[g] = runs[g]
  /\ g \in claimed' <=> g \in claimed

RequeuedRow(g) ==
  /\ status[g] = "running" /\ status'[g] \in {"queued", "retrying"}
  /\ attempts'[g] = attempts[g] + 1
  /\ attempts[g] + 1 < budget[g]
  /\ runs'[g] = runs[g]
  /\ g \notin claimed'

ClaimedRow(g) ==
  /\ status[g] \in Claimable /\ status'[g] = "running"
  /\ attempts'[g] = attempts[g]
  /\ runs'[g] = runs[g] + 1
  /\ g \in claimed'
  /\ lease'[g] # "none"

RowStep(g) ==
  /\ lease[g] # "none" => lease'[g] # "none"
  /\ \/ CreatedRow(g) /\ count' = g
     \/ /\ target'[g] = target[g] /\ budget'[g] = budget[g]
        /\ \/ SameRow(g)
           \/ ClosedRow(g)
           \/ MarkedRow(g)
           \/ RequeuedRow(g)
           \/ ClaimedRow(g)

\* A failed run as a step of the row.
LEMMA FailureRow ==
  ASSUME IInv, phase = "await", NEW outcome \in RetryOutcome, HandleFailure(current, outcome),
         runs' = runs, NEW g \in Gen
  PROVE  RowStep(g)
<1>1. /\ current \in Gen /\ status[current] \in Executing
      /\ status \in [Gen -> Status] /\ attempts \in [Gen -> Nat]
      /\ budget \in [Gen -> Nat] /\ claimed \subseteq Gen
  BY DEF IInv, TypeOK, WorkerHoldsItsRow
<1>2. UNCHANGED <<target, budget, lease>>
  BY <1>1, FailureCases DEF IInv
<1>3. CASE Hinted(current) /\ UNCHANGED <<status, attempts, claimed, backoff>>
  BY <1>2, <1>3 DEF RowStep, SameRow
<1>4. CASE /\ ~Hinted(current)
           /\ status' = [status EXCEPT ![current] = "failed"]
           /\ attempts' = attempts \/ attempts' = [attempts EXCEPT ![current] = @ + 1]
           /\ UNCHANGED <<claimed, backoff>>
  BY <1>1, <1>2, <1>4 DEF RowStep, SameRow, ClosedRow, Hinted
<1>5. CASE /\ ~Hinted(current)
           /\ ~Exhausted(current)
           /\ status' = [status EXCEPT ![current] = "retrying"]
           /\ attempts' = [attempts EXCEPT ![current] = @ + 1]
           /\ claimed' = claimed \ {current}
           /\ backoff' = backoff \cup {current}
  BY <1>1, <1>2, <1>5 DEF RowStep, SameRow, RequeuedRow, Hinted, Exhausted
<1> QED
  BY <1>1, <1>3, <1>4, <1>5, FailureCases DEF IInv

\* Every step is, for every row, one of the row steps.
LEMMA RowSteps == ASSUME IInv, [Next]_vars, NEW g \in Gen PROVE RowStep(g)
<1>0. /\ count \in 0..NumGen
      /\ status \in [Gen -> Status] /\ attempts \in [Gen -> Nat] /\ runs \in [Gen -> Nat]
      /\ budget \in [Gen -> Nat] /\ claimed \subseteq Gen
      /\ target \in [Gen -> Slots \cup {NoSlot}]
      /\ lease \in [Gen -> {"none", "live", "expired"}]
      /\ phase = "await" => current \in Gen /\ status[current] \in Executing
  BY DEF IInv, TypeOK, WorkerHoldsItsRow
<1>1. ASSUME rows' = rows, runs' = runs PROVE RowStep(g)
  BY <1>1 DEF rows, RowStep, SameRow
<1>2. ASSUME NEW c \in Clients, InsertRow(c) PROVE RowStep(g)
  <2>1. PICK b \in Budgets : NewRow(req[c].slot, b)
    BY <1>2 DEF InsertRow
  <2>2. count + 1 \in Gen /\ req[c].slot \in Slots /\ runs' = runs
    BY <1>2, <1>0 DEF InsertRow, IInv, RequestsSound, RequestSound
  <2> QED
    BY <1>0, <2>1, <2>2 DEF NewRow, RowStep, SameRow, CreatedRow
<1>3. ASSUME NEW c \in Clients, LinkRetry(c) PROVE RowStep(g)
  BY <1>3 DEF LinkRetry, RowStep, SameRow
<1>4. ASSUME NEW s \in OpenSlots, EnqueueUnguarded(s) PROVE RowStep(g)
  <2>1. NewRow(s, 1) /\ count + 1 \in Gen /\ runs' = runs
    BY <1>4, <1>0 DEF EnqueueUnguarded
  <2> QED
    BY <1>0, <2>1 DEF NewRow, RowStep, SameRow, CreatedRow
<1>5. ASSUME NEW h \in Gen, CancelWaiting(h) PROVE RowStep(g)
  BY <1>0, <1>5 DEF CancelWaiting, RowStep, SameRow, ClosedRow
<1>6. ASSUME NEW h \in Gen, CancelRunning(h) PROVE RowStep(g)
  BY <1>0, <1>6 DEF CancelRunning, RowStep, SameRow, MarkedRow
<1>7. CASE RecoverExpiredLeases
  <2>1. UNCHANGED <<count, target, budget, lease, runs>>
    BY <1>7 DEF RecoverExpiredLeases
  <2>2. CASE g \notin Stale
    <3>1. status'[g] = status[g] /\ attempts'[g] = attempts[g]
      BY <1>7, <2>2 DEF RecoverExpiredLeases
    <3>2. g \in claimed' <=> g \in claimed
      BY <1>7, <2>2 DEF RecoverExpiredLeases
    <3> QED  BY <2>1, <3>1, <3>2 DEF RowStep, SameRow
  <2>3. CASE g \in Stale /\ status[g] = "cancelling"
    <3>1. status'[g] = "cancelled"
      BY <1>7, <2>3 DEF RecoverExpiredLeases, RecoveredStatus
    <3> QED  BY <2>1, <2>3, <3>1 DEF RowStep, ClosedRow
  <2>4. CASE g \in Stale /\ status[g] = "running" /\ Exhausted(g)
    <3>1. status'[g] = "interrupted"
      BY <1>7, <2>4 DEF RecoverExpiredLeases, RecoveredStatus
    <3> QED  BY <2>1, <2>4, <3>1 DEF RowStep, ClosedRow
  <2>5. CASE g \in Stale /\ status[g] = "running" /\ ~Exhausted(g)
    <3>1. status'[g] = "queued" /\ RecoveredStatus(g) = "queued"
      BY <1>7, <2>5 DEF RecoverExpiredLeases, RecoveredStatus
    <3>2. attempts'[g] = attempts[g] + 1 /\ attempts[g] + 1 < budget[g]
      BY <1>0, <1>7, <2>5 DEF RecoverExpiredLeases, Exhausted
    <3>3. g \notin claimed'
      BY <1>7, <2>5, <3>1 DEF RecoverExpiredLeases
    <3> QED  BY <2>1, <2>5, <3>1, <3>2, <3>3 DEF RowStep, RequeuedRow
  <2> QED  BY <2>2, <2>3, <2>4, <2>5 DEF Stale
<1>8. CASE ScheduleClaim
  BY <1>0, <1>8 DEF ScheduleClaim, TakeClaim, IsHead, Pending, RowStep, SameRow, ClaimedRow
<1>9. CASE PersistProgress
  BY <1>0, <1>9 DEF PersistProgress, RowStep, SameRow
<1>10. CASE ProviderRaises
  BY <1>10, FailureRow DEF ProviderRaises
<1>11. CASE ProviderAnswersCancelled
  BY <1>0, <1>11 DEF ProviderAnswersCancelled, HandleCancelled, RowStep, SameRow, ClosedRow
<1>12. CASE ProviderReturnsNothing
  BY <1>12, FailureRow DEF ProviderReturnsNothing, RetryOutcome
<1>13. CASE PersistOutput
  BY <1>0, <1>13 DEF PersistOutput, Complete, RowStep, SameRow, ClosedRow
<1>14. CASE PersistOutputRaises
  BY <1>14, FailureRow DEF PersistOutputRaises
<1>15. ASSUME NEW h \in Gen, LeaseExpires(h) PROVE RowStep(g)
  BY <1>0, <1>15 DEF LeaseExpires, RowStep, SameRow
<1>16. ASSUME NEW h \in Gen, BackoffElapses(h) PROVE RowStep(g)
  BY <1>16 DEF BackoffElapses, RowStep, SameRow
<1>17. CASE UNCHANGED vars \/ ScheduleNothing \/ RunAborts \/ Crash \/ Restart
  BY <1>1, <1>17 DEF vars, ScheduleNothing, RunAborts, Crash, Restart
<1>22. ASSUME NEW c \in Clients, NEW s \in GuardedSlots, StartCreate(c, s) PROVE RowStep(g)
  BY <1>1, <1>22 DEF StartCreate
<1>23. ASSUME NEW c \in Clients, NEW h \in Gen, StartRetry(c, h) PROVE RowStep(g)
  BY <1>1, <1>23 DEF StartRetry
<1>24. ASSUME NEW c \in Clients, CountInFlight(c) PROVE RowStep(g)
  BY <1>1, <1>24 DEF CountInFlight
<1>25. ASSUME NEW h \in Gen, HintCancel(h) PROVE RowStep(g)
  BY <1>1, <1>25 DEF HintCancel
<1>26. ASSUME NEW b \in BOOLEAN, SetPaused(b) PROVE RowStep(g)
  BY <1>1, <1>26 DEF SetPaused
<1>27. ASSUME NEW s \in GuardedSlots, SetActive(s) PROVE RowStep(g)
  BY <1>1, <1>27 DEF SetActive
<1>18. CASE Requesting
  BY <1>2, <1>3, <1>4, <1>18, <1>22, <1>23, <1>24 DEF Requesting
<1>19. CASE Controlling
  BY <1>5, <1>6, <1>19, <1>25, <1>26, <1>27 DEF Controlling
<1>20. CASE Working
  BY <1>7, <1>8, <1>9, <1>10, <1>11, <1>12, <1>13, <1>14, <1>17, <1>20
  DEF Working, RunEnds
<1>21. CASE Environment
  BY <1>15, <1>16, <1>17, <1>21 DEF Environment
<1> QED
  BY <1>17, <1>18, <1>19, <1>20, <1>21 DEF Next

-----------------------------------------------------------------------------
(* What one step may do to the table as a whole.                            *)

\* Rows are created one at a time, in order.
LEMMA CountStep ==
  ASSUME IInv, [Next]_vars
  PROVE  count' = count \/ (count' = count + 1 /\ count + 1 \in Gen /\ status'[count + 1] = "queued")
<1>0. count \in 0..NumGen /\ status \in [Gen -> Status]
  BY DEF IInv, TypeOK
<1>1. CASE UNCHANGED vars
  BY <1>1 DEF vars, rows
<1>2. ASSUME NEW s, NEW b, NewRow(s, b), count < NumGen
      PROVE  count' = count + 1 /\ count + 1 \in Gen /\ status'[count + 1] = "queued"
  BY <1>0, <1>2 DEF NewRow
<1>3. CASE Requesting
  BY <1>2, <1>3 DEF Requesting, StartCreate, StartRetry, CountInFlight, InsertRow, LinkRetry,
                    EnqueueUnguarded, rows
<1>4. CASE Controlling
  BY <1>4 DEF Controlling, CancelWaiting, CancelRunning, HintCancel, SetPaused, SetActive, rows
<1>5. CASE Working
  BY <1>5, Zenon DEF Working, RunEnds, RecoverExpiredLeases, ScheduleNothing, ScheduleClaim, TakeClaim,
                PersistProgress, ProviderRaises, ProviderAnswersCancelled,
                ProviderReturnsNothing, PersistOutput, PersistOutputRaises, RunAborts,
                HandleFailure, WaitForRetry, HandleCancelled, Complete, rows
<1>6. CASE Environment
  BY <1>6 DEF Environment, LeaseExpires, BackoffElapses, Crash, Restart, rows
<1> QED
  BY <1>1, <1>3, <1>4, <1>5, <1>6 DEF Next

\* Only the second commit of a retry writes retry_of.
LEMMA RetryOfStep ==
  ASSUME [Next]_vars
  PROVE  retryOf' = retryOf \/ \E c \in Clients : LinkRetry(c)
<1>1. CASE UNCHANGED vars
  BY <1>1 DEF vars, rows
<1>3. CASE Requesting
  BY <1>3, Zenon DEF Requesting, StartCreate, StartRetry, CountInFlight, InsertRow, NewRow,
                    EnqueueUnguarded, rows
<1>4. CASE Controlling
  BY <1>4 DEF Controlling, CancelWaiting, CancelRunning, HintCancel, SetPaused, SetActive, rows
<1>5. CASE Working
  BY <1>5, Zenon DEF Working, RunEnds, RecoverExpiredLeases, ScheduleNothing, ScheduleClaim, TakeClaim,
                PersistProgress, ProviderRaises, ProviderAnswersCancelled,
                ProviderReturnsNothing, PersistOutput, PersistOutputRaises, RunAborts,
                HandleFailure, WaitForRetry, HandleCancelled, Complete, rows
<1>6. CASE Environment
  BY <1>6 DEF Environment, LeaseExpires, BackoffElapses, Crash, Restart, rows
<1> QED
  BY <1>1, <1>3, <1>4, <1>5, <1>6 DEF Next

\* Only the completion of a row writes versions, and only it and an activation
\* move a pointer.
LEMMA AssetStep ==
  ASSUME [Next]_vars
  PROVE  \/ versions' = versions /\ active' = active
         \/ \E s \in GuardedSlots : SetActive(s)
         \/ PersistOutput
<1>1. CASE UNCHANGED vars
  BY <1>1 DEF vars, assets
<1>3. CASE Requesting
  BY <1>3, Zenon DEF Requesting, StartCreate, StartRetry, CountInFlight, InsertRow, LinkRetry,
                    EnqueueUnguarded, assets
<1>4. CASE Controlling
  BY <1>4 DEF Controlling, CancelWaiting, CancelRunning, HintCancel, SetPaused, assets
<1>5. CASE Working
  BY <1>5, Zenon DEF Working, RunEnds, RecoverExpiredLeases, ScheduleNothing, ScheduleClaim, TakeClaim,
                PersistProgress, ProviderRaises, ProviderAnswersCancelled,
                ProviderReturnsNothing, PersistOutputRaises, RunAborts,
                HandleFailure, WaitForRetry, HandleCancelled, assets
<1>6. CASE Environment
  BY <1>6 DEF Environment, LeaseExpires, BackoffElapses, Crash, Restart, assets
<1> QED
  BY <1>1, <1>3, <1>4, <1>5, <1>6 DEF Next

\* Only PersistOutput completes a row.
LEMMA CompletionStep ==
  ASSUME IInv, [Next]_vars, NEW g \in Gen, status'[g] = "completed"
  PROVE  status[g] = "completed" \/ PersistOutput
<1>0. /\ status \in [Gen -> Status] /\ count \in 0..NumGen
      /\ phase = "await" => current \in Gen /\ status[current] \in Executing
  BY DEF IInv, TypeOK, WorkerHoldsItsRow
<1>1. CASE UNCHANGED vars
  BY <1>1 DEF vars, rows
<1>2. ASSUME NEW s, NEW b, NewRow(s, b) PROVE status[g] = "completed"
  BY <1>0, <1>2 DEF NewRow
<1>3. CASE Requesting
  BY <1>2, <1>3 DEF Requesting, StartCreate, StartRetry, CountInFlight, InsertRow, LinkRetry,
                    EnqueueUnguarded, rows
<1>4. CASE Controlling
  BY <1>0, <1>4 DEF Controlling, CancelWaiting, CancelRunning, HintCancel, SetPaused, SetActive, rows
<1>5. CASE RecoverExpiredLeases
  BY <1>5 DEF RecoverExpiredLeases, RecoveredStatus
<1>6. CASE ScheduleClaim
  BY <1>0, <1>6 DEF ScheduleClaim, TakeClaim
<1>7. CASE ScheduleNothing \/ PersistProgress \/ RunAborts
  BY <1>7 DEF ScheduleNothing, PersistProgress, RunAborts, rows
<1>8. CASE ProviderAnswersCancelled
  BY <1>0, <1>8 DEF ProviderAnswersCancelled, HandleCancelled
<1>9. ASSUME phase = "await", NEW outcome \in RetryOutcome, HandleFailure(current, outcome)
      PROVE  status[g] = "completed"
  <2>1. status' = status \/ status' = [status EXCEPT ![current] = "failed"]
        \/ status' = [status EXCEPT ![current] = "retrying"]
    BY <1>0, <1>9, FailureCases, Zenon DEF IInv
  <2> QED
    BY <1>0, <1>9, <2>1
<1>10. CASE ProviderRaises
  BY <1>9, <1>10 DEF ProviderRaises
<1>11. CASE ProviderReturnsNothing
  BY <1>9, <1>11 DEF ProviderReturnsNothing, RetryOutcome
<1>12. CASE PersistOutputRaises
  BY <1>9, <1>12 DEF PersistOutputRaises
<1>13. CASE Environment
  BY <1>13 DEF Environment, LeaseExpires, BackoffElapses, Crash, Restart, rows
<1> QED
  BY <1>1, <1>3, <1>4, <1>5, <1>6, <1>7, <1>8, <1>10, <1>11, <1>12, <1>13
  DEF Next, Working, RunEnds

-----------------------------------------------------------------------------
(* The conjuncts of the inductive invariant, one by one.                    *)

\* Rows are created in order and keep their group; waiting rows hold no claim.
LEMMA ShapeStep == ASSUME IInv, [Next]_vars PROVE TableShape'
<1>1. SUFFICES ASSUME NEW g \in Gen
               PROVE  /\ g <= count' <=> status'[g] # "absent"
                      /\ g <= count' => target'[g] \in Slots
                      /\ g > count' => retryOf'[g] = NoGen
                      /\ status'[g] \in Claimable \cup {"absent"} => g \notin claimed'
  BY DEF TableShape
<1>2. /\ count \in 0..NumGen
      /\ g <= count <=> status[g] # "absent"
      /\ g <= count => target[g] \in Slots
      /\ g > count => retryOf[g] = NoGen
      /\ status[g] \in Claimable \cup {"absent"} => g \notin claimed
  BY DEF IInv, TypeOK, TableShape
<1>3. RowStep(g)
  BY RowSteps
<1>4. count' = count \/ (count' = count + 1 /\ (g = count + 1 => status'[g] = "queued"))
  BY CountStep
<1>5. g > count => retryOf'[g] = NoGen
  <2>1. CASE retryOf' = retryOf
    BY <1>2, <2>1
  <2>2. ASSUME NEW c \in Clients, LinkRetry(c) PROVE g > count => retryOf'[g] = NoGen
    <3>1. req[c].row <= count /\ req[c].row \in Gen /\ retryOf \in [Gen -> Gen \cup {NoGen}]
      BY <2>2 DEF LinkRetry, IInv, RequestsSound, RequestSound, TypeOK
    <3> QED  BY <1>2, <2>2, <3>1 DEF LinkRetry
  <2> QED  BY <2>1, <2>2, RetryOfStep
<1>6. CASE CreatedRow(g) /\ count' = g
  BY <1>2, <1>5, <1>6 DEF CreatedRow
<1>7. CASE target'[g] = target[g] /\ SameRow(g)
  BY <1>2, <1>4, <1>5, <1>7 DEF SameRow
<1>8. CASE target'[g] = target[g] /\ ClosedRow(g)
  BY <1>2, <1>4, <1>5, <1>8 DEF ClosedRow
<1>9. CASE target'[g] = target[g] /\ MarkedRow(g)
  BY <1>2, <1>4, <1>5, <1>9 DEF MarkedRow
<1>10. CASE target'[g] = target[g] /\ RequeuedRow(g)
  BY <1>2, <1>4, <1>5, <1>10 DEF RequeuedRow
<1>11. CASE target'[g] = target[g] /\ ClaimedRow(g)
  BY <1>2, <1>4, <1>5, <1>11 DEF ClaimedRow
<1> QED
  BY <1>3, <1>6, <1>7, <1>8, <1>9, <1>10, <1>11 DEF RowStep

\* No step gives a row to its provider beyond the attempts it is allowed: a run
\* that leaves the row open is counted as an attempt when it ends.
LEMMA AttemptsStep == ASSUME IInv, [Next]_vars PROVE AttemptsCoverRuns'
<1>1. SUFFICES ASSUME NEW g \in Gen
               PROVE  /\ status'[g] = "absent" => attempts'[g] = 0 /\ runs'[g] = 0
                      /\ status'[g] \in InFlight => attempts'[g] < budget'[g]
                      /\ status'[g] \in Claimable => runs'[g] <= attempts'[g]
                      /\ status'[g] \in Executing => runs'[g] <= attempts'[g] + 1
                      /\ status'[g] \in Terminal => runs'[g] <= budget'[g]
  BY DEF AttemptsCoverRuns
<1>2. /\ status[g] = "absent" => attempts[g] = 0 /\ runs[g] = 0
      /\ status[g] \in InFlight => attempts[g] < budget[g]
      /\ status[g] \in Claimable => runs[g] <= attempts[g]
      /\ status[g] \in Executing => runs[g] <= attempts[g] + 1
      /\ status[g] \in Terminal => runs[g] <= budget[g]
  BY DEF IInv, AttemptsCoverRuns
<1>5. /\ attempts[g] \in Nat /\ runs[g] \in Nat /\ budget[g] \in Nat
      /\ status[g] \in Status /\ count \in Nat
  <2>1. /\ count \in 0..NumGen /\ status \in [Gen -> Status] /\ attempts \in [Gen -> Nat]
        /\ runs \in [Gen -> Nat] /\ budget \in [Gen -> Nat]
    BY DEF IInv, TypeOK
  <2> QED  BY <2>1
<1>12. g <= count <=> status[g] # "absent"
  BY DEF IInv, TableShape
<1>3. budget'[g] \in Nat \ {0}
  BY TypeStep DEF TypeOK
<1>4. RowStep(g)
  BY RowSteps
<1>6. CASE CreatedRow(g) /\ count' = g
  BY <1>2, <1>3, <1>5, <1>12, <1>6 DEF CreatedRow
<1>7. CASE budget'[g] = budget[g] /\ SameRow(g)
  BY <1>2, <1>5, <1>7 DEF SameRow
<1>8. CASE budget'[g] = budget[g] /\ ClosedRow(g)
  BY <1>2, <1>5, <1>8 DEF ClosedRow
<1>9. CASE budget'[g] = budget[g] /\ MarkedRow(g)
  BY <1>2, <1>5, <1>9 DEF MarkedRow
<1>10. CASE budget'[g] = budget[g] /\ RequeuedRow(g)
  BY <1>2, <1>5, <1>10 DEF RequeuedRow
<1>11. CASE budget'[g] = budget[g] /\ ClaimedRow(g)
  BY <1>2, <1>5, <1>11 DEF ClaimedRow
<1> QED
  BY <1>4, <1>6, <1>7, <1>8, <1>9, <1>10, <1>11 DEF RowStep

\* A row that is executed holds a claim and a lease, in use or expired.
LEMMA ReachStep == ASSUME IInv, [Next]_vars PROVE NoRowOutOfReach'
<1>1. SUFFICES ASSUME NEW g \in Gen, status'[g] \in Executing
               PROVE  lease'[g] # "none" /\ g \in claimed'
  BY DEF NoRowOutOfReach
<1>2. status[g] \in Executing => lease[g] # "none" /\ g \in claimed
  BY DEF IInv, NoRowOutOfReach
<1>3. RowStep(g)
  BY RowSteps
<1>4. status'[g] = "running" \/ status'[g] = "cancelling"
  BY <1>1
<1>5. CASE SameRow(g) \/ MarkedRow(g) \/ ClaimedRow(g)
  BY <1>2, <1>3, <1>4, <1>5 DEF RowStep, SameRow, MarkedRow, ClaimedRow
<1>6. ~CreatedRow(g) /\ ~ClosedRow(g) /\ ~RequeuedRow(g)
  BY <1>4 DEF CreatedRow, ClosedRow, RequeuedRow
<1> QED
  BY <1>3, <1>5, <1>6 DEF RowStep

\* Nothing ends a row while the worker loop executes it.
LEMMA WorkerStep == ASSUME IInv, [Next]_vars PROVE WorkerHoldsItsRow'
<1>0. /\ phase = "await" => current \in Gen /\ status[current] \in Executing
      /\ phase # "await" => current = NoGen
      /\ status \in [Gen -> Status]
  BY DEF IInv, TypeOK, WorkerHoldsItsRow
<1>1. ASSUME phase' = "poll" \/ phase' = "down", current' = NoGen PROVE WorkerHoldsItsRow'
  BY <1>1 DEF WorkerHoldsItsRow
<1>2. ASSUME phase' = phase, current' = current,
             \A g \in Gen : status[g] \in Executing => status'[g] \in Executing
      PROVE  WorkerHoldsItsRow'
  BY <1>0, <1>2 DEF WorkerHoldsItsRow
<1>3. CASE UNCHANGED vars
  BY <1>2, <1>3 DEF vars, rows, loop
<1>4. CASE Requesting
  <2>1. ASSUME NEW s, NEW b, NewRow(s, b), phase' = phase, current' = current
        PROVE  WorkerHoldsItsRow'
    <3>1. count \in 0..NumGen /\ status' = [status EXCEPT ![count + 1] = "queued"]
      BY <2>1 DEF NewRow, IInv, TypeOK
    <3>2. \A g \in Gen : status[g] \in Executing => g # count + 1
      BY <3>1 DEF IInv, TableShape
    <3> QED
      BY <1>0, <1>2, <2>1, <3>1, <3>2
  <2>2. ASSUME rows' = rows, loop' = loop PROVE WorkerHoldsItsRow'
    BY <1>2, <2>2 DEF rows, loop
  <2>3. ASSUME status' = status, loop' = loop PROVE WorkerHoldsItsRow'
    BY <1>2, <2>3 DEF loop
  <2> QED
    BY <1>4, <2>1, <2>2, <2>3
    DEF Requesting, StartCreate, StartRetry, CountInFlight, InsertRow, LinkRetry,
        EnqueueUnguarded, loop
<1>5. CASE Controlling
  <2>1. ASSUME NEW g \in Gen, CancelWaiting(g) PROVE WorkerHoldsItsRow'
    BY <1>0, <1>2, <2>1 DEF CancelWaiting
  <2>2. ASSUME NEW g \in Gen, CancelRunning(g) PROVE WorkerHoldsItsRow'
    BY <1>0, <1>2, <2>2 DEF CancelRunning
  <2> QED
    BY <1>2, <1>5, <2>1, <2>2 DEF Controlling, HintCancel, SetPaused, SetActive, rows, loop
<1>6. CASE RecoverExpiredLeases
  BY <1>0, <1>6 DEF RecoverExpiredLeases, WorkerHoldsItsRow
<1>7. CASE ScheduleNothing
  BY <1>0, <1>7 DEF ScheduleNothing, WorkerHoldsItsRow
<1>8. CASE ScheduleClaim
  BY <1>0, <1>8 DEF ScheduleClaim, TakeClaim, WorkerHoldsItsRow
<1>9. CASE PersistProgress
  BY <1>2, <1>9 DEF PersistProgress, loop
<1>10. CASE RunEnds \/ RunAborts
  BY <1>1, <1>10 DEF RunEnds, ProviderRaises, ProviderAnswersCancelled, ProviderReturnsNothing,
                    PersistOutput, PersistOutputRaises, RunAborts, EndRun
<1>11. CASE Environment
  BY <1>0, <1>1, <1>2, <1>11 DEF Environment, LeaseExpires, BackoffElapses, Crash, Restart, rows, loop
<1> QED
  BY <1>3, <1>4, <1>5, <1>6, <1>7, <1>8, <1>9, <1>10, <1>11 DEF Next, Working

\* A completion appends the row to its group, which did not hold it.
LEMMA VersionsStep ==
  ASSUME IInv, [Next]_vars
  PROVE  OneVersionPerCompletion' /\ ActiveIsAVersion'
<1>0. /\ versions \in [Slots -> Seq(Gen)] /\ active \in [Slots -> Gen \cup {NoGen}]
      /\ status \in [Gen -> Status] /\ target \in [Gen -> Slots \cup {NoSlot}]
  BY DEF IInv, TypeOK
<1>1. \A s \in Slots : \A i, j \in DOMAIN versions[s] :
        /\ versions[s][i] \in Gen
        /\ status[versions[s][i]] = "completed"
        /\ target[versions[s][i]] = s
        /\ versions[s][i] = versions[s][j] => i = j
  BY <1>0 DEF IInv, OneVersionPerCompletion
<1>2. \A g \in Gen : status[g] = "completed" =>
        \E i \in DOMAIN versions[target[g]] : versions[target[g]][i] = g
  BY DEF IInv, OneVersionPerCompletion
<1>3. \A s \in Slots : active[s] = NoGen \/ \E i \in DOMAIN versions[s] : versions[s][i] = active[s]
  BY DEF IInv, ActiveIsAVersion
<1>4. \A g \in Gen : status[g] = "completed" => status'[g] = "completed" /\ target'[g] = target[g]
  <2> SUFFICES ASSUME NEW g \in Gen, status[g] = "completed"
               PROVE  status'[g] = "completed" /\ target'[g] = target[g]
    OBVIOUS
  <2>1. RowStep(g)
    BY RowSteps
  <2>2. g # count + 1
    BY DEF IInv, TypeOK, TableShape
  <2> QED
    BY <2>1, <2>2 DEF RowStep, CreatedRow, SameRow, ClosedRow, MarkedRow, RequeuedRow, ClaimedRow
<1>5. ASSUME ~PersistOutput, NEW g \in Gen, status'[g] = "completed" PROVE status[g] = "completed"
  <2>1. \A h \in Gen : status'[h] = "completed" => status[h] = "completed" \/ PersistOutput
    BY CompletionStep
  <2> QED
    BY <1>5, <2>1
<1>6. CASE versions' = versions /\ active' = active /\ ~PersistOutput
  BY <1>1, <1>2, <1>3, <1>4, <1>5, <1>6 DEF OneVersionPerCompletion, ActiveIsAVersion
<1>7. ASSUME NEW s \in GuardedSlots, SetActive(s), ~PersistOutput
      PROVE  OneVersionPerCompletion' /\ ActiveIsAVersion'
  <2>1. versions' = versions
    BY <1>7 DEF SetActive
  <2>2. PICK i \in DOMAIN versions[s] : active' = [active EXCEPT ![s] = versions[s][i]]
    BY <1>7 DEF SetActive
  <2>3. OneVersionPerCompletion'
    BY <1>1, <1>2, <1>4, <1>5, <1>7, <2>1 DEF OneVersionPerCompletion
  <2>4. ActiveIsAVersion'
    BY <1>0, <1>3, <2>1, <2>2 DEF ActiveIsAVersion
  <2> QED
    BY <2>3, <2>4
<1>8. CASE PersistOutput
  <2> DEFINE s == target[current]
             n == Len(versions[s]) + 1
  <2>1. /\ current \in Gen /\ status[current] = "running" /\ target' = target
        /\ status' = [status EXCEPT ![current] = "completed"]
        /\ versions' = [versions EXCEPT ![s] = Append(@, current)]
        /\ active' = [active EXCEPT ![s] = current]
    BY <1>8 DEF PersistOutput, Complete, IInv, WorkerHoldsItsRow
  <2>2. s \in Slots
    BY <2>1 DEF IInv, TableShape
  <2>3. /\ DOMAIN versions'[s] = 1..n
        /\ n \in Nat /\ n \notin DOMAIN versions[s] /\ DOMAIN versions[s] = 1..(n - 1)
        /\ versions'[s][n] = current
        /\ \A i \in DOMAIN versions[s] : versions'[s][i] = versions[s][i]
    BY <1>0, <2>1, <2>2
  <2>4. \A i \in DOMAIN versions[s] : versions[s][i] # current
    BY <1>1, <2>1, <2>2
  <2>5. \A z \in Slots : z # s => versions'[z] = versions[z] /\ active'[z] = active[z]
    BY <1>0, <2>1
  <2>6. ASSUME NEW z \in Slots, NEW i \in DOMAIN versions'[z], NEW j \in DOMAIN versions'[z]
        PROVE  /\ status'[versions'[z][i]] = "completed"
               /\ target'[versions'[z][i]] = z
               /\ versions'[z][i] = versions'[z][j] => i = j
    <3>1. CASE z # s
      BY <1>1, <1>4, <2>1, <2>5, <2>6, <3>1
    <3>2. CASE z = s
      <4>1. i \in DOMAIN versions[s] \/ i = n
        BY <2>3, <2>6, <3>2
      <4>2. j \in DOMAIN versions[s] \/ j = n
        BY <2>3, <2>6, <3>2
      <4> QED
        BY <1>0, <1>1, <1>4, <2>1, <2>2, <2>3, <2>4, <3>2, <4>1, <4>2
    <3> QED  BY <3>1, <3>2
  <2>7. ASSUME NEW g \in Gen, status'[g] = "completed"
        PROVE  \E i \in DOMAIN versions'[target'[g]] : versions'[target'[g]][i] = g
    <3>1. CASE g = current
      BY <2>1, <2>3, <3>1
    <3>2. CASE g # current
      <4>1. status[g] = "completed"
        BY <1>0, <2>1, <2>7, <3>2
      <4>2. PICK i \in DOMAIN versions[target[g]] : versions[target[g]][i] = g
        BY <1>2, <4>1
      <4>3. target[g] \in Slots
        BY <4>1 DEF IInv, TableShape
      <4> QED
        BY <2>1, <2>3, <2>5, <4>2, <4>3
    <3> QED  BY <3>1, <3>2
  <2>8. ASSUME NEW z \in Slots
        PROVE  active'[z] = NoGen \/ \E i \in DOMAIN versions'[z] : versions'[z][i] = active'[z]
    <3>1. CASE z # s
      BY <1>3, <2>5, <3>1
    <3>2. CASE z = s
      <4>1. active'[z] = current
        BY <1>0, <2>1, <2>2, <3>2
      <4>2. n \in DOMAIN versions'[z] /\ versions'[z][n] = current
        BY <2>3, <3>2
      <4> QED  BY <4>1, <4>2
    <3> QED  BY <3>1, <3>2
  <2> QED
    BY <2>6, <2>7, <2>8 DEF OneVersionPerCompletion, ActiveIsAVersion
<1> QED
  BY <1>6, <1>7, <1>8, AssetStep

\* What a request may rely on while it holds a row it has read: rows do not
\* disappear, do not change group, and do not come back from a final status.
LEMMA FinishedStaysFinished ==
  ASSUME IInv, [Next]_vars, NEW g \in Gen, g <= count
  PROVE  /\ g <= count'
         /\ target'[g] = target[g]
         /\ status[g] \in Terminal => status'[g] \in Terminal
         /\ status[g] = "cancelling" => status'[g] \in Terminal \cup {"cancelling"}
<1>1. count \in Nat /\ (count' = count \/ count' = count + 1)
  <2>1. count \in Nat
    BY DEF IInv, TypeOK
  <2>2. count' = count \/ count' = count + 1
    BY CountStep, Zenon
  <2> QED  BY <2>1, <2>2
<1>2. RowStep(g) /\ ~CreatedRow(g)
  BY <1>1, RowSteps DEF CreatedRow
<1>3. CASE SameRow(g)
  BY <1>1, <1>2, <1>3 DEF RowStep, SameRow
<1>4. CASE ClosedRow(g)
  BY <1>1, <1>2, <1>4 DEF RowStep, ClosedRow
<1>5. CASE MarkedRow(g) \/ RequeuedRow(g) \/ ClaimedRow(g)
  <2>1. status[g] \in {"running", "queued", "retrying"}
    BY <1>5 DEF MarkedRow, RequeuedRow, ClaimedRow
  <2> QED  BY <1>1, <1>2, <2>1 DEF RowStep
<1> QED
  BY <1>2, <1>3, <1>4, <1>5 DEF RowStep

\* The steps that move a request.
LEMMA RequestStep ==
  ASSUME [Next]_vars
  PROVE  \/ req' = req
         \/ \E c \in Clients :
              \/ \E s \in GuardedSlots : StartCreate(c, s)
              \/ \E g \in Gen : StartRetry(c, g)
              \/ CountInFlight(c)
              \/ InsertRow(c)
              \/ LinkRetry(c)
         \/ Crash
<1>1. CASE UNCHANGED vars
  BY <1>1 DEF vars
<1>2. CASE Requesting
  BY <1>2, Zenon DEF Requesting, EnqueueUnguarded
<1>3. CASE Controlling
  BY <1>3 DEF Controlling, CancelWaiting, CancelRunning, HintCancel, SetPaused, SetActive
<1>4. CASE Working
  BY <1>4, Zenon DEF Working, RunEnds, RecoverExpiredLeases, ScheduleNothing, ScheduleClaim, TakeClaim,
                PersistProgress, ProviderRaises, ProviderAnswersCancelled,
                ProviderReturnsNothing, PersistOutput, PersistOutputRaises, RunAborts
<1>5. CASE Environment
  BY <1>5, Zenon DEF Environment, LeaseExpires, BackoffElapses, Restart
<1> QED
  BY <1>1, <1>2, <1>3, <1>4, <1>5 DEF Next

\* What a create or retry request has read stays true until it writes.
LEMMA RequestsStep == ASSUME IInv, [Next]_vars PROVE RequestsSound'
<1>1. SUFFICES ASSUME NEW c \in Clients PROVE RequestSound(req[c])'
  BY DEF RequestsSound
<1>2. /\ req \in [Clients -> Requests] /\ RequestSound(req[c])
      /\ count \in Nat
      /\ req[c].orig \in Gen \cup {NoGen}
  BY DEF IInv, TypeOK, RequestsSound, Requests
<1>3. \A g \in Gen : g <= count =>
         /\ g <= count' /\ target'[g] = target[g]
         /\ status[g] \in Terminal => status'[g] \in Terminal
         /\ status[g] = "cancelling" => status'[g] \in Terminal \cup {"cancelling"}
  BY FinishedStaysFinished
<1>4. CASE req'[c] = req[c]
  <2>1. req[c].pc # "idle" => req[c].slot \in GuardedSlots
    BY <1>2 DEF RequestSound
  <2>2. req[c].pc # "idle" /\ req[c].orig # NoGen =>
          /\ req[c].orig \in Gen /\ req[c].orig <= count /\ target[req[c].orig] = req[c].slot
          /\ status[req[c].orig] \in Terminal \cup {"cancelling"}
          /\ req[c].pc # "read" => status[req[c].orig] \in Terminal
    BY <1>2 DEF RequestSound
  <2>3. req[c].pc = "linking" =>
          /\ req[c].orig # NoGen /\ req[c].row \in Gen /\ req[c].orig < req[c].row
          /\ req[c].row <= count /\ target[req[c].row] = req[c].slot
    BY <1>2 DEF RequestSound
  <2> QED
    BY <1>3, <1>4, <2>1, <2>2, <2>3 DEF RequestSound
<1>5. CASE req'[c] = Idle
  BY <1>5 DEF RequestSound, Idle, Request
<1>6. ASSUME NEW d \in Clients, NEW s \in GuardedSlots, StartCreate(d, s)
      PROVE  RequestSound(req[c])'
  <2>1. req'[c] = req[c] \/ req'[c] = Request("read", s, NoGen, NoGen)
    BY <1>2, <1>6 DEF StartCreate
  <2> QED
    BY <1>4, <2>1 DEF RequestSound, Request
<1>7. ASSUME NEW d \in Clients, NEW g \in Gen, StartRetry(d, g)
      PROVE  RequestSound(req[c])'
  <2>1. req'[c] = req[c] \/ req'[c] = Request("read", target[g], g, NoGen)
    BY <1>2, <1>7 DEF StartRetry
  <2>2. /\ g <= count /\ count' = count /\ target' = target /\ status' = status
        /\ target[g] \in GuardedSlots /\ status[g] \in Terminal \cup {"cancelling"}
    <3>1. /\ g <= count /\ rows' = rows /\ target[g] \in GuardedSlots
          /\ status[g] \notin {"queued", "running", "retrying"}
      BY <1>7 DEF StartRetry
    <3>2. status[g] \in Status /\ status[g] # "absent"
      BY <3>1 DEF IInv, TypeOK, TableShape
    <3> QED  BY <3>1, <3>2 DEF rows
  <2> QED
    BY <1>4, <2>1, <2>2 DEF RequestSound, Request
<1>8. ASSUME NEW d \in Clients, CountInFlight(d) PROVE RequestSound(req[c])'
  <2>1. /\ req[d].pc = "read"
        /\ req'[c] = req[c] \/ req'[c] = Idle
           \/ /\ c = d /\ InFlightFor(req[c].slot) = {}
              /\ req'[c] = Request("counted", req[c].slot, req[c].orig, NoGen)
    BY <1>2, <1>8 DEF CountInFlight
  <2>2. count' = count /\ target' = target /\ status' = status
    BY <1>8 DEF CountInFlight, rows
  <2>3. CASE /\ c = d /\ InFlightFor(req[c].slot) = {}
             /\ req'[c] = Request("counted", req[c].slot, req[c].orig, NoGen)
    <3>1. req[c].slot \in GuardedSlots
      BY <1>2, <2>1, <2>3 DEF RequestSound
    <3>2. req[c].orig # NoGen =>
            /\ req[c].orig \in Gen /\ req[c].orig <= count /\ target[req[c].orig] = req[c].slot
            /\ status[req[c].orig] \in Terminal \cup {"cancelling"}
      BY <1>2, <2>1, <2>3 DEF RequestSound
    <3>3. req[c].orig # NoGen => status[req[c].orig] \in Terminal
      BY <2>3, <3>2 DEF InFlightFor
    <3> QED
      BY <2>2, <2>3, <3>1, <3>2, <3>3 DEF RequestSound, Request
  <2> QED
    BY <1>4, <1>5, <2>1, <2>3
<1>9. ASSUME NEW d \in Clients, InsertRow(d) PROVE RequestSound(req[c])'
  <2>1. PICK b \in Budgets : NewRow(req[d].slot, b)
    BY <1>9 DEF InsertRow
  <2>2. /\ req[d].pc = "counted" /\ count + 1 \in Gen
        /\ req'[c] = req[c] \/ req'[c] = Idle
           \/ /\ c = d /\ req[c].orig # NoGen
              /\ req'[c] = Request("linking", req[c].slot, req[c].orig, count + 1)
    BY <1>2, <1>9 DEF InsertRow
  <2>3. CASE /\ c = d /\ req[c].orig # NoGen
             /\ req'[c] = Request("linking", req[c].slot, req[c].orig, count + 1)
    <3>1. /\ req[c].slot \in GuardedSlots /\ req[c].orig \in Gen /\ req[c].orig <= count
          /\ target[req[c].orig] = req[c].slot /\ status[req[c].orig] \in Terminal
      BY <1>2, <2>2, <2>3 DEF RequestSound
    <3>2. count' = count + 1 /\ target'[count + 1] = req[c].slot
      BY <2>1, <2>2, <2>3 DEF NewRow, IInv, TypeOK
    <3>3. target'[req[c].orig] = target[req[c].orig] /\ status'[req[c].orig] \in Terminal
      BY <1>3, <3>1
    <3> QED
      BY <1>2, <2>2, <2>3, <3>1, <3>2, <3>3 DEF RequestSound, Request
  <2> QED
    BY <1>4, <1>5, <2>2, <2>3
<1>10. ASSUME NEW d \in Clients, LinkRetry(d) PROVE RequestSound(req[c])'
  BY <1>2, <1>4, <1>5, <1>10 DEF LinkRetry
<1>11. CASE Crash
  BY <1>5, <1>11 DEF Crash
<1> QED
  BY <1>4, <1>6, <1>7, <1>8, <1>9, <1>10, <1>11, RequestStep

\* A new link leads to an original that was finished when the rows in flight
\* were counted, and has stayed so.
LEMMA RetriesStep == ASSUME IInv, [Next]_vars PROVE RetriesFollowFinishedRows'
<1>1. SUFFICES ASSUME NEW g \in Gen, retryOf'[g] # NoGen
               PROVE  /\ retryOf'[g] < g
                      /\ status'[retryOf'[g]] \in Terminal
                      /\ target'[retryOf'[g]] = target'[g]
  BY DEF RetriesFollowFinishedRows
<1>2. retryOf \in [Gen -> Gen \cup {NoGen}] /\ count \in Nat
  BY DEF IInv, TypeOK
<1>3. CASE retryOf'[g] = retryOf[g]
  <2>1. /\ g <= count /\ retryOf[g] \in Gen /\ retryOf[g] < g
        /\ status[retryOf[g]] \in Terminal /\ target[retryOf[g]] = target[g]
    BY <1>1, <1>2, <1>3 DEF IInv, TableShape, RetriesFollowFinishedRows
  <2>2. retryOf[g] <= count
    BY <1>2, <2>1
  <2> QED
    BY <1>3, <2>1, <2>2, FinishedStaysFinished
<1>4. ASSUME NEW c \in Clients, LinkRetry(c), retryOf'[g] # retryOf[g]
      PROVE  /\ retryOf'[g] < g
             /\ status'[retryOf'[g]] \in Terminal
             /\ target'[retryOf'[g]] = target'[g]
  <2>1. g = req[c].row /\ retryOf'[g] = req[c].orig /\ status' = status /\ target' = target
    BY <1>2, <1>4 DEF LinkRetry
  <2>2. RequestSound(req[c]) /\ req[c].pc = "linking"
    BY <1>4 DEF LinkRetry, IInv, RequestsSound
  <2> QED
    BY <2>1, <2>2 DEF RequestSound
<1> QED
  BY <1>3, <1>4, RetryOfStep

-----------------------------------------------------------------------------

\* The empty table of a fresh backend satisfies the invariant.
LEMMA InitHolds == Init => IInv
<1> SUFFICES ASSUME Init PROVE IInv
  OBVIOUS
<1>1. TypeOK
  <2>1. req \in [Clients -> Requests]
    BY DEF Init, Idle, Request, Requests
  <2>2. /\ status \in [Gen -> Status] /\ target \in [Gen -> Slots \cup {NoSlot}]
        /\ budget \in [Gen -> Budgets] /\ attempts \in [Gen -> Nat] /\ runs \in [Gen -> Nat]
        /\ lease \in [Gen -> {"none", "live", "expired"}] /\ retryOf \in [Gen -> Gen \cup {NoGen}]
    BY DEF Init
  <2>3. versions \in [Slots -> Seq(Gen)] /\ active \in [Slots -> Gen \cup {NoGen}]
    BY DEF Init
  <2>4. /\ count \in 0..NumGen /\ claimed \subseteq Gen /\ backoff \subseteq Gen
        /\ phase \in {"poll", "schedule", "await", "down"} /\ current \in Gen \cup {NoGen}
        /\ hint \subseteq Gen /\ crashes \in 0..MaxCrashes /\ aborts \in 0..MaxAborts
    BY DEF Init
  <2>5. paused \in BOOLEAN
    BY DEF Init
  <2> QED
    BY <2>1, <2>2, <2>3, <2>4, <2>5 DEF TypeOK
<1>2. TableShape /\ AttemptsCoverRuns /\ NoRowOutOfReach /\ WorkerHoldsItsRow
  BY DEF Init, TableShape, AttemptsCoverRuns, NoRowOutOfReach, WorkerHoldsItsRow
<1>3. OneVersionPerCompletion /\ ActiveIsAVersion /\ RetriesFollowFinishedRows
  BY DEF Init, OneVersionPerCompletion, ActiveIsAVersion, RetriesFollowFinishedRows
<1>4. RequestsSound
  BY DEF Init, RequestsSound, RequestSound, Idle, Request
<1> QED
  BY <1>1, <1>2, <1>3, <1>4 DEF IInv

\* The invariant is inductive: the parts above, together.
LEMMA StepKeeps == IInv /\ [Next]_vars => IInv'
  BY TypeStep, ShapeStep, AttemptsStep, ReachStep, WorkerStep, VersionsStep, RequestsStep,
     RetriesStep
  DEF IInv

\* The inductive invariant holds in every reachable state.
THEOREM Invariance == Spec => []IInv
<1>1. Init => IInv
  BY InitHolds
<1>2. IInv /\ [Next]_vars => IInv'
  BY StepKeeps
<1> QED
  BY <1>1, <1>2, PTL DEF Spec

\* Every variable keeps its type.
THEOREM TypeCorrect == Spec => []TypeOK
  BY Invariance, PTL DEF IInv

\* Each completed row has contributed one version to its own group, and nothing
\* else has (OneVersionPerCompletion).
THEOREM OutputsOfCompletedRows == Spec => []OneVersionPerCompletion
  BY Invariance, PTL DEF IInv

\* The active pointer names a version that is there (ActiveIsAVersion).
THEOREM PointersNameVersions == Spec => []ActiveIsAVersion
  BY Invariance, PTL DEF IInv

\* No executing row is out of the reach of the recovery (NoRowOutOfReach).
THEOREM RowsStayInReach == Spec => []NoRowOutOfReach
  BY Invariance, PTL DEF IInv

\* The row of the worker is never taken from it (WorkerHoldsItsRow).
THEOREM WorkerIsNotRobbed == Spec => []WorkerHoldsItsRow
  BY Invariance, PTL DEF IInv

\* retry_of leads to a finished older row of the same group
\* (RetriesFollowFinishedRows), for any number of threads.
THEOREM RetriesAreSound == Spec => []RetriesFollowFinishedRows
  BY Invariance, PTL DEF IInv

\* A row is given to its provider at most max_attempts times (RunsWithinBudget).
THEOREM BudgetIsKept == Spec => []RunsWithinBudget
<1>1. IInv => RunsWithinBudget
  <2> SUFFICES ASSUME IInv, NEW g \in Gen PROVE runs[g] <= budget[g]
    BY DEF RunsWithinBudget
  <2>1. /\ status \in [Gen -> Status] /\ attempts \in [Gen -> Nat]
        /\ runs \in [Gen -> Nat] /\ budget \in [Gen -> Nat]
    BY DEF IInv, TypeOK
  <2>2. /\ status[g] = "absent" => attempts[g] = 0 /\ runs[g] = 0
        /\ status[g] \in InFlight => attempts[g] < budget[g]
        /\ status[g] \in Claimable => runs[g] <= attempts[g]
        /\ status[g] \in Executing => runs[g] <= attempts[g] + 1
        /\ status[g] \in Terminal => runs[g] <= budget[g]
    BY DEF IInv, AttemptsCoverRuns
  <2> QED
    BY <2>1, <2>2
<1> QED
  BY <1>1, Invariance, PTL

\* The head of the queue never blocks it (HeadOfQueueIsClaimable).
THEOREM QueueIsNotBlocked == Spec => []HeadOfQueueIsClaimable
<1>1. IInv => HeadOfQueueIsClaimable
  BY DEF IInv, TableShape, HeadOfQueueIsClaimable, Pending, ClaimMatches
<1> QED
  BY <1>1, Invariance, PTL

\* Every change of a status is in the transition table (TransitionsFollowTable).
THEOREM StatusFollowsTable == Spec => TransitionsFollowTable
<1>1. ASSUME IInv, [Next]_vars, NEW g \in Gen, status'[g] # status[g]
      PROVE  \/ <<status[g], status'[g]>> \in AllowedTransitions
             \/ status[g] = "absent" /\ status'[g] = "queued"
  <2>1. RowStep(g) /\ ~SameRow(g)
    BY <1>1, RowSteps DEF SameRow
  <2>2. CASE CreatedRow(g)
    BY <1>1, <2>2 DEF CreatedRow, IInv, TypeOK, TableShape
  <2>3. CASE ClosedRow(g)
    BY <2>3 DEF ClosedRow, AllowedTransitions
  <2>4. CASE MarkedRow(g)
    BY <2>4 DEF MarkedRow, AllowedTransitions
  <2>5. CASE RequeuedRow(g)
    BY <2>5 DEF RequeuedRow, AllowedTransitions
  <2>6. CASE ClaimedRow(g)
    BY <2>6 DEF ClaimedRow, AllowedTransitions
  <2> QED
    BY <2>1, <2>2, <2>3, <2>4, <2>5, <2>6 DEF RowStep
<1>2. IInv /\ [Next]_vars =>
        [\A g \in Gen : status'[g] # status[g] =>
           \/ <<status[g], status'[g]>> \in AllowedTransitions
           \/ status[g] = "absent" /\ status'[g] = "queued"]_vars
  BY <1>1
<1> QED
  BY <1>2, Invariance, PTL DEF Spec, TransitionsFollowTable

\* A cancelling row ends cancelled and its output becomes active nowhere
\* (CancelIsFinal).
THEOREM CancelWins == Spec => CancelIsFinal
<1>1. ASSUME IInv, [Next]_vars, NEW g \in Gen, status[g] = "cancelling"
      PROVE  /\ status'[g] \in {"cancelling", "cancelled"}
             /\ \A s \in Slots : active'[s] = g => active[s] = g
  <2>1. RowStep(g) /\ ~CreatedRow(g)
    <3>1. RowStep(g)
      BY <1>1, RowSteps
    <3>2. count \in Nat /\ g <= count
      BY <1>1 DEF IInv, TypeOK, TableShape
    <3> QED  BY <3>1, <3>2 DEF CreatedRow
  <2>2. status'[g] \in {"cancelling", "cancelled"}
    BY <1>1, <2>1 DEF RowStep, SameRow, ClosedRow, MarkedRow, RequeuedRow, ClaimedRow
  <2>3. ASSUME NEW s \in Slots, active'[s] = g PROVE active[s] = g
    <3>1. active \in [Slots -> Gen \cup {NoGen}]
      BY <1>1 DEF IInv, TypeOK
    <3>2. CASE active' = active
      BY <2>3, <3>2
    <3>3. ASSUME NEW z \in GuardedSlots, SetActive(z) PROVE active[s] = g
      <4>1. PICK i \in DOMAIN versions[z] : active' = [active EXCEPT ![z] = versions[z][i]]
        BY <3>3 DEF SetActive
      <4>2. status[versions[z][i]] = "completed"
        BY <1>1, <4>1 DEF IInv, OneVersionPerCompletion
      <4> QED
        BY <1>1, <2>3, <3>1, <4>1, <4>2
    <3>4. CASE PersistOutput
      <4>1. status[current] = "running" /\ active' = [active EXCEPT ![target[current]] = current]
        BY <3>4 DEF PersistOutput, Complete
      <4> QED
        BY <1>1, <2>3, <3>1, <4>1
    <3> QED
      BY <1>1, <3>2, <3>3, <3>4, AssetStep
  <2> QED
    BY <2>2, <2>3
<1>2. IInv /\ [Next]_vars =>
        [\A g \in Gen : status[g] = "cancelling" =>
           /\ status'[g] \in {"cancelling", "cancelled"}
           /\ \A s \in Slots : active'[s] = g => active[s] = g]_vars
  BY <1>1
<1> QED
  BY <1>2, Invariance, PTL DEF Spec, CancelIsFinal

\* A version group only grows, at its end, by one (VersionsAreAppendOnly).
THEOREM HistoryIsAppendOnly == Spec => VersionsAreAppendOnly
<1>1. ASSUME IInv, [Next]_vars, NEW s \in Slots
      PROVE  versions'[s] = versions[s] \/ \E g \in Gen : versions'[s] = Append(versions[s], g)
  <2>1. versions \in [Slots -> Seq(Gen)]
    BY <1>1 DEF IInv, TypeOK
  <2>2. CASE PersistOutput
    <3>1. current \in Gen /\ versions' = [versions EXCEPT ![target[current]] = Append(@, current)]
      BY <1>1, <2>2 DEF PersistOutput, Complete, IInv, WorkerHoldsItsRow
    <3> QED
      BY <2>1, <3>1
  <2> QED
    BY <1>1, <2>2, AssetStep DEF SetActive
<1>2. IInv /\ [Next]_vars =>
        [\A s \in Slots :
           \/ versions'[s] = versions[s]
           \/ \E g \in Gen : versions'[s] = Append(versions[s], g)]_vars
  BY <1>1
<1> QED
  BY <1>2, Invariance, PTL DEF Spec, VersionsAreAppendOnly

-----------------------------------------------------------------------------
(* The refinement of GenerationLifecycle.                                   *)

\* A row becomes cancelling only at the cancel endpoint.
LEMMA MarkStep ==
  ASSUME IInv, [Next]_vars, NEW g \in Gen, MarkedRow(g)
  PROVE  \E h \in Gen : CancelRunning(h)
<1>0. /\ status \in [Gen -> Status] /\ count \in 0..NumGen
      /\ phase = "await" => current \in Gen /\ status[current] \in Executing
  BY DEF IInv, TypeOK, WorkerHoldsItsRow
<1>1. status[g] = "running" /\ status'[g] = "cancelling"
  BY DEF MarkedRow
<1>2. CASE UNCHANGED vars
  BY <1>1, <1>2 DEF vars, rows
<1>3. CASE Requesting
  <2>1. ASSUME NEW s, NEW b, NewRow(s, b) PROVE FALSE
    BY <1>0, <1>1, <2>1 DEF NewRow
  <2> QED
    BY <1>1, <1>3, <2>1 DEF Requesting, StartCreate, StartRetry, CountInFlight, InsertRow,
                            LinkRetry, EnqueueUnguarded, rows
<1>4. CASE Controlling
  BY <1>0, <1>1, <1>4 DEF Controlling, CancelWaiting, HintCancel, SetPaused, SetActive, rows
<1>5. CASE RecoverExpiredLeases
  BY <1>1, <1>5 DEF RecoverExpiredLeases, RecoveredStatus
<1>6. CASE ScheduleClaim
  BY <1>0, <1>1, <1>6 DEF ScheduleClaim, TakeClaim
<1>7. CASE ScheduleNothing \/ PersistProgress \/ RunAborts
  BY <1>1, <1>7 DEF ScheduleNothing, PersistProgress, RunAborts, rows
<1>8. CASE ProviderAnswersCancelled
  BY <1>0, <1>1, <1>8 DEF ProviderAnswersCancelled, HandleCancelled
<1>9. ASSUME phase = "await", NEW outcome \in RetryOutcome, HandleFailure(current, outcome)
      PROVE  FALSE
  <2>1. status' = status \/ status' = [status EXCEPT ![current] = "failed"]
        \/ status' = [status EXCEPT ![current] = "retrying"]
    BY <1>0, <1>9, FailureCases, Zenon DEF IInv
  <2> QED
    BY <1>0, <1>1, <1>9, <2>1
<1>10. CASE ProviderRaises
  BY <1>9, <1>10 DEF ProviderRaises
<1>11. CASE ProviderReturnsNothing
  BY <1>9, <1>11 DEF ProviderReturnsNothing, RetryOutcome
<1>12. CASE PersistOutputRaises
  BY <1>9, <1>12 DEF PersistOutputRaises
<1>13. CASE PersistOutput
  BY <1>0, <1>1, <1>13 DEF PersistOutput, Complete
<1>14. CASE Environment
  BY <1>1, <1>14 DEF Environment, LeaseExpires, BackoffElapses, Crash, Restart, rows
<1> QED
  BY <1>2, <1>3, <1>4, <1>5, <1>6, <1>7, <1>8, <1>10, <1>11, <1>12, <1>13, <1>14
  DEF Next, Working, RunEnds

\* Rows are created by NewRow.
LEMMA CreateStep ==
  ASSUME [Next]_vars, count' # count
  PROVE  (\E s, b : NewRow(s, b)) /\ versions' = versions
<1>1. CASE UNCHANGED vars
  BY <1>1 DEF vars, rows
<1>3. CASE Requesting
  BY <1>3, Zenon DEF Requesting, StartCreate, StartRetry, CountInFlight, InsertRow, LinkRetry,
                    EnqueueUnguarded, rows, assets
<1>4. CASE Controlling
  BY <1>4 DEF Controlling, CancelWaiting, CancelRunning, HintCancel, SetPaused, SetActive, rows
<1>5. CASE Working
  BY <1>5, Zenon DEF Working, RunEnds, RecoverExpiredLeases, ScheduleNothing, ScheduleClaim, TakeClaim,
                PersistProgress, ProviderRaises, ProviderAnswersCancelled,
                ProviderReturnsNothing, PersistOutput, PersistOutputRaises, RunAborts,
                HandleFailure, WaitForRetry, HandleCancelled, Complete, rows
<1>6. CASE Environment
  BY <1>6 DEF Environment, LeaseExpires, BackoffElapses, Crash, Restart, rows
<1> QED
  BY <1>1, <1>3, <1>4, <1>5, <1>6 DEF Next

\* The stages of the rows: the refinement mapping.
Stage == [g \in Gen |-> StageOf(status[g])]

\* Rows that only wait, run or close are one Close step of the contract.
LEMMA CloseSimulated ==
  ASSUME versions' = versions,
         \A g \in Gen : \/ Stage'[g] = Stage[g]
                        \/ Stage'[g] \in Contract!ClosedFrom(Stage[g])
  PROVE  Contract!Next
<1> DEFINE S == {g \in Gen : Stage'[g] # Stage[g]}
<1>1. Delivered' = Delivered
  BY DEF Delivered
<1>2. Stage' \in [Gen -> Contract!Stages]
  BY DEF Stage, StageOf, Contract!Stages
<1>3. \A g \in Gen : Stage'[g] \in IF g \in S THEN Contract!ClosedFrom(Stage[g]) ELSE {Stage[g]}
  OBVIOUS
<1>4. S \in SUBSET Gen
  OBVIOUS
<1>5. Contract!Close(S)
  BY <1>1, <1>2, <1>3 DEF Contract!Close, Stage
<1> QED
  BY <1>4, <1>5 DEF Contract!Next

\* Every step of the queue is a step of the contract, or leaves it as it is.
LEMMA StepSimulated == ASSUME IInv, [Next]_vars PROVE [Contract!Next]_(Contract!vars)
<1>0. /\ status \in [Gen -> Status] /\ status' \in [Gen -> Status]
      /\ versions \in [Slots -> Seq(Gen)] /\ count \in Nat
  <2>1. TypeOK'
    BY TypeStep
  <2> QED
    BY <2>1 DEF IInv, TypeOK
<1>1. CASE PersistOutput
  <2>1. /\ current \in Gen /\ status[current] = "running"
        /\ status' = [status EXCEPT ![current] = "completed"]
        /\ versions' = [versions EXCEPT ![target[current]] = Append(@, current)]
        /\ target[current] \in Slots
    <3>1. /\ current \in Gen /\ status[current] = "running"
          /\ status' = [status EXCEPT ![current] = "completed"]
          /\ versions' = [versions EXCEPT ![target[current]] = Append(@, current)]
      BY <1>1 DEF PersistOutput, Complete, IInv, WorkerHoldsItsRow
    <3> QED  BY <3>1 DEF IInv, TableShape
  <2>2. Stage' = [Stage EXCEPT ![current] = "done"] /\ Stage[current] = "open"
    BY <1>0, <2>1 DEF Stage, StageOf
  <2>3. \A g \in Gen : g \in Delivered' <=> g \in Delivered \/ g = current
    <3> DEFINE v == versions[target[current]]
               n == Len(v) + 1
    <3>1. /\ versions'[target[current]] = Append(v, current)
          /\ \A s \in Slots : s # target[current] => versions'[s] = versions[s]
          /\ v \in Seq(Gen)
      BY <1>0, <2>1
    <3>2. /\ DOMAIN Append(v, current) = 1..n /\ DOMAIN v = 1..(n - 1) /\ n \in Nat \ {0}
          /\ Append(v, current)[n] = current
          /\ \A i \in DOMAIN v : Append(v, current)[i] = v[i]
      BY <2>1, <3>1
    <3>3. SUFFICES ASSUME NEW g \in Gen
                   PROVE  g \in Delivered' <=> g \in Delivered \/ g = current
      OBVIOUS
    <3>4. ASSUME g \in Delivered' PROVE g \in Delivered \/ g = current
      <4>1. PICK s \in Slots : \E i \in DOMAIN versions'[s] : versions'[s][i] = g
        BY <3>4 DEF Delivered
      <4>2. PICK i \in DOMAIN versions'[s] : versions'[s][i] = g
        BY <4>1
      <4>3. CASE s # target[current]
        BY <3>1, <4>2, <4>3 DEF Delivered
      <4>4. CASE s = target[current] /\ i = n
        BY <3>1, <3>2, <4>2, <4>4
      <4>5. CASE s = target[current] /\ i \in DOMAIN v
        BY <3>1, <3>2, <4>2, <4>5 DEF Delivered
      <4> QED
        BY <3>1, <3>2, <4>3, <4>4, <4>5
    <3>5. ASSUME g \in Delivered PROVE g \in Delivered'
      <4>1. PICK s \in Slots : \E i \in DOMAIN versions[s] : versions[s][i] = g
        BY <3>5 DEF Delivered
      <4>2. PICK i \in DOMAIN versions[s] : versions[s][i] = g
        BY <4>1
      <4>3. i \in DOMAIN versions'[s] /\ versions'[s][i] = g
        <5>1. CASE s # target[current]
          BY <3>1, <4>2, <5>1
        <5>2. CASE s = target[current]
          <6>1. i \in DOMAIN v /\ v[i] = g
            BY <4>2, <5>2
          <6>2. i \in 1..n
            BY <3>2, <6>1
          <6> QED  BY <3>1, <3>2, <5>2, <6>1, <6>2
        <5> QED  BY <5>1, <5>2
      <4> QED
        BY <4>3 DEF Delivered
    <3>6. current \in Delivered'
      <4>1. n \in DOMAIN versions'[target[current]] /\ versions'[target[current]][n] = current
        BY <3>1, <3>2
      <4> QED
        BY <2>1, <4>1 DEF Delivered
    <3> QED
      BY <3>4, <3>5, <3>6
  <2>4. Delivered' = Delivered \cup {current}
    BY <2>1, <2>3 DEF Delivered
  <2>5. Contract!Deliver(current)
    BY <2>2, <2>4 DEF Contract!Deliver, Stage
  <2> QED
    BY <2>1, <2>5 DEF Contract!Next
<1>2. ASSUME NEW h \in Gen, CancelRunning(h) PROVE Contract!Next
  <2>1. /\ status[h] = "running" /\ status' = [status EXCEPT ![h] = "cancelling"]
        /\ versions' = versions
    BY <1>2 DEF CancelRunning, assets
  <2>2. Stage' = [Stage EXCEPT ![h] = "stopping"] /\ Stage[h] = "open"
    BY <1>0, <2>1 DEF Stage, StageOf
  <2>3. Delivered' = Delivered
    BY <2>1 DEF Delivered
  <2>4. Contract!RequestStop(h)
    BY <2>2, <2>3 DEF Contract!RequestStop, Stage
  <2> QED
    BY <2>4 DEF Contract!Next
<1>3. CASE count' # count
  <2>1. PICK s, b : NewRow(s, b)
    BY <1>3, CreateStep
  <2>2. count + 1 \in Gen /\ status' = [status EXCEPT ![count + 1] = "queued"]
    BY <1>3, <2>1, CountStep DEF NewRow
  <2>3. status[count + 1] = "absent"
    BY <1>0, <2>2 DEF IInv, TableShape
  <2>4. Stage' = [Stage EXCEPT ![count + 1] = "open"] /\ Stage[count + 1] = "none"
    BY <1>0, <2>2, <2>3 DEF Stage, StageOf
  <2>5. Delivered' = Delivered
    BY <1>3, CreateStep DEF Delivered
  <2>6. Contract!Submit(count + 1)
    BY <2>4, <2>5 DEF Contract!Submit, Stage
  <2> QED
    BY <2>2, <2>6 DEF Contract!Next
<1>4. CASE ~PersistOutput /\ count' = count /\ ~(\E h \in Gen : CancelRunning(h))
  <2>1. versions' = versions
    BY <1>4, AssetStep DEF SetActive
  <2>2. ASSUME NEW g \in Gen
        PROVE  Stage'[g] = Stage[g] \/ Stage'[g] \in Contract!ClosedFrom(Stage[g])
    <3>1. RowStep(g) /\ ~MarkedRow(g) /\ ~(CreatedRow(g) /\ count' = g)
      BY <1>0, <1>4, RowSteps, MarkStep DEF CreatedRow
    <3>2. status'[g] = "completed" => status[g] = "completed"
      BY <1>4, CompletionStep
    <3>3. CASE SameRow(g)
      BY <3>3 DEF SameRow, Stage
    <3>4. CASE ClosedRow(g)
      <4>1. \/ /\ status[g] \in {"queued", "retrying", "running", "cancelling"}
               /\ status'[g] = "cancelled"
            \/ status[g] = "running" /\ status'[g] \in {"failed", "interrupted"}
        BY <3>2, <3>4 DEF ClosedRow
      <4> QED
        BY <4>1 DEF Stage, StageOf, Contract!ClosedFrom
    <3>5. CASE RequeuedRow(g) \/ ClaimedRow(g)
      BY <3>5 DEF RequeuedRow, ClaimedRow, Stage, StageOf
    <3> QED
      BY <3>1, <3>3, <3>4, <3>5 DEF RowStep
  <2> QED
    BY <2>1, <2>2, CloseSimulated
<1> QED
  BY <1>1, <1>2, <1>3, <1>4

\* The queue implements the contract (HonoursContract), for any number of rows,
\* groups, threads, crashes and aborts.
THEOREM Refinement == Spec => HonoursContract
<1>1. Init => Contract!Init
  BY DEF Init, Contract!Init, StageOf, Delivered
<1>2. IInv /\ [Next]_vars => [Contract!Next]_(Contract!vars)
  BY StepSimulated
<1> QED
  BY <1>1, <1>2, Invariance, PTL DEF Spec, HonoursContract, Contract!Spec
=============================================================================
