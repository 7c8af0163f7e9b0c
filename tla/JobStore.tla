------------------------------ MODULE JobStore ------------------------------
(***************************************************************************)
(* The three tables behind the durable job queue (background_worker_status,*)
(* background_jobs and background_job_executions), the two session         *)
(* advisory locks that guard them, and every transaction the Go worker and *)
(* the execution server run on them.  Each transaction is one action: but  *)
(* for submissions they take the single worker-status row FOR UPDATE,      *)
(* which orders them.                                                      *)
(*                                                                         *)
(* A worker run and an execution server are used once: runner.go opens a   *)
(* fresh Store per run and New draws a fresh instance id, so a restart is  *)
(* another member of Workers or Executors.  The owner UUID and the backend *)
(* pid of a lease are both drawn per Acquire and stand here as the run.    *)
(* Heartbeat times are reduced to fresh / older than 20 seconds.           *)
(***************************************************************************)
EXTENDS Naturals, FiniteSets

CONSTANTS Jobs,            \* queue_position of every job that may be inserted
          Workers,         \* worker runs
          Executors,       \* execution server instances
          MaxJobAttempts,  \* attempts a job may use
          MaxPendingJobs,  \* queue cap applied to submissions
          None             \* SQL NULL

ASSUME JobsAssumption == Jobs \subseteq Nat
ASSUME BoundsAssumption == MaxJobAttempts \in Nat \ {0} /\ MaxPendingJobs \in Nat
ASSUME NoneAssumption == None \notin Workers \cup Executors

VARIABLES worker,    \* the background_worker_status row
          lock,      \* run whose session holds the worker advisory lock
          lease,     \* what each worker run believes about its lease
          guard,     \* instance whose session holds the execution advisory lock
          jobs,      \* background_jobs
          receipts   \* background_job_executions, by job and attempt

dbVars == <<worker, lock, lease, guard, jobs, receipts>>

Attempts == 1 .. MaxJobAttempts

FinalStates == {"succeeded", "failed", "delivery_unknown"}

TerminalStates == FinalStates \cup {"interrupted"}

ActiveStates == {"accepted", "running"}

Job(state, owner, attempt) ==
    [state |-> state, owner |-> owner, attempt |-> attempt]

Receipt(state, instance, generation, applied) ==
    [state |-> state, instance |-> instance,
     generation |-> generation, applied |-> applied]

NoReceipt == Receipt("none", None, 0, FALSE)

WorkerRows == [owner : Workers \cup {None}, generation : Nat,
               status : {"running", "stopped"}, fresh : BOOLEAN]

Leases == [phase : {"idle", "locked", "held", "lost", "released"}, generation : Nat]

JobRows == [state : {"absent", "queued", "running", "deleted"} \cup TerminalStates,
            owner : Nat, attempt : 0 .. MaxJobAttempts]

ReceiptRows == [state : {"none"} \cup ActiveStates \cup TerminalStates,
                instance : Executors \cup {None}, generation : Nat, applied : BOOLEAN]

TypeOK ==
    /\ worker \in WorkerRows
    /\ lock \in Workers \cup {None}
    /\ lease \in [Workers -> Leases]
    /\ guard \in Executors \cup {None}
    /\ jobs \in [Jobs -> JobRows]
    /\ receipts \in [Jobs -> [Attempts -> ReceiptRows]]

Init ==
    /\ worker = [owner |-> None, generation |-> 0, status |-> "stopped", fresh |-> FALSE]
    /\ lock = None
    /\ lease = [w \in Workers |-> [phase |-> "idle", generation |-> 0]]
    /\ guard = None
    /\ jobs = [j \in Jobs |-> Job("absent", 0, 0)]
    /\ receipts = [j \in Jobs |-> [a \in Attempts |-> NoReceipt]]

-----------------------------------------------------------------------------
(* The worker lease.                                                       *)

\* lockCurrentWorker: some run holds the row, its heartbeat and its lock.
LeaseLive ==
    /\ worker.status = "running"
    /\ worker.owner # None
    /\ worker.fresh
    /\ lock = worker.owner

\* checkWorkerLeaseTx: the live lease is the one of that generation.
LeaseOf(generation) == LeaseLive /\ worker.generation = generation

\* Variant: the run trusts its own phase instead of the row and the lock.
LeaseCurrentLocally(w) == lease[w].phase = "held"

\* lockCurrentLease: the live lease is the one this run was given.  A run
\* that lost its lease locally may still be inside a transaction that read
\* its identity earlier, so the run's own phase is not consulted.
LeaseCurrent(w) == LeaseOf(lease[w].generation) /\ worker.owner = w

\* Acquire, first half: pg_try_advisory_lock on a new session.
TryLock(w) ==
    /\ lease[w].phase = "idle"
    /\ lock = None
    /\ lock' = w
    /\ lease' = [lease EXCEPT ![w].phase = "locked"]
    /\ UNCHANGED <<worker, guard, jobs, receipts>>

OwnedBy(w) == [owner |-> w, generation |-> worker.generation + 1,
               status |-> "running", fresh |-> TRUE]

\* Acquire, second half: updateOwner commits on the locked session.
UpdateOwner(w) ==
    /\ lease[w].phase = "locked"
    /\ lock = w
    /\ worker' = OwnedBy(w)
    /\ lease' = [lease EXCEPT ![w] = [phase |-> "held", generation |-> worker.generation + 1]]
    /\ UNCHANGED <<lock, guard, jobs, receipts>>

\* Acquire fails after the lock: the commit may or may not have been applied,
\* and the session is closed either way.
UpdateOwnerFails(w) ==
    /\ lease[w].phase = "locked"
    /\ worker' \in {worker} \cup (IF lock = w THEN {OwnedBy(w)} ELSE {})
    /\ lease' = [lease EXCEPT ![w].phase = "lost"]
    /\ UNCHANGED <<lock, guard, jobs, receipts>>

\* The row that HeartbeatWithFailure updates on the lease session.
HeartbeatRow(w) ==
    /\ worker.owner = w
    /\ worker.generation = lease[w].generation
    /\ worker.status = "running"
    /\ lock = w

\* HeartbeatWithFailure succeeds.
Heartbeat(w) ==
    /\ lease[w].phase = "held"
    /\ HeartbeatRow(w)
    /\ worker' = [worker EXCEPT !.fresh = TRUE]
    /\ UNCHANGED <<lock, lease, guard, jobs, receipts>>

\* HeartbeatWithFailure fails at begin, update or commit: the lease is given
\* up locally, the row keeps its owner, and a failed commit may be applied.
HeartbeatFails(w) ==
    /\ lease[w].phase = "held"
    /\ worker' \in {worker} \cup
                   (IF HeartbeatRow(w) THEN {[worker EXCEPT !.fresh = TRUE]} ELSE {})
    /\ lease' = [lease EXCEPT ![w].phase = "lost"]
    /\ UNCHANGED <<lock, guard, jobs, receipts>>

\* Release: the row is cleared on the lease session if it is still this
\* run's; on an error the session is closed with the row left as it is.
Release(w) ==
    /\ lease[w].phase = "held"
    /\ lease' = [lease EXCEPT ![w].phase = "released"]
    /\ worker' \in {worker} \cup
           (IF lock = w /\ worker.owner = w /\ worker.generation = lease[w].generation
            THEN {[worker EXCEPT !.owner = None, !.status = "stopped", !.fresh = FALSE]}
            ELSE {})
    /\ UNCHANGED <<lock, guard, jobs, receipts>>

\* A session that was closed, crashed or was dropped by the server gives its
\* advisory lock back.  The server may notice long after the client did, and
\* it may drop the session of a run that still believes in its lease.
SessionEnds(w) ==
    /\ lock = w
    /\ lock' = None
    /\ UNCHANGED <<worker, lease, guard, jobs, receipts>>

\* Twenty seconds pass without a heartbeat.
HeartbeatAges ==
    /\ worker.fresh
    /\ worker' = [worker EXCEPT !.fresh = FALSE]
    /\ UNCHANGED <<lock, lease, guard, jobs, receipts>>

-----------------------------------------------------------------------------
(* The job queue, as the worker sees it.                                   *)

InState(S) == {j \in Jobs : jobs[j].state \in S}

\* enqueue, the insert a web submission or scheduler dispatch ends in.
Enqueue(j) ==
    /\ jobs[j].state = "absent"
    /\ Cardinality(InState({"queued", "interrupted"})) < MaxPendingJobs
    /\ jobs' = [jobs EXCEPT ![j] = Job("queued", 0, 0)]
    /\ UNCHANGED <<worker, lock, lease, guard, receipts>>

\* The rows once Claim has run the Serbian-retry and Viber admissions, which
\* insert at most one job each, outside the queue cap.
Admit(admitted) ==
    [j \in Jobs |-> IF j \in admitted THEN Job("queued", 0, 0) ELSE jobs[j]]

Admissible == {A \in SUBSET InState({"absent"}) : Cardinality(A) <= 2}

\* Variant: an interrupted job may be claimed however often it was tried.
ClaimableForever(row) == row.state \in {"queued", "interrupted"}

Claimable(row) ==
    \/ row.state = "queued"
    \/ row.state = "interrupted" /\ row.attempt < MaxJobAttempts

\* Variant: only the jobs of the current generation count as running.
NoneRunningHere == {j \in InState({"running"}) : jobs[j].owner = worker.generation} = {}

\* Claim's first query.
NoneRunning == InState({"running"}) = {}

\* Claim: nothing is running, and the lowest claimable queue position, the
\* jobs admitted by this transaction included, starts its next attempt.
Claim(w, j) ==
    /\ LeaseCurrent(w)
    /\ NoneRunning
    /\ \E admitted \in Admissible :
          LET rows == Admit(admitted) IN
          /\ Claimable(rows[j])
          /\ \A k \in Jobs : Claimable(rows[k]) => j <= k
          /\ jobs' = [rows EXCEPT ![j] = Job("running", lease[w].generation, rows[j].attempt + 1)]
    /\ UNCHANGED <<worker, lock, lease, guard, receipts>>

\* Variant: a job that was never accepted is finished without a receipt.
insertNothing(row, state, generation) == row

\* insertEventReceipt: ON CONFLICT DO NOTHING, under an instance id of its own.
insertEventReceipt(row, state, generation) ==
    IF row = NoReceipt THEN Receipt(state, None, generation, FALSE) ELSE row

\* Variant: the row's state is not looked at.
FinishableAgain(w, j, attempt, recovered) ==
    /\ jobs[j].attempt = attempt
    /\ recovered \/ jobs[j].owner = lease[w].generation

\* The check finish makes of the row it read, for the attempt the caller holds.
Finishable(w, j, attempt, recovered) ==
    /\ jobs[j].attempt = attempt
    /\ \/ jobs[j].state = "running"
       \/ recovered /\ jobs[j].state = "interrupted"
    /\ recovered \/ jobs[j].owner = lease[w].generation

\* finish: Finish, and FinishRecovered when recovered is TRUE.
finish(w, j, attempt, state, recovered) ==
    /\ LeaseCurrent(w)
    /\ Finishable(w, j, attempt, recovered)
    /\ jobs' = [jobs EXCEPT ![j] = Job(state, lease[w].generation, attempt)]
    /\ receipts' = IF state = "interrupted" THEN receipts
                   ELSE [receipts EXCEPT ![j][attempt] =
                           insertEventReceipt(@, state, lease[w].generation)]
    /\ UNCHANGED <<worker, lock, lease, guard>>

\* Variant: off by one at the attempt limit.
ExhaustedLate == {j \in InState({"interrupted"}) : jobs[j].attempt > MaxJobAttempts}

Exhausted ==
    {j \in InState({"interrupted"}) : jobs[j].attempt >= MaxJobAttempts}

\* FailExhaustedInterrupted: a batch, lowest queue positions first.
FailExhaustedInterrupted(w) ==
    /\ LeaseCurrent(w)
    /\ \E batch \in SUBSET Exhausted :
          /\ batch # {}
          /\ \A j \in batch, k \in Exhausted : k < j => k \in batch
          /\ jobs' = [j \in Jobs |-> IF j \in batch
                                     THEN Job("failed", lease[w].generation, jobs[j].attempt)
                                     ELSE jobs[j]]
          /\ receipts' = [j \in Jobs |-> [a \in Attempts |->
                            IF j \in batch /\ a = jobs[j].attempt
                            THEN insertEventReceipt(receipts[j][a], "failed", lease[w].generation)
                            ELSE receipts[j][a]]]
    /\ UNCHANGED <<worker, lock, lease, guard>>

\* Variant: retention without the NOT EXISTS.
PrunableEarly(j) == jobs[j].state \in {"succeeded", "failed"}

\* Rows past retention whose completion event has been applied.
Prunable(j) ==
    /\ jobs[j].state \in {"succeeded", "failed"}
    /\ ~ \E a \in Attempts : /\ a = jobs[j].attempt
                             /\ receipts[j][a] # NoReceipt
                             /\ ~ receipts[j][a].applied

\* Prune: the delete cascades to the job's receipts.
Prune(w) ==
    /\ LeaseCurrent(w)
    /\ \E batch \in SUBSET {j \in Jobs : Prunable(j)} :
          /\ batch # {}
          /\ jobs' = [j \in Jobs |-> IF j \in batch THEN Job("deleted", 0, 0) ELSE jobs[j]]
          /\ receipts' = [j \in Jobs |-> IF j \in batch THEN [a \in Attempts |-> NoReceipt]
                                         ELSE receipts[j]]
    /\ UNCHANGED <<worker, lock, lease, guard>>

-----------------------------------------------------------------------------
(* The execution server's transactions.                                    *)

\* open: pg_try_advisory_lock on the guard session.
TakeGuard(e) ==
    /\ guard = None
    /\ guard' = e
    /\ UNCHANGED <<worker, lock, lease, jobs, receipts>>

\* The guard session ends: Close, a crash, or a connection the server drops.
GuardEnds(e) ==
    /\ guard = e
    /\ guard' = None
    /\ UNCHANGED <<worker, lock, lease, jobs, receipts>>

\* The job row an envelope of that generation and attempt must name.
CurrentAttempt(j, attempt, generation) ==
    /\ jobs[j].state = "running"
    /\ jobs[j].owner = generation
    /\ jobs[j].attempt = attempt

\* acceptAttempt inserts the receipt of a new attempt.
acceptAttempt(e, j, attempt, generation) ==
    /\ receipts[j][attempt] = NoReceipt
    /\ LeaseOf(generation)
    /\ CurrentAttempt(j, attempt, generation)
    /\ guard = e
    /\ receipts' = [receipts EXCEPT ![j][attempt] = Receipt("accepted", e, generation, FALSE)]
    /\ UNCHANGED <<worker, lock, lease, guard, jobs>>

\* Variant: the receipt's state is not looked at.
fenceAnyReceipt(e, j, attempt) ==
    /\ guard = e
    /\ LeaseOf(receipts[j][attempt].generation)
    /\ CurrentAttempt(j, attempt, receipts[j][attempt].generation)
    /\ receipts[j][attempt].instance = e

\* fenceTx without its deadline: guard, lease, job row and receipt row.
fenceTx(e, j, attempt) ==
    /\ guard = e
    /\ LeaseOf(receipts[j][attempt].generation)
    /\ CurrentAttempt(j, attempt, receipts[j][attempt].generation)
    /\ receipts[j][attempt].instance = e
    /\ receipts[j][attempt].state \in ActiveStates

\* setRunning: fenced, and a no-op on a receipt that is already running.
setRunning(e, j, attempt) ==
    /\ fenceTx(e, j, attempt)
    /\ receipts' = [receipts EXCEPT ![j][attempt].state = "running"]
    /\ UNCHANGED <<worker, lock, lease, guard, jobs>>

\* The terminal write shared by finish (lifecycle.go) and markCanceled.
writeReceipt(e, j, attempt, state) ==
    /\ fenceTx(e, j, attempt)
    /\ receipts' = [receipts EXCEPT ![j][attempt].state = state]
    /\ UNCHANGED <<worker, lock, lease, guard, jobs>>

\* Variant: the job's state always replaces the receipt's.
AppliedOver(row, state) == [row EXCEPT !.state = state, !.applied = TRUE]

\* What Finalize leaves in the receipt of a finished job: one that is still
\* active takes the job's state, and it is marked applied.
Applied(row, state) ==
    [row EXCEPT !.state = IF @ \in ActiveStates THEN state ELSE @,
                !.applied = TRUE]

\* Finalize, the transaction that applies a finished job's completion event.
\* The handler in front of it answers 404 when there is no receipt.
Finalize(e, j, attempt) ==
    /\ LeaseLive
    /\ guard = e
    /\ jobs[j].attempt = attempt
    /\ jobs[j].state \in FinalStates
    /\ receipts[j][attempt] # NoReceipt
    /\ receipts' = [receipts EXCEPT ![j][attempt] = Applied(@, jobs[j].state)]
    /\ UNCHANGED <<worker, lock, lease, guard, jobs>>

-----------------------------------------------------------------------------
(* The most general client: any run and any server may issue any           *)
(* transaction at any time, in any order, with any outcome.                *)

LeaseStep(w) ==
    \/ TryLock(w)
    \/ UpdateOwner(w)
    \/ UpdateOwnerFails(w)
    \/ Heartbeat(w)
    \/ HeartbeatFails(w)
    \/ Release(w)
    \/ SessionEnds(w)

WorkerStep(w) ==
    \/ \E j \in Jobs : Claim(w, j)
    \/ \E j \in Jobs, a \in Attempts, s \in TerminalStates, r \in BOOLEAN :
          finish(w, j, a, s, r)
    \/ FailExhaustedInterrupted(w)
    \/ Prune(w)

ExecutorStep(e) ==
    \/ TakeGuard(e)
    \/ GuardEnds(e)
    \/ \E j \in Jobs, a \in Attempts :
          \/ acceptAttempt(e, j, a, jobs[j].owner)
          \/ setRunning(e, j, a)
          \/ \E s \in TerminalStates : writeReceipt(e, j, a, s)
          \/ Finalize(e, j, a)

Next ==
    \/ \E j \in Jobs : Enqueue(j)
    \/ \E w \in Workers : LeaseStep(w) \/ WorkerStep(w)
    \/ \E e \in Executors : ExecutorStep(e)
    \/ HeartbeatAges

Spec == Init /\ [][Next]_dbVars

-----------------------------------------------------------------------------

\* The queue is strictly serial: whatever runs, loses its lease, is replaced
\* or crashes, no two rows of background_jobs are ever both running.
AtMostOneRunning ==
    \A j, k \in Jobs : jobs[j].state = "running" /\ jobs[k].state = "running" => j = k

\* TerminalJobsNeedingEvents finds finished jobs by joining their receipt:
\* every finished job has one for its last attempt, also when the server never
\* accepted the attempt and when recovery gave the job up.
FinishedJobHasReceipt ==
    \A j \in Jobs : jobs[j].state \in FinalStates =>
        /\ jobs[j].attempt \in Attempts
        /\ receipts[j][jobs[j].attempt] # NoReceipt

\* A worker that was replaced never overwrites what its successor recorded:
\* the lease generation stamped on a job row only grows until the row goes.
OwnerNeverGoesBack ==
    [][\A j \in Jobs : jobs'[j].state # "deleted" => jobs'[j].owner >= jobs[j].owner]_dbVars

\* Retention never removes a finished job whose completion event was not
\* applied yet (Prune's NOT EXISTS passes when the receipt is missing).
NoEventPruned ==
    [][\A j \in Jobs : jobs[j].state \in FinalStates /\ jobs'[j].state = "deleted"
                          => receipts[j][jobs[j].attempt].applied]_dbVars

\* The receipt of an attempt the queue has moved past is frozen, and a
\* terminal receipt keeps its state: a late server or a late finalisation
\* cannot rewrite the history recovery was decided on.
ReceiptHistoryFrozen ==
    [][\A j \in Jobs, a \in Attempts : jobs'[j].state # "deleted" =>
          /\ a # jobs[j].attempt => receipts'[j][a] = receipts[j][a]
          /\ receipts[j][a].state \in TerminalStates
                => receipts'[j][a].state = receipts[j][a].state]_dbVars

-----------------------------------------------------------------------------

\* The part of background_jobs that the queue's users see.
UserView == [j \in Jobs |-> [state |-> jobs[j].state, attempt |-> jobs[j].attempt]]

Q == INSTANCE JobQueue WITH queue <- UserView

\* The transactions of the worker and the server implement the queue that
\* JobQueue promises, whatever order and outcome they have.
ImplementsJobQueue == Q!Spec

=============================================================================
