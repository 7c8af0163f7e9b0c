--------------------------- MODULE JobStoreProofs ---------------------------
(***************************************************************************)
(* Proofs, for any number of jobs, attempts, worker runs and servers, that *)
(* the transactions of JobStore keep the queue serial, keep the completion *)
(* events reachable, fence replaced workers, and implement JobQueue.       *)
(***************************************************************************)
EXTENDS JobStore, TLAPS

\* Attempts are counted when they start: a job has used none, under no lease,
\* before its first claim, and at least one afterwards.
AttemptCounted ==
    \A j \in Jobs :
        /\ jobs[j].state \in {"absent", "queued"} => jobs[j].attempt = 0 /\ jobs[j].owner = 0
        /\ jobs[j].state \in {"running"} \cup TerminalStates => jobs[j].attempt \in Attempts

\* No job carries the mark of a lease that was not handed out yet.
OwnerHandedOut == \A j \in Jobs : jobs[j].owner <= worker.generation

\* The inductive invariant.
IInv ==
    /\ TypeOK
    /\ AtMostOneRunning
    /\ FinishedJobHasReceipt
    /\ AttemptCounted
    /\ OwnerHandedOut

-----------------------------------------------------------------------------

\* Init establishes the inductive invariant: no row exists yet.
LEMMA InitIInv == Init => IInv
  BY BoundsAssumption, NoneAssumption
  DEF Init, IInv, TypeOK, AtMostOneRunning, FinishedJobHasReceipt, AttemptCounted,
      OwnerHandedOut, WorkerRows, Leases, JobRows, ReceiptRows, Job, Receipt, NoReceipt, Attempts, TerminalStates, FinalStates

\* What a heartbeat, in time or late, leaves in the worker row.
LEMMA HeartbeatRowsTyped ==
  ASSUME NEW row \in WorkerRows, NEW b \in BOOLEAN
  PROVE  /\ [row EXCEPT !.fresh = b] \in WorkerRows
         /\ [row EXCEPT !.fresh = b].generation = row.generation
<1>1. [row EXCEPT !.fresh = b] \in WorkerRows
  BY DEF WorkerRows
<1>2. [row EXCEPT !.fresh = b].generation = row.generation
  BY DEF WorkerRows
<1> QED
  BY <1>1, <1>2

\* What Release leaves in the worker row.
LEMMA ReleasedRowsTyped ==
  ASSUME NEW row \in WorkerRows
  PROVE  LET gone == [row EXCEPT !.owner = None, !.status = "stopped", !.fresh = FALSE]
         IN  gone \in WorkerRows /\ gone.generation = row.generation
<1> DEFINE gone == [row EXCEPT !.owner = None, !.status = "stopped", !.fresh = FALSE]
<1>1. gone \in WorkerRows
  BY DEF WorkerRows
<1>2. gone.generation = row.generation
  BY DEF WorkerRows
<1> QED
  BY <1>1, <1>2

\* The lease transactions only touch the worker row, the lock and the runs'
\* own view, and never lower the generation.
LEMMA LeaseKeepsIInv ==
  ASSUME IInv, NEW w \in Workers, LeaseStep(w)
  PROVE  IInv' /\ UNCHANGED <<guard, jobs, receipts>>
<1>1. UNCHANGED <<guard, jobs, receipts>>
  BY DEF LeaseStep, TryLock, UpdateOwner, UpdateOwnerFails, Heartbeat, HeartbeatFails,
         Release, SessionEnds
<1>2. worker' \in WorkerRows /\ worker'.generation >= worker.generation
  <2>1. worker \in WorkerRows /\ worker.generation \in Nat
    BY DEF IInv, TypeOK, WorkerRows
  <2>2. OwnedBy(w) \in WorkerRows /\ OwnedBy(w).generation >= worker.generation
    BY <2>1 DEF OwnedBy, WorkerRows
  <2>3. \/ worker' = worker
        \/ worker' = OwnedBy(w)
        \/ worker' = [worker EXCEPT !.fresh = TRUE]
        \/ worker' = [worker EXCEPT !.owner = None, !.status = "stopped", !.fresh = FALSE]
    BY DEF LeaseStep, TryLock, UpdateOwner, UpdateOwnerFails, Heartbeat,
           HeartbeatFails, Release, SessionEnds
  <2>4. CASE worker' = [worker EXCEPT !.fresh = TRUE]
    <3>1. worker' \in WorkerRows /\ worker'.generation = worker.generation
      BY <2>1, <2>4, HeartbeatRowsTyped, Zenon
    <3> QED
      BY <2>1, <3>1
  <2>5. CASE worker' = [worker EXCEPT !.owner = None, !.status = "stopped", !.fresh = FALSE]
    <3>1. worker' \in WorkerRows /\ worker'.generation = worker.generation
      BY <2>1, <2>5, ReleasedRowsTyped, Zenon
    <3> QED
      BY <2>1, <3>1
  <2> QED
    BY <2>1, <2>2, <2>3, <2>4, <2>5
<1>3. lock' \in Workers \cup {None}
  BY DEF IInv, TypeOK, LeaseStep, TryLock, UpdateOwner, UpdateOwnerFails, Heartbeat,
         HeartbeatFails, Release, SessionEnds
<1>4. lease' \in [Workers -> Leases]
  BY DEF IInv, TypeOK, WorkerRows, Leases, LeaseStep, TryLock, UpdateOwner, UpdateOwnerFails, Heartbeat,
         HeartbeatFails, Release, SessionEnds
<1>5. TypeOK'
  BY <1>1, <1>2, <1>3, <1>4 DEF IInv, TypeOK
<1>6. OwnerHandedOut'
  BY <1>1, <1>2 DEF IInv, TypeOK, WorkerRows, JobRows, OwnerHandedOut
<1>7. AtMostOneRunning' /\ FinishedJobHasReceipt' /\ AttemptCounted'
  BY <1>1 DEF IInv, AtMostOneRunning, FinishedJobHasReceipt, AttemptCounted
<1> QED
  BY <1>1, <1>5, <1>6, <1>7 DEF IInv

\* A new job has used no attempt and has no owner.
LEMMA EnqueueKeepsIInv ==
  ASSUME IInv, NEW j \in Jobs, Enqueue(j)
  PROVE  IInv'
<1> USE DEF Enqueue, Job
<1>1. TypeOK'
  BY BoundsAssumption DEF IInv, TypeOK, JobRows
<1>2. AtMostOneRunning'
  BY DEF IInv, TypeOK, AtMostOneRunning
<1>3. FinishedJobHasReceipt'
  BY DEF IInv, TypeOK, FinishedJobHasReceipt, FinalStates
<1>4. AttemptCounted'
  BY DEF IInv, TypeOK, AttemptCounted, TerminalStates, FinalStates
<1>5. OwnerHandedOut'
  BY DEF IInv, TypeOK, WorkerRows, OwnerHandedOut
<1> QED
  BY <1>1, <1>2, <1>3, <1>4, <1>5 DEF IInv

\* Claim starts one job in a queue where none runs, for an attempt it may
\* still use.
LEMMA ClaimKeepsIInv ==
  ASSUME IInv, NEW w \in Workers, NEW j \in Jobs, Claim(w, j)
  PROVE  IInv'
<1>1. PICK admitted \in Admissible :
         /\ Claimable(Admit(admitted)[j])
         /\ jobs' = [Admit(admitted) EXCEPT
                       ![j] = Job("running", lease[w].generation, Admit(admitted)[j].attempt + 1)]
  BY DEF Claim
<1> DEFINE rows == Admit(admitted)
<1>2. UNCHANGED <<worker, lock, lease, guard, receipts>>
  BY DEF Claim
<1>3. lease[w].generation = worker.generation /\ worker.generation \in Nat
  BY DEF IInv, TypeOK, WorkerRows, Claim, LeaseCurrent, LeaseOf
<1>4. \A k \in Jobs : jobs[k].state # "running"
  BY DEF Claim, NoneRunning, InState
<1>5. \A k \in Jobs : rows[k] = jobs[k] \/ rows[k] = Job("queued", 0, 0)
  BY DEF Admit
<1>6. rows \in [Jobs -> JobRows]
  BY BoundsAssumption DEF IInv, TypeOK, JobRows, Admit, Job
<1>7. rows[j].attempt + 1 \in Attempts
  <2>1. rows[j].attempt \in 0 .. MaxJobAttempts
    BY <1>6 DEF JobRows
  <2>2. rows[j].state = "queued" => rows[j].attempt = 0
    BY <1>5 DEF IInv, AttemptCounted, Job
  <2>3. rows[j].attempt < MaxJobAttempts
    BY <1>1, <2>1, <2>2, BoundsAssumption DEF Claimable
  <2> QED
    BY <2>1, <2>3, BoundsAssumption DEF Attempts
<1>8. /\ \A k \in Jobs \ {j} : jobs'[k] = rows[k]
      /\ jobs'[j] = Job("running", worker.generation, rows[j].attempt + 1)
  BY <1>1, <1>3, <1>6
<1>9. TypeOK'
  <2>1. Job("running", worker.generation, rows[j].attempt + 1) \in JobRows
    BY <1>3, <1>7, BoundsAssumption DEF Job, JobRows, Attempts
  <2>2. jobs' \in [Jobs -> JobRows]
    BY <1>1, <1>3, <1>6, <2>1
  <2> QED
    BY <1>2, <2>2 DEF IInv, TypeOK
<1>10. AtMostOneRunning'
  <2>1. \A k \in Jobs \ {j} : jobs'[k].state # "running"
    BY <1>4, <1>5, <1>8 DEF Job
  <2> QED
    BY <2>1 DEF AtMostOneRunning
<1>11. FinishedJobHasReceipt'
  <2>1. \A k \in Jobs : jobs'[k].state \in FinalStates => jobs'[k] = jobs[k]
    BY <1>5, <1>8 DEF Job, FinalStates
  <2> QED
    BY <1>2, <2>1 DEF IInv, FinishedJobHasReceipt
<1>12. AttemptCounted'
  BY <1>5, <1>7, <1>8 DEF IInv, AttemptCounted, Job, TerminalStates, FinalStates
<1>13. OwnerHandedOut'
  BY <1>2, <1>3, <1>5, <1>8 DEF IInv, OwnerHandedOut, Job
<1> QED
  BY <1>9, <1>10, <1>11, <1>12, <1>13 DEF IInv

\* An event receipt is inserted where there is none, and never replaced.
LEMMA EventReceipts ==
  ASSUME NEW row \in ReceiptRows, NEW state \in FinalStates, NEW generation \in Nat
  PROVE  /\ insertEventReceipt(row, state, generation) \in ReceiptRows
         /\ insertEventReceipt(row, state, generation) # NoReceipt
  BY DEF insertEventReceipt, Receipt, NoReceipt, ReceiptRows, FinalStates, TerminalStates

\* finish ends or recovers one attempt and, unless the job is to be retried,
\* leaves a receipt to find it by.
LEMMA FinishKeepsIInv ==
  ASSUME IInv, NEW w \in Workers, NEW j \in Jobs, NEW a \in Attempts,
         NEW s \in TerminalStates, NEW r \in BOOLEAN, finish(w, j, a, s, r)
  PROVE  IInv'
<1>1. UNCHANGED <<worker, lock, lease, guard>>
  BY DEF finish
<1>2. lease[w].generation = worker.generation /\ worker.generation \in Nat
  BY DEF IInv, TypeOK, WorkerRows, finish, LeaseCurrent, LeaseOf
<1>3. jobs' = [jobs EXCEPT ![j] = Job(s, worker.generation, a)]
  BY <1>2 DEF finish
<1>4. jobs[j].state \in {"running", "interrupted"} /\ jobs[j].attempt = a
  BY DEF finish, Finishable
<1>5. /\ \A k \in Jobs \ {j} : jobs'[k] = jobs[k]
      /\ jobs'[j] = Job(s, worker.generation, a)
  BY <1>3 DEF IInv, TypeOK
<1>6. receipts' \in [Jobs -> [Attempts -> ReceiptRows]]
  <2>1. CASE s = "interrupted"
    BY <2>1 DEF finish, IInv, TypeOK
  <2>2. CASE s # "interrupted"
    <3>1. receipts' = [receipts EXCEPT ![j][a] = insertEventReceipt(@, s, worker.generation)]
      BY <1>2, <2>2 DEF finish
    <3>2. insertEventReceipt(receipts[j][a], s, worker.generation) \in ReceiptRows
      BY <1>2, <2>2, EventReceipts DEF IInv, TypeOK, TerminalStates
    <3> QED
      BY <3>1, <3>2 DEF IInv, TypeOK
  <2> QED
    BY <2>1, <2>2
<1>7. /\ \A k \in Jobs \ {j} : receipts'[k] = receipts[k]
      /\ s # "interrupted" => receipts'[j][a] # NoReceipt
  <2>1. CASE s = "interrupted"
    BY <2>1 DEF finish
  <2>2. CASE s # "interrupted"
    <3>1. receipts' = [receipts EXCEPT ![j][a] = insertEventReceipt(@, s, worker.generation)]
      BY <1>2, <2>2 DEF finish
    <3>2. insertEventReceipt(receipts[j][a], s, worker.generation) # NoReceipt
      BY <1>2, <2>2, EventReceipts DEF IInv, TypeOK, TerminalStates
    <3> QED
      BY <3>1, <3>2 DEF IInv, TypeOK
  <2> QED
    BY <2>1, <2>2
<1>8. TypeOK'
  <2>1. Job(s, worker.generation, a) \in JobRows
    BY <1>2, BoundsAssumption DEF Job, JobRows, Attempts
  <2> QED
    BY <1>1, <1>3, <1>6, <2>1 DEF IInv, TypeOK
<1>9. AtMostOneRunning'
  BY <1>5 DEF IInv, AtMostOneRunning, Job, TerminalStates, FinalStates
<1>10. FinishedJobHasReceipt'
  BY <1>5, <1>7 DEF IInv, FinishedJobHasReceipt, Job, TerminalStates, FinalStates
<1>11. AttemptCounted'
  BY <1>5 DEF IInv, AttemptCounted, Job, TerminalStates, FinalStates
<1>12. OwnerHandedOut'
  BY <1>1, <1>2, <1>5 DEF IInv, OwnerHandedOut, Job
<1> QED
  BY <1>8, <1>9, <1>10, <1>11, <1>12 DEF IInv

\* FailExhaustedInterrupted leaves a receipt for every job it gives up.
LEMMA FailExhaustedKeepsIInv ==
  ASSUME IInv, NEW w \in Workers, FailExhaustedInterrupted(w)
  PROVE  IInv'
<1>1. UNCHANGED <<worker, lock, lease, guard>>
  BY DEF FailExhaustedInterrupted
<1>2. lease[w].generation = worker.generation /\ worker.generation \in Nat
  BY DEF IInv, TypeOK, WorkerRows, FailExhaustedInterrupted, LeaseCurrent, LeaseOf
<1>3. PICK batch \in SUBSET Exhausted :
        /\ jobs' = [j \in Jobs |-> IF j \in batch
                                   THEN Job("failed", lease[w].generation, jobs[j].attempt)
                                   ELSE jobs[j]]
        /\ receipts' = [j \in Jobs |-> [a \in Attempts |->
                          IF j \in batch /\ a = jobs[j].attempt
                          THEN insertEventReceipt(receipts[j][a], "failed", lease[w].generation)
                          ELSE receipts[j][a]]]
  BY DEF FailExhaustedInterrupted
<1>4. \A j \in batch : /\ j \in Jobs
                       /\ jobs[j].state = "interrupted"
                       /\ jobs[j].attempt \in Attempts
  BY DEF IInv, Exhausted, InState, AttemptCounted, TerminalStates
<1>5. \A j \in Jobs, a \in Attempts :
        /\ insertEventReceipt(receipts[j][a], "failed", lease[w].generation) \in ReceiptRows
        /\ insertEventReceipt(receipts[j][a], "failed", lease[w].generation) # NoReceipt
  BY <1>2, EventReceipts DEF IInv, TypeOK, FinalStates
<1>6. TypeOK'
  <2>1. \A j \in Jobs : Job("failed", lease[w].generation, jobs[j].attempt) \in JobRows
    BY <1>2 DEF IInv, TypeOK, Job, JobRows, TerminalStates, FinalStates
  <2>2. jobs' \in [Jobs -> JobRows]
    BY <1>3, <2>1 DEF IInv, TypeOK
  <2>3. receipts' \in [Jobs -> [Attempts -> ReceiptRows]]
    BY <1>3, <1>5 DEF IInv, TypeOK
  <2> QED
    BY <1>1, <2>2, <2>3 DEF IInv, TypeOK
<1>7. AtMostOneRunning'
  BY <1>3 DEF IInv, AtMostOneRunning, Job
<1>8. FinishedJobHasReceipt'
  <2> SUFFICES ASSUME NEW j \in Jobs, jobs'[j].state \in FinalStates
               PROVE  jobs'[j].attempt \in Attempts /\ receipts'[j][jobs'[j].attempt] # NoReceipt
    BY DEF FinishedJobHasReceipt
  <2>1. CASE j \in batch
    BY <1>3, <1>4, <1>5, <2>1 DEF Job
  <2>2. CASE j \notin batch
    BY <1>3, <2>2 DEF IInv, FinishedJobHasReceipt
  <2> QED
    BY <2>1, <2>2
<1>9. AttemptCounted'
  BY <1>3, <1>4 DEF IInv, AttemptCounted, Job
<1>10. OwnerHandedOut'
  BY <1>1, <1>2, <1>3 DEF IInv, OwnerHandedOut, Job
<1> QED
  BY <1>6, <1>7, <1>8, <1>9, <1>10 DEF IInv

\* Prune only removes rows.
LEMMA PruneKeepsIInv ==
  ASSUME IInv, NEW w \in Workers, Prune(w)
  PROVE  IInv'
<1>1. UNCHANGED <<worker, lock, lease, guard>>
  BY DEF Prune
<1>2. PICK batch \in SUBSET {j \in Jobs : Prunable(j)} :
        /\ jobs' = [j \in Jobs |-> IF j \in batch THEN Job("deleted", 0, 0) ELSE jobs[j]]
        /\ receipts' = [j \in Jobs |-> IF j \in batch THEN [a \in Attempts |-> NoReceipt]
                                       ELSE receipts[j]]
  BY DEF Prune
<1>3. TypeOK'
  <2>1. Job("deleted", 0, 0) \in JobRows
    BY BoundsAssumption DEF Job, JobRows
  <2>2. NoReceipt \in ReceiptRows
    BY DEF NoReceipt, Receipt, ReceiptRows
  <2> QED
    BY <1>1, <1>2, <2>1, <2>2 DEF IInv, TypeOK
<1>4. AtMostOneRunning' /\ FinishedJobHasReceipt' /\ AttemptCounted'
  BY <1>2 DEF IInv, AtMostOneRunning, FinishedJobHasReceipt, AttemptCounted, Job,
              TerminalStates, FinalStates
<1>5. OwnerHandedOut'
  BY <1>1, <1>2 DEF IInv, TypeOK, WorkerRows, OwnerHandedOut, Job
<1> QED
  BY <1>3, <1>4, <1>5 DEF IInv

\* The server's transactions leave the queue alone and remove no receipt.
LEMMA ExecutorKeepsIInv ==
  ASSUME IInv, NEW e \in Executors, ExecutorStep(e)
  PROVE  IInv' /\ UNCHANGED <<worker, lock, lease, jobs>>
<1>1. UNCHANGED <<worker, lock, lease, jobs>>
  BY DEF ExecutorStep, TakeGuard, GuardEnds, acceptAttempt, setRunning, writeReceipt, Finalize
<1>2. guard' \in Executors \cup {None}
  BY DEF IInv, TypeOK, ExecutorStep, TakeGuard, GuardEnds, acceptAttempt, setRunning,
         writeReceipt, Finalize
<1>3. /\ receipts' \in [Jobs -> [Attempts -> ReceiptRows]]
      /\ \A j \in Jobs, a \in Attempts : receipts[j][a] # NoReceipt => receipts'[j][a] # NoReceipt
  <2>1. CASE UNCHANGED receipts
    BY <2>1 DEF IInv, TypeOK
  <2>2. ASSUME NEW j \in Jobs, NEW a \in Attempts, NEW row \in ReceiptRows, row # NoReceipt,
               receipts' = [receipts EXCEPT ![j][a] = row]
        PROVE  <1>3!1 /\ <1>3!2
    BY <2>2 DEF IInv, TypeOK
  <2>3. ASSUME NEW j \in Jobs, NEW a \in Attempts,
               NEW s \in {"running"} \cup TerminalStates,
               receipts' = [receipts EXCEPT ![j][a].state = s]
        PROVE  <1>3!1 /\ <1>3!2
    <3>1. receipts[j][a] \in ReceiptRows
      BY DEF IInv, TypeOK
    <3>2. [receipts[j][a] EXCEPT !.state = s] \in ReceiptRows
      BY <3>1 DEF ReceiptRows, ActiveStates, TerminalStates
    <3>3. [receipts[j][a] EXCEPT !.state = s] # NoReceipt
      BY <3>1 DEF NoReceipt, Receipt, ReceiptRows, TerminalStates, FinalStates
    <3>4. receipts' = [receipts EXCEPT ![j][a] = [receipts[j][a] EXCEPT !.state = s]]
      BY <2>3
    <3> QED
      BY <2>2, <3>2, <3>3, <3>4
  <2>4. ASSUME NEW j \in Jobs, NEW a \in Attempts, acceptAttempt(e, j, a, jobs[j].owner)
        PROVE  <1>3!1 /\ <1>3!2
    <3>1. Receipt("accepted", e, jobs[j].owner, FALSE) \in ReceiptRows
      BY DEF IInv, TypeOK, JobRows, Receipt, ReceiptRows, ActiveStates
    <3>2. Receipt("accepted", e, jobs[j].owner, FALSE) # NoReceipt
      BY DEF Receipt, NoReceipt
    <3> QED
      BY <2>2, <2>4, <3>1, <3>2 DEF acceptAttempt
  <2>5. ASSUME NEW j \in Jobs, NEW a \in Attempts, Finalize(e, j, a)
        PROVE  <1>3!1 /\ <1>3!2
    <3>1. receipts[j][a] \in ReceiptRows /\ jobs[j].state \in FinalStates
      BY <2>5 DEF IInv, TypeOK, Finalize
    <3>2. Applied(receipts[j][a], jobs[j].state) \in ReceiptRows
      BY <3>1 DEF Applied, ReceiptRows, ActiveStates, TerminalStates, FinalStates
    <3>3. Applied(receipts[j][a], jobs[j].state) # NoReceipt
      BY <3>1 DEF Applied, NoReceipt, Receipt, ReceiptRows
    <3>4. receipts' = [receipts EXCEPT ![j][a] = Applied(receipts[j][a], jobs[j].state)]
      BY <2>5 DEF Finalize
    <3> QED
      BY <2>2, <3>2, <3>3, <3>4
  <2> QED
    BY <2>1, <2>3, <2>4, <2>5 DEF ExecutorStep, TakeGuard, GuardEnds, setRunning, writeReceipt
<1>4. TypeOK'
  BY <1>1, <1>2, <1>3 DEF IInv, TypeOK
<1>5. FinishedJobHasReceipt'
  BY <1>1, <1>3 DEF IInv, FinishedJobHasReceipt
<1>6. AtMostOneRunning' /\ AttemptCounted' /\ OwnerHandedOut'
  BY <1>1 DEF IInv, AtMostOneRunning, AttemptCounted, OwnerHandedOut
<1> QED
  BY <1>1, <1>4, <1>5, <1>6 DEF IInv

\* Every step keeps the inductive invariant.
LEMMA NextIInv == IInv /\ [Next]_dbVars => IInv'
<1> SUFFICES ASSUME IInv, [Next]_dbVars
             PROVE  IInv'
  OBVIOUS
<1>1. ASSUME NEW j \in Jobs, Enqueue(j)
      PROVE  IInv'
  BY <1>1, EnqueueKeepsIInv
<1>2. ASSUME NEW w \in Workers, LeaseStep(w)
      PROVE  IInv'
  BY <1>2, LeaseKeepsIInv
<1>3. ASSUME NEW w \in Workers, WorkerStep(w)
      PROVE  IInv'
  BY <1>3, ClaimKeepsIInv, FinishKeepsIInv, FailExhaustedKeepsIInv, PruneKeepsIInv
  DEF WorkerStep
<1>4. ASSUME NEW e \in Executors, ExecutorStep(e)
      PROVE  IInv'
  BY <1>4, ExecutorKeepsIInv
<1>5. CASE HeartbeatAges
  <2>1. UNCHANGED <<lock, lease, guard, jobs, receipts>>
    BY <1>5 DEF HeartbeatAges
  <2>2. worker \in WorkerRows /\ worker' = [worker EXCEPT !.fresh = FALSE]
    BY <1>5 DEF IInv, TypeOK, HeartbeatAges
  <2>3. worker' \in WorkerRows /\ worker'.generation = worker.generation
    BY <2>2, HeartbeatRowsTyped, Zenon
  <2> QED
    BY <2>1, <2>3 DEF IInv, TypeOK, AtMostOneRunning, FinishedJobHasReceipt, AttemptCounted,
                      OwnerHandedOut
<1>6. CASE UNCHANGED dbVars
  BY <1>6 DEF dbVars, IInv, TypeOK, AtMostOneRunning, FinishedJobHasReceipt, AttemptCounted,
              OwnerHandedOut
<1> QED
  BY <1>1, <1>2, <1>3, <1>4, <1>5, <1>6 DEF Next

\* The inductive invariant holds throughout.
THEOREM Invariance == Spec => []IInv
  BY InitIInv, NextIInv, PTL DEF Spec

\* The tables keep their types, and attempts stay within MaxJobAttempts.
THEOREM TypeCorrect == Spec => []TypeOK
<1>1. IInv => TypeOK
  BY DEF IInv
<1> QED
  BY <1>1, Invariance, PTL

\* Whatever worker runs and servers do, at most one job runs: the row Claim
\* reads under the lease gates every later claim.
THEOREM QueueIsSerial == Spec => []AtMostOneRunning
<1>1. IInv => AtMostOneRunning
  BY DEF IInv
<1> QED
  BY <1>1, Invariance, PTL

\* Every finished job can be found by its receipt, so that its completion
\* event is never silently skipped.
THEOREM FinishedJobsAreFound == Spec => []FinishedJobHasReceipt
<1>1. IInv => FinishedJobHasReceipt
  BY DEF IInv
<1> QED
  BY <1>1, Invariance, PTL

-----------------------------------------------------------------------------

\* What one step can do to the rows of a job, the lease steps left out: they
\* leave both tables alone.
LEMMA RowsChange ==
  ASSUME [Next]_dbVars
  PROVE  \/ UNCHANGED <<jobs, receipts>>
         \/ \E j \in Jobs : Enqueue(j)
         \/ \E w \in Workers, j \in Jobs : Claim(w, j)
         \/ \E w \in Workers, j \in Jobs, a \in Attempts, s \in TerminalStates, r \in BOOLEAN :
               finish(w, j, a, s, r)
         \/ \E w \in Workers : FailExhaustedInterrupted(w) \/ Prune(w)
         \/ \E e \in Executors, j \in Jobs, a \in Attempts :
               \/ acceptAttempt(e, j, a, jobs[j].owner)
               \/ setRunning(e, j, a)
               \/ \E s \in TerminalStates : writeReceipt(e, j, a, s)
               \/ Finalize(e, j, a)
  <1>1. ASSUME NEW w \in Workers, LeaseStep(w)
        PROVE  UNCHANGED <<jobs, receipts>>
    BY <1>1 DEF LeaseStep, TryLock, UpdateOwner, UpdateOwnerFails, Heartbeat, HeartbeatFails,
                Release, SessionEnds
  <1>2. HeartbeatAges \/ UNCHANGED dbVars => UNCHANGED <<jobs, receipts>>
    BY DEF HeartbeatAges, dbVars
  <1>3. ASSUME NEW e \in Executors, TakeGuard(e) \/ GuardEnds(e)
        PROVE  UNCHANGED <<jobs, receipts>>
    BY <1>3 DEF TakeGuard, GuardEnds
  <1> QED
    BY <1>1, <1>2, <1>3 DEF Next, WorkerStep, ExecutorStep

\* A lease transaction writes the generation it holds, which is the newest.
LEMMA CurrentGeneration ==
  ASSUME IInv, NEW w \in Workers, LeaseCurrent(w)
  PROVE  /\ lease[w].generation \in Nat
         /\ \A j \in Jobs : jobs[j].owner \in Nat /\ jobs[j].owner <= lease[w].generation
  BY DEF IInv, TypeOK, WorkerRows, JobRows, OwnerHandedOut, LeaseCurrent, LeaseOf

\* A replaced worker never overwrites what its successor recorded.
THEOREM FencedOwners == Spec => OwnerNeverGoesBack
<1> DEFINE Forward(j) == jobs'[j].state # "deleted" => jobs'[j].owner >= jobs[j].owner
<1>1. ASSUME IInv, [Next]_dbVars
      PROVE  \A j \in Jobs : Forward(j)
  <2> SUFFICES ASSUME NEW j \in Jobs
               PROVE  Forward(j)
    OBVIOUS
  <2>0. jobs \in [Jobs -> JobRows] /\ jobs[j].owner \in Nat
    BY <1>1 DEF IInv, TypeOK, JobRows
  <2>1. CASE UNCHANGED jobs
    BY <2>0, <2>1
  <2>2. ASSUME NEW k \in Jobs, Enqueue(k)
        PROVE  Forward(j)
    BY <1>1, <2>0, <2>2 DEF IInv, AttemptCounted, Enqueue, Job
  <2>3. ASSUME NEW w \in Workers, NEW k \in Jobs, Claim(w, k)
        PROVE  Forward(j)
    <3>1. PICK admitted \in Admissible :
             jobs' = [Admit(admitted) EXCEPT
                        ![k] = Job("running", lease[w].generation, Admit(admitted)[k].attempt + 1)]
      BY <2>3 DEF Claim
    <3>2. /\ jobs[j].owner <= lease[w].generation
          /\ lease[w].generation \in Nat
      BY <1>1, <2>3, CurrentGeneration DEF Claim
    <3>3. j \in admitted => jobs[j].owner = 0
      BY <1>1 DEF Admissible, InState, IInv, AttemptCounted
    <3> QED
      BY <2>0, <3>1, <3>2, <3>3 DEF Admit, Job
  <2>4. ASSUME NEW w \in Workers, NEW k \in Jobs, NEW a \in Attempts, NEW s \in TerminalStates,
               NEW r \in BOOLEAN, finish(w, k, a, s, r)
        PROVE  Forward(j)
    <3>1. jobs[j].owner <= lease[w].generation
      BY <1>1, <2>4, CurrentGeneration DEF finish
    <3>2. jobs' = [jobs EXCEPT ![k] = Job(s, lease[w].generation, a)]
      BY <2>4 DEF finish
    <3> QED
      BY <1>1, <2>0, <2>4, <3>1, <3>2, CurrentGeneration DEF Job, finish
  <2>5. ASSUME NEW w \in Workers, FailExhaustedInterrupted(w)
        PROVE  Forward(j)
    <3>1. PICK batch \in SUBSET Exhausted :
             jobs' = [i \in Jobs |-> IF i \in batch
                                     THEN Job("failed", lease[w].generation, jobs[i].attempt)
                                     ELSE jobs[i]]
      BY <2>5 DEF FailExhaustedInterrupted
    <3> QED
      BY <1>1, <2>0, <2>5, <3>1, CurrentGeneration DEF FailExhaustedInterrupted, Job
  <2>6. ASSUME NEW w \in Workers, Prune(w)
        PROVE  Forward(j)
    BY <2>0, <2>6 DEF Prune, Job
  <2>7. ASSUME NEW e \in Executors, NEW k \in Jobs, NEW a \in Attempts,
               \/ acceptAttempt(e, k, a, jobs[k].owner)
               \/ setRunning(e, k, a)
               \/ \E s \in TerminalStates : writeReceipt(e, k, a, s)
               \/ Finalize(e, k, a)
        PROVE  UNCHANGED jobs
    BY <2>7 DEF acceptAttempt, setRunning, writeReceipt, Finalize
  <2> QED
    BY <1>1, <2>1, <2>2, <2>3, <2>4, <2>5, <2>6, <2>7, RowsChange
<1>2. IInv /\ [Next]_dbVars => [\A j \in Jobs : Forward(j)]_dbVars
  BY <1>1
<1> QED
  BY <1>2, Invariance, PTL DEF Spec, OwnerNeverGoesBack

\* Retention waits for the completion event: Prune's NOT EXISTS cannot pass
\* for want of a receipt, since a finished job always has one.
THEOREM EventsOutlivePruning == Spec => NoEventPruned
<1> DEFINE Kept(j) == jobs[j].state \in FinalStates /\ jobs'[j].state = "deleted"
                         => receipts[j][jobs[j].attempt].applied
<1>1. ASSUME IInv, [Next]_dbVars
      PROVE  \A j \in Jobs : Kept(j)
  <2> SUFFICES ASSUME NEW j \in Jobs, jobs[j].state \in FinalStates, jobs'[j].state = "deleted"
               PROVE  receipts[j][jobs[j].attempt].applied
    OBVIOUS
  <2>0. jobs \in [Jobs -> JobRows]
    BY <1>1 DEF IInv, TypeOK
  <2>1. ~ UNCHANGED jobs
    BY DEF FinalStates
  <2>2. ASSUME NEW k \in Jobs, Enqueue(k)
        PROVE  FALSE
    BY <2>0, <2>2 DEF Enqueue, Job, FinalStates
  <2>3. ASSUME NEW w \in Workers, NEW k \in Jobs, Claim(w, k)
        PROVE  FALSE
    BY <2>0, <2>3 DEF Claim, Admit, Job, FinalStates
  <2>4. ASSUME NEW w \in Workers, NEW k \in Jobs, NEW a \in Attempts, NEW s \in TerminalStates,
               NEW r \in BOOLEAN, finish(w, k, a, s, r)
        PROVE  FALSE
    BY <2>0, <2>4 DEF finish, Job, TerminalStates, FinalStates
  <2>5. ASSUME NEW w \in Workers, FailExhaustedInterrupted(w)
        PROVE  FALSE
    BY <2>0, <2>5 DEF FailExhaustedInterrupted, Job, FinalStates
  <2>6. ASSUME NEW w \in Workers, Prune(w)
        PROVE  receipts[j][jobs[j].attempt].applied
    <3>1. Prunable(j)
      BY <2>0, <2>6 DEF Prune, FinalStates
    <3> QED
      BY <1>1, <3>1 DEF IInv, FinishedJobHasReceipt, Prunable
  <2>7. ASSUME NEW e \in Executors, NEW k \in Jobs, NEW a \in Attempts,
               \/ acceptAttempt(e, k, a, jobs[k].owner)
               \/ setRunning(e, k, a)
               \/ \E s \in TerminalStates : writeReceipt(e, k, a, s)
               \/ Finalize(e, k, a)
        PROVE  UNCHANGED jobs
    BY <2>7 DEF acceptAttempt, setRunning, writeReceipt, Finalize
  <2> QED
    BY <1>1, <2>1, <2>2, <2>3, <2>4, <2>5, <2>6, <2>7, RowsChange
<1>2. IInv /\ [Next]_dbVars => [\A j \in Jobs : Kept(j)]_dbVars
  BY <1>1
<1> QED
  BY <1>2, Invariance, PTL DEF Spec, NoEventPruned

\* A late server or finalisation rewrites neither the receipt of an earlier
\* attempt nor the state of a terminal one.
THEOREM ReceiptsAreHistory == Spec => ReceiptHistoryFrozen
<1> DEFINE Frozen(j, a) ==
      jobs'[j].state # "deleted" =>
          /\ a # jobs[j].attempt => receipts'[j][a] = receipts[j][a]
          /\ receipts[j][a].state \in TerminalStates
                => receipts'[j][a].state = receipts[j][a].state
<1>1. ASSUME IInv, [Next]_dbVars
      PROVE  \A j \in Jobs, a \in Attempts : Frozen(j, a)
  <2> SUFFICES ASSUME NEW j \in Jobs, NEW a \in Attempts
               PROVE  Frozen(j, a)
    OBVIOUS
  <2>0. /\ jobs \in [Jobs -> JobRows]
        /\ receipts \in [Jobs -> [Attempts -> ReceiptRows]]
        /\ receipts[j][a] \in ReceiptRows
    BY <1>1 DEF IInv, TypeOK
  <2>1. CASE UNCHANGED receipts
    BY <2>1
  <2>2. ASSUME NEW w \in Workers, NEW k \in Jobs, NEW b \in Attempts, NEW s \in TerminalStates,
               NEW r \in BOOLEAN, finish(w, k, b, s, r)
        PROVE  Frozen(j, a)
    BY <2>0, <2>2 DEF finish, Finishable, insertEventReceipt, NoReceipt, Receipt,
                      TerminalStates, FinalStates
  <2>3. ASSUME NEW w \in Workers, FailExhaustedInterrupted(w)
        PROVE  Frozen(j, a)
    <3>1. PICK batch \in SUBSET Exhausted :
            receipts' = [i \in Jobs |-> [b \in Attempts |->
                            IF i \in batch /\ b = jobs[i].attempt
                            THEN insertEventReceipt(receipts[i][b], "failed", lease[w].generation)
                            ELSE receipts[i][b]]]
      BY <2>3 DEF FailExhaustedInterrupted
    <3> QED
      BY <2>0, <3>1 DEF insertEventReceipt, NoReceipt, Receipt, TerminalStates, FinalStates
  <2>4. ASSUME NEW w \in Workers, Prune(w)
        PROVE  Frozen(j, a)
    BY <2>0, <2>4 DEF Prune, Job
  <2>5. ASSUME NEW e \in Executors, NEW k \in Jobs, NEW b \in Attempts,
               acceptAttempt(e, k, b, jobs[k].owner)
        PROVE  Frozen(j, a)
    BY <2>0, <2>5 DEF acceptAttempt, CurrentAttempt, NoReceipt, Receipt, TerminalStates, FinalStates
  <2>6. ASSUME NEW e \in Executors, NEW k \in Jobs, NEW b \in Attempts,
               NEW s \in {"running"} \cup TerminalStates, fenceTx(e, k, b),
               receipts' = [receipts EXCEPT ![k][b].state = s]
        PROVE  Frozen(j, a)
    BY <2>0, <2>6 DEF fenceTx, CurrentAttempt, ActiveStates, TerminalStates, FinalStates
  <2>7. ASSUME NEW e \in Executors, NEW k \in Jobs, NEW b \in Attempts, Finalize(e, k, b)
        PROVE  Frozen(j, a)
    <3>1. /\ jobs[k].attempt = b
          /\ receipts' = [receipts EXCEPT ![k][b] = Applied(receipts[k][b], jobs[k].state)]
      BY <2>7 DEF Finalize
    <3>2. receipts[j][a].state \in TerminalStates
             => Applied(receipts[j][a], jobs[j].state).state = receipts[j][a].state
      BY <2>0 DEF Applied, ReceiptRows, ActiveStates, TerminalStates, FinalStates
    <3> QED
      BY <2>0, <3>1, <3>2
  <2>8. ASSUME NEW k \in Jobs, Enqueue(k) \/ \E w \in Workers : Claim(w, k)
        PROVE  UNCHANGED receipts
    BY <2>8 DEF Enqueue, Claim
  <2> QED
    BY <1>1, <2>1, <2>2, <2>3, <2>4, <2>5, <2>6, <2>7, <2>8, RowsChange DEF setRunning, writeReceipt
<1>2. IInv /\ [Next]_dbVars => [\A j \in Jobs, a \in Attempts : Frozen(j, a)]_dbVars
  BY <1>1
<1> QED
  BY <1>2, Invariance, PTL DEF Spec, ReceiptHistoryFrozen

-----------------------------------------------------------------------------

\* The queue module counts waiting and admitted jobs as the store does.
LEMMA SameCount ==
  ASSUME NEW S
  PROVE  Q!Cardinality(S) = Cardinality(S)
BY DEF Cardinality, Q!Cardinality

\* A step of the store is a step of the queue its users see, or none.
LEMMA StepRefines ==
  ASSUME IInv, [Next]_dbVars
  PROVE  [Q!Next]_UserView
<1>0. jobs \in [Jobs -> JobRows]
  BY DEF IInv, TypeOK
<1>1. ASSUME UNCHANGED jobs
      PROVE  UNCHANGED UserView
  BY <1>1 DEF UserView
<1>2. ASSUME NEW j \in Jobs, Enqueue(j)
      PROVE  Q!Submit(j)
  <2>1. j \in Q!In({"absent"})
    BY <1>2 DEF Enqueue, UserView, Q!In
  <2>2. UserView' = Q!With({j}, Q!Row("queued", 0))
    BY <1>0, <1>2 DEF Enqueue, Job, UserView, Q!With, Q!Row
  <2>3. Q!Cardinality(Q!In({"queued", "interrupted"})) < MaxPendingJobs
    <3>1. Q!In({"queued", "interrupted"}) = InState({"queued", "interrupted"})
      BY DEF UserView, InState, Q!In
    <3>2. Cardinality(InState({"queued", "interrupted"})) < MaxPendingJobs
      BY <1>2 DEF Enqueue
    <3> QED
      BY <3>1, <3>2, SameCount
  <2> QED
    BY <2>1, <2>2, <2>3 DEF Q!Submit
<1>3. ASSUME NEW w \in Workers, NEW j \in Jobs, Claim(w, j)
      PROVE  Q!Start(j)
  <2>1. PICK admitted \in Admissible :
           /\ Claimable(Admit(admitted)[j])
           /\ \A k \in Jobs : Claimable(Admit(admitted)[k]) => j <= k
           /\ jobs' = [Admit(admitted) EXCEPT
                         ![j] = Job("running", lease[w].generation, Admit(admitted)[j].attempt + 1)]
    BY <1>3 DEF Claim
  <2> DEFINE rows == Q!With(admitted, Q!Row("queued", 0))
  <2>2. \A k \in Jobs : rows[k] = Q!Row(Admit(admitted)[k].state, Admit(admitted)[k].attempt)
    BY DEF Q!With, Q!Row, Admit, Job, UserView
  <2>3. \A k \in Jobs : Q!Ready(rows[k]) <=> Claimable(Admit(admitted)[k])
    <3>1. \A k \in Jobs : /\ rows[k].state = Admit(admitted)[k].state
                          /\ rows[k].attempt = Admit(admitted)[k].attempt
      BY DEF Q!With, Q!Row, Admit, Job, UserView
    <3> HIDE DEF rows
    <3> QED
      BY <3>1 DEF Q!Ready, Claimable
  <2>4. Q!In({"running"}) = {}
    BY <1>3 DEF Claim, NoneRunning, InState, UserView, Q!In
  <2>5. admitted \in SUBSET Q!In({"absent"})
    BY DEF Admissible, InState, UserView, Q!In
  <2>6. UserView' = [rows EXCEPT ![j] = Q!Row("running", rows[j].attempt + 1)]
    <3>1. \A k \in Jobs : jobs'[k] = IF k = j THEN Job("running", lease[w].generation,
                                                       Admit(admitted)[j].attempt + 1)
                                     ELSE Admit(admitted)[k]
      BY <2>1 DEF Admit
    <3>2. \A k \in Jobs : UserView'[k] = IF k = j THEN Q!Row("running", rows[j].attempt + 1)
                                         ELSE rows[k]
      <4> TAKE k \in Jobs
      <4>1. UserView'[k] = Q!Row(jobs'[k].state, jobs'[k].attempt)
        BY DEF UserView, Q!Row
      <4>2. CASE k = j
        <5>1. rows[j].attempt = Admit(admitted)[j].attempt
          BY DEF Q!With, Q!Row, Admit, Job, UserView
        <5>2. /\ jobs'[k].state = "running"
              /\ jobs'[k].attempt = Admit(admitted)[j].attempt + 1
          BY <3>1, <4>2 DEF Job
        <5> QED
          BY <4>1, <4>2, <5>1, <5>2
      <4>3. CASE k # j
        BY <2>2, <3>1, <4>1, <4>3
      <4> QED
        BY <4>2, <4>3
    <3>3. UserView' = [k \in Jobs |-> UserView'[k]] /\ rows = [k \in Jobs |-> rows[k]]
      BY DEF UserView, Q!With
    <3> HIDE DEF rows
    <3> QED
      BY <3>2, <3>3
  <2>7. Q!Cardinality(admitted) <= 2
    BY SameCount DEF Admissible
  <2> QED
    BY <2>1, <2>3, <2>4, <2>5, <2>6, <2>7 DEF Q!Start
<1>4. ASSUME NEW w \in Workers, NEW j \in Jobs, NEW a \in Attempts, NEW s \in TerminalStates,
             NEW r \in BOOLEAN, finish(w, j, a, s, r)
      PROVE  Q!Settle(j, s)
  <2>1. j \in Q!In({"running", "interrupted"})
    BY <1>4 DEF finish, Finishable, UserView, Q!In
  <2>2. UserView' = [UserView EXCEPT ![j].state = s]
    BY <1>0, <1>4 DEF finish, Finishable, Job, UserView
  <2> QED
    BY <2>1, <2>2 DEF Q!Settle
<1>5. ASSUME NEW w \in Workers, FailExhaustedInterrupted(w)
      PROVE  \E batch \in SUBSET Jobs : Q!GiveUp(batch)
  <2>1. PICK batch \in SUBSET Exhausted :
           jobs' = [i \in Jobs |-> IF i \in batch
                                   THEN Job("failed", lease[w].generation, jobs[i].attempt)
                                   ELSE jobs[i]]
    BY <1>5 DEF FailExhaustedInterrupted
  <2>2. batch \subseteq {j \in Q!In({"interrupted"}) : UserView[j].attempt >= MaxJobAttempts}
    BY DEF Exhausted, InState, UserView, Q!In
  <2>3. UserView' = [j \in Jobs |-> IF j \in batch THEN Q!Row("failed", UserView[j].attempt)
                                    ELSE UserView[j]]
    BY <2>1 DEF UserView, Q!Row, Job
  <2>4. batch \in SUBSET Jobs
    BY DEF Exhausted, InState
  <2> QED
    BY <2>2, <2>3, <2>4 DEF Q!GiveUp
<1>6. ASSUME NEW w \in Workers, Prune(w)
      PROVE  \E batch \in SUBSET Jobs : Q!Retire(batch)
  <2>1. PICK batch \in SUBSET {j \in Jobs : Prunable(j)} :
           jobs' = [j \in Jobs |-> IF j \in batch THEN Job("deleted", 0, 0) ELSE jobs[j]]
    BY <1>6 DEF Prune
  <2>2. batch \subseteq Q!In({"succeeded", "failed"})
    BY DEF Prunable, UserView, Q!In
  <2>3. UserView' = Q!With(batch, Q!Row("deleted", 0))
    BY <2>1 DEF UserView, Q!With, Q!Row, Job
  <2> QED
    BY <2>2, <2>3 DEF Q!Retire
<1>7. ASSUME NEW e \in Executors, NEW k \in Jobs, NEW a \in Attempts,
             \/ acceptAttempt(e, k, a, jobs[k].owner)
             \/ setRunning(e, k, a)
             \/ \E s \in TerminalStates : writeReceipt(e, k, a, s)
             \/ Finalize(e, k, a)
      PROVE  UNCHANGED jobs
  BY <1>7 DEF acceptAttempt, setRunning, writeReceipt, Finalize
<1>8. TerminalStates = Q!Outcomes
  BY DEF TerminalStates, FinalStates, Q!Outcomes
<1> QED
  BY <1>1, <1>2, <1>3, <1>4, <1>5, <1>6, <1>7, <1>8, RowsChange DEF Q!Next

\* The store implements the queue of JobQueue: serial, first come first
\* served, attempts counted before they start, outcomes recorded for good.
THEOREM StoreImplementsQueue == Spec => ImplementsJobQueue
<1>1. Init => Q!Init
  BY DEF Init, Job, UserView, Q!Init, Q!Row
<1>2. IInv /\ [Next]_dbVars => [Q!Next]_UserView
  BY StepRefines
<1> QED
  BY <1>1, <1>2, Invariance, PTL DEF Spec, ImplementsJobQueue, Q!Spec

=============================================================================
