----------------------------- MODULE WorkerLoop -----------------------------
(***************************************************************************)
(* The worker's run (worker.go) driving the execution server over HTTP:    *)
(* lease, recovery, claim, admission, polling, cancellation, persistence.  *)
(* A run is a program counter and the answers it acts on.                  *)
(*                                                                         *)
(* Any ready instance may answer a request.  A read that fails and is      *)
(* retried by its loop is a stuttering step; a transaction may fail, and   *)
(* its commit may be applied all the same.                                 *)
(***************************************************************************)
EXTENDS ExecutionServer

CONSTANT ClaimMayBeAmbiguous  \* whether Claim's commit may fail after it applied

VARIABLE run  \* each worker run's program counter, job and last answers

vars == <<dbVars, serverVars, run>>

Answers == {"none"} \cup ActiveStates \cup TerminalStates

PCs == {"off", "recover", "idle", "policy", "wait",
        "cancelStatus", "cancelRead", "cancelReply", "gone", "persist",
        "unresolved", "status", "reply", "giveUp", "persistRecovered", "exit", "done"}

NoRun == [pc |-> "off", key |-> <<>>, todo |-> {}, state |-> "none", instance |-> None,
          drained |-> FALSE, starting |-> FALSE, deferred |-> FALSE]

Runs == [pc : PCs, key : Keys \cup {<<>>}, todo : SUBSET Keys, state : Answers,
         instance : Executors \cup {None}, drained : BOOLEAN, starting : BOOLEAN,
         deferred : BOOLEAN]

SystemTypeOK == TypeOK /\ ServerTypeOK /\ run \in [Workers -> Runs]

SystemInit == Init /\ ServerInit /\ run = [w \in Workers |-> NoRun]

Ready == {e \in Executors : server[e] = "ready"}

\* The attempt's context: it ends with the lease, or when the drain of a
\* shutdown has run out.
ContextOver(w) == lease[w].phase # "held" \/ run[w].drained

\* A run that leaves the handling of an attempt, or of its receipt, forgets
\* what it had read.
Goto(w, pc) ==
    run' = [run EXCEPT ![w] =
        CASE pc \in {"exit", "done", "idle"} ->
                [NoRun EXCEPT !.pc = pc, !.drained = @ \/ (pc = "idle" /\ run[w].drained)]
          [] pc \in {"unresolved", "recover", "cancelStatus", "gone", "giveUp"} ->
                [run[w] EXCEPT !.pc = pc, !.state = "none", !.instance = None,
                               !.deferred = @ /\ pc \in {"cancelStatus", "gone"}]
          [] OTHER -> [run[w] EXCEPT !.pc = pc]]

\* The receipt a request reads, as the worker keeps it.
Seen(w, pc, key) ==
    run' = [run EXCEPT ![w].pc = pc, ![w].state = Row(key).state,
                       ![w].instance = IF Row(key).state \in ActiveStates THEN Row(key).instance ELSE None]

\* Steps that only read, or only touch the run itself.
Quiet == UNCHANGED <<dbVars, serverVars>>

\* Variant: recovery does not ask whether the job may deliver.
recoveredWithoutDelivery(key) ==
    IF key[2] >= MaxJobAttempts THEN "failed" ELSE "interrupted"

\* recoveredOutcome
recoveredOutcome(key) ==
    IF MayDeliver(key) THEN "delivery_unknown"
    ELSE IF key[2] >= MaxJobAttempts THEN "failed" ELSE "interrupted"

-----------------------------------------------------------------------------
(* Startup and shutdown of a run.                                          *)

\* Acquire; recoverBeforeClaim then lists the running and interrupted jobs.
AcquireLock(w) == run[w].pc = "off" /\ TryLock(w) /\ UNCHANGED <<serverVars, run>>

\* Variant: what the last run left running is not looked for.
AcquireLeaseForgets(w) ==
    /\ run[w].pc = "off"
    /\ UpdateOwner(w)
    /\ run' = [run EXCEPT ![w].pc = "recover", ![w].starting = TRUE]
    /\ UNCHANGED serverVars

AcquireLease(w) ==
    /\ run[w].pc = "off"
    /\ UpdateOwner(w)
    /\ run' = [run EXCEPT ![w].pc = "recover", ![w].starting = TRUE,
                          ![w].todo = {<<j, jobs[j].attempt>> : j \in InState({"running", "interrupted"})}]
    /\ UNCHANGED serverVars

AcquireFails(w) ==
    /\ run[w].pc = "off"
    /\ w \in Flaky \/ lock # w
    /\ UpdateOwnerFails(w)
    /\ Goto(w, "done")
    /\ UNCHANGED serverVars

\* The lowest queue position is recovered first.
RecoverNext(w) ==
    /\ run[w].pc = "recover"
    /\ \E key \in run[w].todo :
          /\ \A k \in run[w].todo : key[1] <= k[1]
          /\ run' = [run EXCEPT ![w].pc = "unresolved", ![w].key = key, ![w].todo = @ \ {key}]
    /\ Quiet

\* replayFinalizedEvents and Recovered are over, or failed with the run.
Recovered(w) ==
    /\ run[w].pc = "recover"
    /\ run[w].todo = {}
    /\ Goto(w, "idle")
    /\ Quiet

\* The lease session ends, seen by the heartbeat at once or later.
LoseSession(w) ==
    /\ w \in Mortal \/ run[w].pc = "done"
    /\ SessionEnds(w)
    /\ UNCHANGED <<serverVars, run>>

LoseLease(w) ==
    /\ w \in Mortal
    /\ run[w].pc # "done"
    /\ HeartbeatFails(w)
    /\ UNCHANGED <<serverVars, run>>

\* A shutdown whose drain has run out.
Drain(w) ==
    /\ w \in Mortal
    /\ run[w].pc \notin {"off", "exit", "done"}
    /\ ~ ContextOver(w)
    /\ run' = [run EXCEPT ![w].drained = TRUE]
    /\ Quiet

\* Run returns once its contexts are over, or on an error during startup, of
\* the lease (a 409) or of authorization.
Leave(w) ==
    /\ \/ ContextOver(w) /\ run[w].pc \in {"recover", "idle", "policy", "unresolved", "status", "giveUp"}
       \/ w \in Flaky /\ run[w].pc \in {"recover", "policy", "wait"}
    /\ Goto(w, "exit")
    /\ Quiet

\* The deferred Release.
ReleaseLease(w) ==
    /\ run[w].pc = "exit"
    /\ \/ Release(w)
       \/ lease[w].phase # "held" /\ UNCHANGED dbVars
    /\ Goto(w, "done")
    /\ UNCHANGED serverVars

\* The worker process dies.
Kill(w) ==
    /\ w \in Mortal
    /\ run[w].pc \notin {"off", "done"}
    /\ Goto(w, "done")
    /\ Quiet

-----------------------------------------------------------------------------
(* One pass of the loop.                                                   *)

FailExhausted(w) ==
    /\ run[w].pc = "idle"
    /\ FailExhaustedInterrupted(w)
    /\ UNCHANGED <<serverVars, run>>

PruneJobs(w) ==
    /\ run[w].pc = "idle"
    /\ Prune(w)
    /\ UNCHANGED <<serverVars, run>>

\* Finalized: sent after persistReceipt and by replayFinalizedEvents.
SendFinalized(w, e, j) ==
    /\ run[w].pc \in {"recover", "idle"}
    /\ e \in Ready
    /\ \E a \in Attempts : ~ receipts[j][a].applied /\ Finalize(e, j, a)
    /\ UNCHANGED <<serverVars, run>>

\* Claim returned a job, or failed although its commit was applied.
ClaimJob(w, j) ==
    /\ run[w].pc = "idle"
    /\ ~ ContextOver(w)
    /\ Claim(w, j)
    /\ \/ run' = [run EXCEPT ![w] = [NoRun EXCEPT !.pc = "policy", !.key = <<j, jobs'[j].attempt>>]]
       \/ ClaimMayBeAmbiguous /\ run' = run
    /\ UNCHANGED serverVars

\* runJob: the policy is known.
Policy(w) ==
    /\ run[w].pc = "policy"
    /\ Ready # {}
    /\ Goto(w, "wait")
    /\ Quiet

\* Where an attempt without a confirmed outcome leaves the run: the loop
\* around recoverJob, or out of Run during startup.
Unresolved(w) == IF run[w].starting THEN "exit" ELSE "unresolved"

\* A Finish or FinishRecovered transaction of the run.  A commit that fails may
\* be applied; what the fence or the row's state refuses is reported as a lost
\* lease, like an error of the fence itself, and ends the run.
FinishJob(w, state, recovered) ==
    /\ LET committed == finish(w, run[w].key[1], run[w].key[2], state, recovered) IN
       \/ committed /\ Goto(w, IF run[w].starting THEN "recover" ELSE "idle")
       \/ w \in Flaky /\ (committed \/ UNCHANGED dbVars) /\ Goto(w, Unresolved(w))
       \/ /\ \/ w \in Flaky
             \/ ~ LeaseCurrent(w)
             \/ ~ Finishable(w, run[w].key[1], run[w].key[2], recovered)
          /\ UNCHANGED dbVars
          /\ Goto(w, "exit")
    /\ UNCHANGED serverVars

\* runJob: the stored job is rejected, or the context ends before a policy
\* was read.
PolicyFails(w) ==
    /\ run[w].pc = "policy"
    /\ \E state \in {"failed"} \cup (IF ContextOver(w) THEN {"interrupted"} ELSE {}) :
          FinishJob(w, state, FALSE)

\* acceptAndWait reads the receipt.  Without one it posts the envelope, again
\* if it did before; an active one is kept until the next read that succeeds.
Poll(w) ==
    /\ run[w].pc = "wait"
    /\ ~ ContextOver(w)
    /\ Ready # {}
    /\ LET key == run[w].key
           envelope == [key |-> key, generation |-> lease[w].generation] IN
       IF Row(key) = NoReceipt
       THEN posts' = posts \cup {envelope} /\ run' = run
       ELSE /\ posts' = posts
            /\ Seen(w, IF Row(key).state \in TerminalStates THEN "persist" ELSE "wait", key)
    /\ UNCHANGED <<dbVars, server, task, cancel, calls, late, published>>

\* acceptAndWait: the very first POST is refused as invalid, so no other one
\* can have been accepted.
PostInvalid(w) ==
    /\ run[w].pc = "wait"
    /\ \A p \in posts : p.key # run[w].key
    /\ ~ ContextOver(w)
    /\ Ready # {}
    /\ FinishJob(w, "failed", FALSE)

\* acceptAndWait: the instance that is ready is not the one of the receipt.
ExecutorGone(w) ==
    /\ run[w].pc = "wait"
    /\ run[w].state \in ActiveStates
    /\ ~ ContextOver(w)
    /\ Ready \ {run[w].instance} # {}
    /\ Goto(w, "gone")
    /\ Quiet

\* The deadline has passed: cancelAfterContextExit.
DeadlineCancel(w) ==
    /\ run[w].pc = "wait"
    /\ run[w].key \in late
    /\ Goto(w, "cancelStatus")
    /\ Quiet

\* The context is over when acceptAndWait returns an error: its deferred
\* function calls cancelAfterContextExit, once.
DeferredCancel(w) ==
    /\ run[w].pc \in {"wait", "gone"}
    /\ ContextOver(w)
    /\ ~ run[w].deferred
    /\ run' = [run EXCEPT ![w].pc = "cancelStatus", ![w].state = "none",
                          ![w].instance = None, ![w].deferred = TRUE]
    /\ Quiet

\* The database clock cannot be read, or a request is refused for good but
\* not as invalid: acceptAndWait returns without cancelling.
WaitFails(w) ==
    /\ run[w].pc = "wait"
    /\ ~ ContextOver(w)
    /\ w \in Flaky
    /\ Goto(w, "unresolved")
    /\ Quiet

-----------------------------------------------------------------------------
(* cancelUntilResolved.  A cancel request begins to be served in the step  *)
(* of the last request before it: what may happen between the two may as   *)
(* well happen before the one or after the other.                          *)

CancelStatus(w) ==
    /\ run[w].pc = "cancelStatus"
    /\ \E e \in Ready : run' = [run EXCEPT ![w].pc = "cancelRead", ![w].instance = e]
    /\ Quiet

\* The receipt is read, and nothing has to be cancelled.
CancelRead(w) ==
    /\ run[w].pc = "cancelRead"
    /\ Ready # {}
    /\ LET row == Row(run[w].key) IN
       \/ row = NoReceipt /\ Goto(w, "cancelStatus")
       \/ row.state \in TerminalStates /\ Seen(w, "persist", run[w].key)
       \/ row.state \in ActiveStates /\ row.instance # run[w].instance /\ Goto(w, "gone")
    /\ Quiet

\* The receipt is active at the instance that answered, which is asked to
\* cancel.
CallCancel(w, e) ==
    /\ run[w].pc = "cancelRead"
    /\ run[w].instance = e
    /\ Row(run[w].key).state \in ActiveStates
    /\ Row(run[w].key).instance = e
    /\ CancelBegins(e, run[w].key)
    /\ Goto(w, "cancelReply")
    /\ UNCHANGED <<dbVars, server, posts, calls, late, published>>

\* The answer of the cancel request, and what the loop makes of it.  The
\* handler reads `active` after the receipt.
CancelReply(w, e) ==
    /\ run[w].pc = "cancelReply"
    /\ cancel[e].pc = "reply"
    /\ cancel[e].key = run[w].key
    /\ cancel' = [cancel EXCEPT ![e] = NoCancel]
    /\ \/ (Active(e, run[w].key) \/ run[w].instance # e) /\ Goto(w, "cancelStatus")
       \/ /\ ~ Active(e, run[w].key)
          /\ run[w].instance = e
          /\ run' = [run EXCEPT ![w].state = IF cancel[e].state \in TerminalStates
                                              THEN cancel[e].state ELSE "none",
                                ![w].instance = None,
                                ![w].pc = IF cancel[e].state \in TerminalStates
                                          THEN "persist" ELSE "gone"]
    /\ UNCHANGED <<dbVars, server, task, posts, calls, late, published>>

\* A request fails or times out and the loop goes on.
CancelFails(w) ==
    /\ w \in Flaky
    /\ run[w].pc \in {"cancelRead", "cancelReply"}
    /\ Goto(w, "cancelStatus")
    /\ Quiet

\* The time for cleaning up is over.
CleanupEnds(w) ==
    /\ run[w].pc \in {"cancelStatus", "cancelRead", "cancelReply"}
    /\ Goto(w, "unresolved")
    /\ Quiet

\* runJob: the executor is gone.
FinishGone(w) == run[w].pc = "gone" /\ FinishJob(w, recoveredOutcome(run[w].key), FALSE)

\* persistReceipt of the attempt this run drove.
Persist(w) == run[w].pc = "persist" /\ FinishJob(w, run[w].state, FALSE)

-----------------------------------------------------------------------------
(* recoverJob, at startup and for an attempt left unresolved.              *)

RecoverRead(w) ==
    /\ run[w].pc = "unresolved"
    /\ ~ ContextOver(w)
    /\ Ready # {}
    /\ Seen(w, CASE Row(run[w].key) = NoReceipt -> "giveUp"
                 [] Row(run[w].key).state \in TerminalStates -> "persistRecovered"
                 [] Row(run[w].key).state \in ActiveStates -> "status", run[w].key)
    /\ Quiet

\* Another instance answers than the one of the receipt.
RecoverStatus(w) ==
    /\ run[w].pc = "status"
    /\ Ready \ {run[w].instance} # {}
    /\ Goto(w, "giveUp")
    /\ Quiet

\* The same one does, and is asked to cancel.
RecoverCancel(w, e) ==
    /\ run[w].pc = "status"
    /\ run[w].instance = e
    /\ CancelBegins(e, run[w].key)
    /\ Goto(w, "reply")
    /\ UNCHANGED <<dbVars, server, posts, calls, late, published>>

RecoverReply(w, e) ==
    /\ run[w].pc = "reply"
    /\ cancel[e].pc = "reply"
    /\ cancel[e].key = run[w].key
    /\ cancel' = [cancel EXCEPT ![e] = NoCancel]
    /\ \/ (Active(e, run[w].key) \/ run[w].instance # e) /\ Goto(w, Unresolved(w))
       \/ /\ ~ Active(e, run[w].key)
          /\ run[w].instance = e
          /\ run' = [run EXCEPT ![w].state = IF cancel[e].state \in TerminalStates
                                              THEN cancel[e].state ELSE "none",
                                ![w].instance = None,
                                ![w].pc = IF cancel[e].state \in TerminalStates
                                          THEN "persistRecovered" ELSE "giveUp"]
    /\ UNCHANGED <<dbVars, server, task, posts, calls, late, published>>

\* No server is working on the cancel request this run waits for.
Unanswered(w) == \A e \in Executors : cancel[e].key # run[w].key

\* A request of recoverJob fails, or its answer was lost.
RecoverFails(w) ==
    /\ \/ w \in Flaky /\ run[w].pc \in {"status", "reply"}
       \/ run[w].pc = "reply" /\ Unanswered(w)
    /\ Goto(w, Unresolved(w))
    /\ Quiet

GiveUp(w) == run[w].pc = "giveUp" /\ FinishJob(w, recoveredOutcome(run[w].key), TRUE)

PersistRecovered(w) == run[w].pc = "persistRecovered" /\ FinishJob(w, run[w].state, TRUE)

\* The answer to a cancel request reaches nobody.
CancelReplyLost(e) ==
    /\ cancel[e].pc = "reply"
    /\ \/ e \in Flaky
       \/ \A w \in Workers : run[w].pc \in {"cancelReply", "reply"} => run[w].key # cancel[e].key
    /\ cancel' = [cancel EXCEPT ![e] = NoCancel]
    /\ UNCHANGED <<dbVars, server, task, posts, calls, late, published, run>>

-----------------------------------------------------------------------------

RunStep(w) ==
    \/ AcquireLock(w) \/ AcquireLease(w) \/ AcquireFails(w)
    \/ RecoverNext(w) \/ Recovered(w)
    \/ LoseSession(w) \/ LoseLease(w) \/ Drain(w) \/ Leave(w) \/ ReleaseLease(w) \/ Kill(w)
    \/ FailExhausted(w) \/ PruneJobs(w)
    \/ \E e \in Executors, j \in Jobs : SendFinalized(w, e, j)
    \/ \E j \in Jobs : ClaimJob(w, j)
    \/ Policy(w) \/ PolicyFails(w)
    \/ Poll(w) \/ PostInvalid(w) \/ ExecutorGone(w) \/ WaitFails(w)
    \/ DeadlineCancel(w) \/ DeferredCancel(w)
    \/ CancelStatus(w) \/ CancelRead(w) \/ CancelFails(w) \/ CleanupEnds(w)
    \/ \E e \in Executors : CallCancel(w, e) \/ CancelReply(w, e) \/ RecoverCancel(w, e) \/ RecoverReply(w, e)
    \/ FinishGone(w) \/ Persist(w)
    \/ RecoverRead(w) \/ RecoverStatus(w) \/ RecoverFails(w) \/ GiveUp(w) \/ PersistRecovered(w)

SystemNext ==
    \/ \E w \in Workers : RunStep(w)
    \/ \E e \in Executors : (ServerStep(e) /\ UNCHANGED run) \/ CancelReplyLost(e)
    \/ NetworkStep /\ UNCHANGED run
    \/ \E j \in Jobs : Enqueue(j) /\ UNCHANGED <<serverVars, run>>

SystemSpec == SystemInit /\ [][SystemNext]_vars

-----------------------------------------------------------------------------
(* Fairness: every process takes its next step, the clock reaches every    *)
(* deadline, every loop that is bounded by a timeout ends, PostgreSQL and  *)
(* the watchdogs notice what is gone, and not every answer is lost.        *)

Progress(w) ==
    \/ AcquireLock(w) \/ AcquireLease(w) \/ AcquireFails(w)
    \/ RecoverNext(w) \/ Recovered(w) \/ Leave(w) \/ ReleaseLease(w)
    \/ Policy(w) \/ Poll(w) \/ ExecutorGone(w) \/ DeadlineCancel(w) \/ DeferredCancel(w)
    \/ CancelStatus(w) \/ CancelRead(w)
    \/ \E e \in Executors : CallCancel(w, e) \/ CancelReply(w, e) \/ RecoverCancel(w, e) \/ RecoverReply(w, e)
    \/ FinishGone(w) \/ Persist(w)
    \/ RecoverRead(w) \/ RecoverStatus(w) \/ RecoverFails(w) \/ GiveUp(w) \/ PersistRecovered(w)

ServerProgress(e) ==
    \/ /\ \/ Open(e) \/ Close(e) \/ Launch(e) \/ Start(e) \/ StartFails(e)
          \/ PipelineReturns(e) \/ Finish(e) \/ Return(e)
       /\ UNCHANGED run

CancelProgress(e) ==
    \/ (CancelReads(e) \/ CancelWrites(e) \/ CancelLoads(e)) /\ UNCHANGED run
    \/ CancelReplyLost(e)

RunFairness(w) ==
    /\ WF_vars(Progress(w))
    /\ WF_vars(CleanupEnds(w))
    /\ WF_vars(FailExhausted(w) \/ \E j \in Jobs : ClaimJob(w, j))
    /\ WF_vars(lock # w /\ LoseLease(w))
    /\ WF_vars(run[w].pc = "done" /\ LoseSession(w))
    /\ SF_vars(\E e \in Executors : RecoverReply(w, e))

ServerFairness(e) ==
    /\ WF_vars(ServerProgress(e))
    /\ WF_vars(CancelProgress(e))
    /\ WF_vars(guard # e /\ StopServing(e) /\ UNCHANGED run)
    /\ WF_vars(server[e] = "down" /\ GuardSessionEnds(e) /\ UNCHANGED run)

FairSpec ==
    /\ SystemSpec
    /\ \A w \in Workers : RunFairness(w)
    /\ \A e \in Executors : ServerFairness(e)
    /\ \A key \in Keys : WF_vars(DeadlinePasses(key) /\ UNCHANGED run)

-----------------------------------------------------------------------------

\* A job whose delivery may have started is not run for a second delivery,
\* whatever is cancelled, replaced or lost in between (recoveredOutcome,
\* pipelineFailureDisposition and markCanceled all have to agree on it).
PublishedOnce ==
    \A j \in Jobs : Cardinality({a \in Attempts : <<j, a>> \in published}) <= 1

\* Once its delivery may have started, a job is never given back to the queue
\* nor reported as failed: it is succeeded or delivery_unknown in the end.
PublishedIsKept ==
    \A key \in published :
        jobs[key[1]].state \in {"running", "succeeded", "delivery_unknown", "deleted"}

\* A job is reported succeeded only on the word of the server that ran it, and
\* no cancel request that is still being served takes that word back.  The
\* converse does not hold, see AppliedEventIsAdmitted.
SucceededByServer ==
    \A j \in Jobs : jobs[j].state = "succeeded" =>
        /\ receipts[j][jobs[j].attempt].state = "succeeded"
        /\ receipts[j][jobs[j].attempt].instance \in Executors

\* A receipt that says failed or interrupted is right that nothing was
\* delivered, although markCanceled chooses the state from an earlier read,
\* while the attempt may go on to its publish request.
ReceiptTellsDelivery ==
    \A key \in published :
        Row(key).state \in {"none", "running", "succeeded", "delivery_unknown"}

\* Every submitted job gets a final outcome, also when the server that handles
\* it loses its guard, closes, dies or is replaced, at any point.
EveryJobEnds ==
    \A j \in Jobs : jobs[j].state = "queued" ~> jobs[j].state \in FinalStates

\* While some run is alive, no job is left behind by the runs before it: it
\* gets its final outcome, or every run has ended (recoverJob's errors end a
\* run that is starting up).
RecoveryNeverHangs ==
    \A j \in Jobs : jobs[j].state = "queued" ~>
        jobs[j].state \in FinalStates \/ \A w \in Workers : run[w].pc = "done"

\* worker.go and recoverJob take a newly ready instance as proof that the
\* tasks of every other instance have exited.
NewInstanceMeansOldStopped ==
    \A e, f \in Executors : server[f] = "ready" /\ e # f => task[e] = NoTask

\* The contract says that the first application of a completion runs the alert
\* policy.  validateTerminal, which admits the event to it, wants the receipt
\* to have the job's state.
AppliedEventIsAdmitted ==
    \A j \in Jobs : jobs[j].state \in FinalStates =>
        LET receipt == receipts[j][jobs[j].attempt] IN
        receipt.applied => receipt.state = jobs[j].state
=============================================================================
