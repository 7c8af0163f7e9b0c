-------------------------- MODULE ExecutionServer --------------------------
(***************************************************************************)
(* The execution server: admission of an attempt, the attempt itself       *)
(* (runAttempt and the pipeline it calls), the cancel handler and the      *)
(* server's own life, over the transactions of JobStore.                   *)
(*                                                                         *)
(* A server runs one attempt at a time: accept holds the admission mutex   *)
(* and refuses while `active` is not empty.  Every database call may fail, *)
(* which also stands for a heartbeat that is too old when the fence looks. *)
(* A request that was sent may be handled at any later time, or never; an  *)
(* instance serves one cancel request at a time.                           *)
(***************************************************************************)
EXTENDS JobStore

CONSTANTS Delivering,  \* jobs whose kind may deliver to an external provider
          Mortal,      \* worker runs and servers that may crash, be shut down or
                       \* lose a session
          Flaky        \* worker runs and servers whose requests and transactions
                       \* may fail

ASSUME DeliveringAssumption == Delivering \subseteq Jobs

VARIABLES server,    \* each instance's life: new, ready, closing, down
          task,      \* the attempt each instance runs
          cancel,    \* the cancel request each instance is serving
          posts,     \* admission requests sent so far
          calls,     \* attempts whose publish request was sent
          late,      \* attempts whose deadline has passed
          published  \* history: attempts whose delivery may have started

serverVars == <<server, task, cancel, posts, calls, late, published>>

Keys == Jobs \X Attempts

NoTask == [pc |-> "none", key |-> <<>>, stopped |-> FALSE, outcome |-> "none"]

NoCancel == [pc |-> "none", key |-> <<>>, state |-> "none"]

Tasks == [pc : {"committed", "start", "pipeline", "calling", "finish", "return"}, key : Keys,
          stopped : BOOLEAN, outcome : {"none"} \cup TerminalStates]

Cancels == [pc : {"read", "write", "load", "reply"}, key : Keys,
            state : {"none"} \cup ActiveStates \cup TerminalStates]

ServerTypeOK ==
    /\ server \in [Executors -> {"new", "ready", "closing", "down"}]
    /\ task \in [Executors -> Tasks \cup {NoTask}]
    /\ cancel \in [Executors -> Cancels \cup {NoCancel}]
    /\ posts \subseteq [key : Keys, generation : Nat]
    /\ calls \subseteq Keys
    /\ late \subseteq Keys
    /\ published \subseteq Keys

ServerInit ==
    /\ server = [e \in Executors |-> "new"]
    /\ task = [e \in Executors |-> NoTask]
    /\ cancel = [e \in Executors |-> NoCancel]
    /\ posts = {} /\ calls = {} /\ late = {} /\ published = {}

Row(key) == receipts[key[1]][key[2]]

MayDeliver(key) == key[1] \in Delivering

\* s.active holds the key; an attempt whose receipt is committed is added to
\* it only afterwards.
Active(e, key) == task[e].key = key /\ task[e].pc # "committed"

-----------------------------------------------------------------------------
(* The server's life.                                                      *)

\* Open: the guard is taken and readiness reported.
Open(e) ==
    /\ server[e] = "new"
    /\ TakeGuard(e)
    /\ server' = [server EXCEPT ![e] = "ready"]
    /\ UNCHANGED <<task, cancel, posts, calls, late, published>>

\* An attempt's context ends.  What follows the pipeline uses a context of its
\* own, and an attempt that is not launched yet has none.
Stopped(t) == [t EXCEPT !.stopped = @ \/ t.pc \in {"start", "pipeline", "calling"}]

\* watch sees the guard gone or cannot ask, or a shutdown begins: no more
\* admission, and the root context ends with every attempt's context.
StopServing(e) ==
    /\ server[e] = "ready"
    /\ e \in Mortal
    /\ server' = [server EXCEPT ![e] = "closing"]
    /\ task' = [task EXCEPT ![e] = Stopped(@)]
    /\ UNCHANGED <<dbVars, cancel, posts, calls, late, published>>

\* Close: the attempts have returned, or the bound for waiting has passed;
\* the guard is released either way.
Close(e) ==
    /\ server[e] = "closing"
    /\ task[e].pc # "committed"
    /\ server' = [server EXCEPT ![e] = "down"]
    /\ guard' = IF guard = e THEN None ELSE guard
    /\ UNCHANGED <<worker, lock, lease, jobs, receipts, task, cancel, posts, calls, late, published>>

\* The process dies, or exits after Close with a handler still running.
Die(e) ==
    /\ e \in Mortal
    /\ server[e] # "new"
    /\ server[e] # "down" \/ task[e] # NoTask \/ cancel[e] # NoCancel
    /\ server' = [server EXCEPT ![e] = "down"]
    /\ task' = [task EXCEPT ![e] = NoTask]
    /\ cancel' = [cancel EXCEPT ![e] = NoCancel]
    /\ UNCHANGED <<dbVars, posts, calls, late, published>>

\* PostgreSQL ends the guard session; the server may learn of it later.
GuardSessionEnds(e) ==
    /\ e \in Mortal
    /\ GuardEnds(e)
    /\ UNCHANGED serverVars

-----------------------------------------------------------------------------
(* Admission and execution of an attempt.                                  *)

\* accept up to the commit of acceptAttempt; readiness was checked before the
\* transaction and may end during it.  When the commit is applied but
\* reported as an error the receipt is there and nothing runs.
Accept(e, p) ==
    /\ server[e] \in {"ready", "closing"}
    /\ task[e] = NoTask
    /\ p.key \notin late
    /\ acceptAttempt(e, p.key[1], p.key[2], p.generation)
    /\ \/ task' = [task EXCEPT ![e] = [NoTask EXCEPT !.pc = "committed", !.key = p.key]]
       \/ e \in Flaky /\ task' = task
    /\ UNCHANGED <<server, cancel, posts, calls, late, published>>

\* accept after the commit: the attempt enters `active` and starts, under a
\* root context that may already be over.
Launch(e) ==
    /\ task[e].pc = "committed"
    /\ task' = [task EXCEPT ![e].pc = "start", ![e].stopped = server[e] # "ready"]
    /\ UNCHANGED <<dbVars, server, cancel, posts, calls, late, published>>

\* What runAttempt reports when it could not start.  A delivery counts as
\* unknown when fenceTx reports the deadline, which it does after the deadline
\* and whenever it cannot read the clock.
StartFailure(key) ==
    {"failed"} \cup (IF MayDeliver(key) THEN {"delivery_unknown"} ELSE {})

\* The attempt is over but for its receipt.
Over(t, outcome) == [t EXCEPT !.pc = "finish", !.stopped = FALSE, !.outcome = outcome]

\* The attempt is over but for its entry in `active`.
Left(t) == [t EXCEPT !.pc = "return", !.stopped = FALSE, !.outcome = "none"]

\* runAttempt: the context is read and setRunning commits, maybe just after
\* the attempt was cancelled; a commit may be reported as an error.
Start(e) ==
    /\ task[e].pc = "start"
    /\ task[e].key \notin late
    /\ setRunning(e, task[e].key[1], task[e].key[2])
    /\ \/ task' = [task EXCEPT ![e].pc = "pipeline"]
       \/ /\ e \in Flaky
          /\ task' = [task EXCEPT ![e] = Over(@, "failed")]
    /\ UNCHANGED <<server, cancel, posts, calls, late, published>>

\* runAttempt: reading the context or setRunning fails.
StartFails(e) ==
    /\ task[e].pc = "start"
    /\ \E s \in StartFailure(task[e].key) : task' = [task EXCEPT ![e] = Over(@, s)]
    /\ UNCHANGED <<dbVars, server, cancel, posts, calls, late, published>>

\* digest, viber_digest_delivery or serbian_digest_retry sends the publish
\* request to the domain service.
CallPublish(e) ==
    /\ task[e].pc = "pipeline"
    /\ MayDeliver(task[e].key)
    /\ ~ task[e].stopped
    /\ task' = [task EXCEPT ![e].pc = "calling"]
    /\ calls' = calls \cup {task[e].key}
    /\ UNCHANGED <<dbVars, server, cancel, posts, late, published>>

\* Fence.Validate in the domain service, then the send.  The request may get
\* there after its caller was cancelled or died.
Publish(key) ==
    /\ key \in calls \ published
    /\ fenceTx(Row(key).instance, key[1], key[2])
    /\ Row(key).state = "running"
    /\ key \notin late
    /\ published' = published \cup {key}
    /\ UNCHANGED <<dbVars, server, task, cancel, posts, calls, late>>

\* Variant: an error after the publish request counts like one before it.
DispositionPrePublish(t) ==
    (IF t.stopped THEN {"interrupted"} ELSE {})
       \cup (IF t.stopped /\ t.key \notin late THEN {} ELSE {"failed"})

\* pipelineFailureDisposition, for an error before (pc = pipeline) or after
\* the publish request; an unmarked error of a delivering job is unknown.
Disposition(t) ==
    IF t.pc = "calling" THEN {"delivery_unknown"}
    ELSE (IF MayDeliver(t.key) THEN {"delivery_unknown"} ELSE {})
            \cup (IF t.stopped THEN {"interrupted"} ELSE {})
            \cup (IF t.stopped /\ t.key \notin late THEN {} ELSE {"failed"})

\* initializeArticleReprocess fails, before the pipeline and whether or not
\* the attempt was cancelled: without authority runAttempt just returns.
InitializeFails(e) ==
    /\ task[e].pc = "pipeline"
    /\ ~ MayDeliver(task[e].key)
    /\ \E t \in {Over(task[e], "failed"), Left(task[e])} : task' = [task EXCEPT ![e] = t]
    /\ UNCHANGED <<dbVars, server, cancel, posts, calls, late, published>>

\* What runAttempt makes of what Execute returned: an error, a result it cannot
\* keep, or a result that counts if the context is still alive.  A publish
\* succeeds only once it has happened.
AttemptOutcomes(t) ==
    Disposition(t) \cup (IF /\ ~ t.stopped
                            /\ t.key \notin late
                            /\ t.pc = "calling" => t.key \in published
                         THEN {"succeeded"} ELSE {})

\* Execute returns.
PipelineReturns(e) ==
    /\ task[e].pc \in {"pipeline", "calling"}
    /\ \E s \in AttemptOutcomes(task[e]) : task' = [task EXCEPT ![e] = Over(@, s)]
    /\ UNCHANGED <<dbVars, server, cancel, posts, calls, late, published>>

\* finish (lifecycle.go): the terminal receipt is written if the fence still
\* holds.
Finish(e) ==
    /\ task[e].pc = "finish"
    /\ \/ writeReceipt(e, task[e].key[1], task[e].key[2], task[e].outcome)
       \/ /\ e \in Flaky \/ ~ fenceTx(e, task[e].key[1], task[e].key[2])
          /\ UNCHANGED dbVars
    /\ task' = [task EXCEPT ![e] = Left(@)]
    /\ UNCHANGED <<server, cancel, posts, calls, late, published>>

\* The deferred step of runAttempt: the attempt leaves `active`.
Return(e) ==
    /\ task[e].pc = "return"
    /\ task' = [task EXCEPT ![e] = NoTask]
    /\ UNCHANGED <<dbVars, server, cancel, posts, calls, late, published>>

DeadlinePasses(key) ==
    /\ jobs[key[1]].attempt = key[2]
    /\ jobs[key[1]].state = "running"
    /\ key \notin late
    /\ late' = late \cup {key}
    /\ UNCHANGED <<dbVars, server, task, cancel, posts, calls, published>>

-----------------------------------------------------------------------------
(* The cancel handler.                                                     *)

\* Variant: the attempt's context is left alone until markCanceled is done.
CancelBeginsGently(e, key) ==
    /\ server[e] = "ready"
    /\ cancel[e] = NoCancel
    /\ task' = task
    /\ cancel' = [cancel EXCEPT ![e] = [NoCancel EXCEPT !.pc = IF Active(e, key) THEN "read" ELSE "load",
                                                       !.key = key]]

\* cancel: the attempt's context is ended first.
CancelBegins(e, key) ==
    /\ server[e] = "ready"
    /\ cancel[e] = NoCancel
    /\ IF Active(e, key)
       THEN /\ task' = [task EXCEPT ![e] = Stopped(@)]
            /\ cancel' = [cancel EXCEPT ![e] = [NoCancel EXCEPT !.pc = "read", !.key = key]]
       ELSE /\ task' = task
            /\ cancel' = [cancel EXCEPT ![e] = [NoCancel EXCEPT !.pc = "load", !.key = key]]

\* Variant: a cancelled attempt is interrupted whatever it may have delivered.
CancelStateInterrupted(e, key) == "interrupted"

\* markCanceled chooses the state from the receipt it reads.
CancelState(e, key) ==
    IF Row(key).state = "running" /\ MayDeliver(key) THEN "delivery_unknown" ELSE "interrupted"

\* markCanceled reads the job and the receipt, or fails to.
CancelReads(e) ==
    /\ cancel[e].pc = "read"
    /\ LET key == cancel[e].key IN
       \/ /\ jobs[key[1]].state = "running"
          /\ Row(key).instance = e
          /\ cancel' = [cancel EXCEPT ![e].pc = "write", ![e].state = CancelState(e, key)]
       \/ /\ e \in Flaky \/ jobs[key[1]].state # "running"
          /\ cancel' = [cancel EXCEPT ![e].pc = "load"]
    /\ UNCHANGED <<dbVars, server, task, posts, calls, late, published>>

\* markCanceled writes under the fence, or fails.
CancelWrites(e) ==
    /\ cancel[e].pc = "write"
    /\ \/ writeReceipt(e, cancel[e].key[1], cancel[e].key[2], cancel[e].state)
       \/ /\ e \in Flaky \/ ~ fenceTx(e, cancel[e].key[1], cancel[e].key[2])
          /\ UNCHANGED dbVars
    /\ cancel' = [cancel EXCEPT ![e].pc = "load"]
    /\ UNCHANGED <<server, task, posts, calls, late, published>>

\* cancel has waited for the attempt, or long enough, and reads the receipt;
\* without one the handler answers 404 and is done.
CancelLoads(e) ==
    /\ cancel[e].pc = "load"
    /\ cancel' = [cancel EXCEPT ![e] =
                    IF Row(cancel[e].key) = NoReceipt THEN NoCancel
                    ELSE [@ EXCEPT !.pc = "reply", !.state = Row(cancel[e].key).state]]
    /\ UNCHANGED <<dbVars, server, task, posts, calls, late, published>>

-----------------------------------------------------------------------------

ServerStep(e) ==
    \/ Open(e)
    \/ StopServing(e)
    \/ Close(e)
    \/ Die(e)
    \/ GuardSessionEnds(e)
    \/ \E p \in posts : Accept(e, p)
    \/ Launch(e)
    \/ Start(e)
    \/ StartFails(e)
    \/ CallPublish(e)
    \/ InitializeFails(e)
    \/ PipelineReturns(e)
    \/ Finish(e)
    \/ Return(e)
    \/ CancelReads(e)
    \/ CancelWrites(e)
    \/ CancelLoads(e)

NetworkStep == \E key \in Keys : Publish(key) \/ DeadlinePasses(key)
=============================================================================
