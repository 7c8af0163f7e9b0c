------------------------------ MODULE JobQueue ------------------------------
(***************************************************************************)
(* What the durable queue promises its users, with no lease, no receipt    *)
(* and no server in sight: jobs are submitted while the queue has room,    *)
(* started one at a time in queue order, an attempt is counted before it   *)
(* starts, an interrupted job is retried until its attempts are used up,   *)
(* and an outcome is recorded for good.                                    *)
(***************************************************************************)
EXTENDS Naturals, FiniteSets

CONSTANTS Jobs,           \* queue positions
          MaxJobAttempts, \* attempts a job may use
          MaxPendingJobs  \* waiting jobs at which submissions are refused

VARIABLE queue            \* each job's state and the attempts it has used

Row(state, attempt) == [state |-> state, attempt |-> attempt]

In(S) == {j \in Jobs : queue[j].state \in S}

Outcomes == {"succeeded", "failed", "delivery_unknown", "interrupted"}

Init == queue = [j \in Jobs |-> Row("absent", 0)]

With(batch, row) == [j \in Jobs |-> IF j \in batch THEN row ELSE queue[j]]

\* The queue is full also when it was follow-up jobs that filled it.
Submit(j) ==
    /\ j \in In({"absent"})
    /\ Cardinality(In({"queued", "interrupted"})) < MaxPendingJobs
    /\ queue' = With({j}, Row("queued", 0))

Ready(row) ==
    \/ row.state = "queued"
    \/ row.state = "interrupted" /\ row.attempt < MaxJobAttempts

\* The first ready job starts; two follow-up jobs may be submitted with it,
\* however full the queue is.
Start(j) ==
    /\ In({"running"}) = {}
    /\ \E submitted \in SUBSET In({"absent"}) :
          /\ Cardinality(submitted) <= 2
          /\ LET rows == With(submitted, Row("queued", 0)) IN
             /\ Ready(rows[j])
             /\ \A k \in Jobs : Ready(rows[k]) => j <= k
             /\ queue' = [rows EXCEPT ![j] = Row("running", rows[j].attempt + 1)]

\* The attempt ends, or recovery learns more about one that was interrupted.
Settle(j, outcome) ==
    /\ j \in In({"running", "interrupted"})
    /\ queue' = [queue EXCEPT ![j].state = outcome]

GiveUp(batch) ==
    /\ batch \subseteq {j \in In({"interrupted"}) : queue[j].attempt >= MaxJobAttempts}
    /\ queue' = [j \in Jobs |-> IF j \in batch THEN Row("failed", queue[j].attempt)
                                ELSE queue[j]]

Retire(batch) ==
    /\ batch \subseteq In({"succeeded", "failed"})
    /\ queue' = With(batch, Row("deleted", 0))

Next ==
    \/ \E j \in Jobs : Submit(j) \/ Start(j) \/ \E s \in Outcomes : Settle(j, s)
    \/ \E batch \in SUBSET Jobs : GiveUp(batch) \/ Retire(batch)

Spec == Init /\ [][Next]_queue
=============================================================================
