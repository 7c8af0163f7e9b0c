# Evening News: the durable job queue and its execution

TLA+ models of the parts of Evening News that keep a job's outcome right while
worker runs, execution servers and database sessions come and go.

## The system

Everything that runs in the background is a row of `background_jobs`. The web
application and the scheduler insert rows. One **worker** at a time
(`go-worker`) owns the queue through a lease: a session advisory lock and the
single row of `background_worker_status`, with a generation that grows with
every owner. It claims the first job, asks the **execution server**
(`go-execution`) over HTTP to run the attempt, polls the attempt's receipt in
`background_job_executions`, and records the outcome. The server holds a
second advisory lock, the guard, and checks lease, guard, job and receipt in
one transaction (the fence) before everything it writes. An attempt may ask the
**domain service** (`go-domain`) to publish a digest; the domain service checks
the same fence before it sends. After a job is finished the worker sends a
completion event, which the server applies to the schedule and the receipt.

| part | state | operations | hard behaviour |
| --- | --- | --- | --- |
| worker store | worker row, lock, lease, jobs, receipts | acquire, heartbeat, release, claim, finish, exhaust, prune | a replaced run inside an old transaction; commits with an unknown outcome |
| worker loop | program counter, job, last answers | recover, claim, post, poll, cancel, persist, replay events | lost requests, timeouts, a server replaced between two requests |
| execution server | guard, active attempts, receipts | accept, start, finish, cancel, finalize, close | cancel against start; closing with an attempt running; late requests |
| delivery | intents, parts, provider | reserve, send, resolve, complete | a send whose answer is lost |
| completion | schedule row, alert state, source ledger | finalize, notify, send the alert | a crash between the steps |
| scheduler | schedules, occurrences | reserve, dispatch, advance | two dispatchers, clock changes |
| ingestion, processing | run records, items | start, fetch, commit | a run that lost its lease commits late |
| background process | components | start, ready, drain, stop | order of shutdown |
| web application, tools, extractor | | | sequential, or text processing |

`PROJECT.json` lists every part with the reason when it is not modelled, and the
hazards with the line where each one bites.

## Modules

| module | models |
| --- | --- |
| `JobStore` | the three tables, both advisory locks, and every transaction on them |
| `JobQueue` | the abstract queue that `JobStore` implements |
| `JobStoreProofs` | the inductive invariant of `JobStore` and the theorems |
| `MCJobStore` | `JobStore` for TLC: the symmetry of runs and servers |
| `ExecutionServer` | the server's handlers and the attempt, over `JobStore` |
| `WorkerLoop` | the worker's run, composed with the server: the whole system |
| `TerminalEvents` | what follows a completion: the alert state, the source ledger, the sends |
| `MCTerminalEvents` | `TerminalEvents` for TLC: the symmetry of sources and configurations |

**JobStore.** A transaction is one action. Those of the worker and the server
take the worker-status row `FOR UPDATE`, which orders their writes. Two things
this leaves out, and they are abstractions of the model, not consequences of
the code. `fenceTx` looks at the guard and the lease in `pg_locks` before it
takes the row (`acceptAttempt` takes the row first), so a session may end, and
another instance open, between the look and the write: the model has such a
write before the session ends. A submission takes an advisory lock of its own
and not the row, so a claim or a finish may commit between its count of the
waiting jobs and its insert, and the cap may be passed by what they added: the
model counts and inserts at once. A worker run and a server instance are used
once, as in the code: `runner.go` opens a fresh store and `New` draws a fresh
instance id, so a restart is another member of `Workers` or `Executors`. Owner
UUID and backend pid are drawn per acquisition and stand as the run. Heartbeat
times are reduced to fresh or older than twenty seconds. `Next` is the most
general client: any run and any server may issue any transaction at any time.

**ExecutionServer.** `server` is the life of each instance, `task` the one
attempt it may run (`accept` refuses while `active` is not empty), `cancel` the
cancel request it is serving. `posts` and `calls` are the requests sent so far
and only grow: a request may be handled at any later time or never. `published`
is history: the attempts whose delivery may have started. `runAttempt` is
`Start` or `StartFails`, `InitializeFails` for a reprocessing job, the pipeline,
then `Finish`, which writes the receipt, and `Return`, the deferred removal from
`active`: a cancel request or a shutdown may fall between the last two.

**WorkerLoop.** `run[w]` is a program counter with the answers the run acts on.
A read that fails and is retried by its loop is a stuttering step. A cancel
request begins to be served in the step of the request before it, since what
may happen between the two may as well happen before one or after the other.
Heartbeats do not appear in the composition: what an aged heartbeat can do is
make a fenced transaction fail, and the transactions of `Flaky` parties may
fail anyway. `Mortal` are the runs and servers that may crash, be shut down or
lose a session; `Flaky` those whose requests and transactions may fail, where a
failed commit may have been applied. Definitions marked *Variant* in a comment
are deliberately wrong versions of the definition below them, used to see that
the properties notice.

**TerminalEvents.** `row` is how each job of one schedule ended, `alert` the
alert state of its receipt, `caller` the one notification `Finalize` sends and
`handler` the domain service's handling of it. The two transactions of `process`
are `ClaimAlert` (or `AbandonAlert`, when an earlier handler left the alert
behind) and `Record`; the send between them is `BeginSend` and `Send`, outside
any transaction. `active`, `operational` and `mu` are in memory and are lost by
`Restart`. `ledger` is the row in settings; last position 0 stands for no row.
A job is `refused` when its receipt tells another outcome than the job, so that
`validateTerminal` turns its event away. `sent`, `accepted` and `notices` are
history. The hour after which an operational alert is repeated is a choice.
Completions may be applied in any order, which is more than the serial queue
does.

## Runs

| run | instance | shows |
| --- | --- | --- |
| `store` | 1 job, 2 runs, 2 servers | receipts, fences and retention hold under any order of transactions |
| `queue` | 2 jobs, 2 runs, cap 1 | the queue is serial and implements `JobQueue`, its cap included |
| `worker_replaced` | 2 runs, 1 server, 2 attempts, delivering | `PublishedIsKept` when the first run is shut down, dies or loses its lease |
| `server_replaced` | 1 run, 2 servers, the first mortal and flaky, 2 attempts, delivering | the same when the first server is the one |
| `server_replaced_live` | the same with 1 attempt | `EveryJobEnds` under fairness |
| `flaky` | 1 run, 1 server, everything may fail | types, `PublishedOnce`, `SucceededByServer`, `ReceiptTellsDelivery` |
| `worker_replaced_live` | 2 runs, 1 server | `RecoveryNeverHangs` under fairness |
| `alerts` | 3 jobs, 2 sources, 2 configurations, a ledger for 1, jobs 1 and 2 lossy | `AskedOnce`, `RecordIsTrue`, `DecidedAlertStays`, `WarnedTwiceInARow`, `LedgerFits` |
| `source_ledger` | 6 observed jobs, 1 source, 2 handled at a time, job 2 lossy | `WarnedTwiceInARow`, `NoRepeatedReport`, `RecoveryOfReported` |
| `new_instance` | 1 run, 2 servers | the comment that a new instance proves the old one's tasks exited does not hold |
| `lost_attempt` | 1 failed job | an alert that was being attempted need not become unknown |
| `refused_event` | 2 runs, 1 server, 1 attempt | a completion may be applied whose event the alert policy refuses |

**Bounds.** Two attempts are the fewest for which a second delivery, the attempt
limit and a stale receipt can happen. Two runs, or two servers, are one
replacement; a third repeats the second's situation, since nothing but the
generation remembers earlier owners. Two jobs are needed only for the queue's
order and are left to `queue`. The replacement of a run and that of a server
are separate runs because together they exceed what TLC can finish. Liveness
with a replaced server is checked with one attempt: the attempt limit, where a
job could be left behind, is then the first attempt's end.

Six jobs are the fewest in which a source is reported, recovers and is reported
again: two warnings, two healthy observations, two warnings. `Lossy` are the
jobs whose notification may fail and `Overlap` the notifications under way at
once; with a second lossy job six jobs exceed what TLC can finish, so failures
of two jobs are left to `alerts`. Its three jobs are the fewest in which a
source is reported and another one then asks for its place; one entry is enough
to fill the ledger, which in the code holds 64.

**Deadlock** is not checked in the composition: once every job has ended and
every mortal party has gone, the system may stop. So may `TerminalEvents` when
every job's notification is settled.

**Fairness.** Every process takes its next step: each step of the loops is
followed by another, or bounded by a timeout (`CleanupEnds` stands for the
cancellation timeout, `DeadlinePasses` for the attempt's deadline). The
heartbeat loop and `watch` poll, so a lost lock is noticed; PostgreSQL ends the
session of a process that is gone. Strong fairness is assumed of one thing: of
the cancel requests that recovery repeats for as long as it must, one is
answered at last. No fairness is assumed of failures. In `TerminalEvents` a
handler goes on and a caller gets an answer or an error; `AbandonAlert` needs a
second event, which no code sends, so nothing is assumed of it.

## Proofs

`JobStoreProofs` proves, for any number of jobs, runs, servers and attempts and
any queue cap, from the named assumptions of `JobStore` alone: `TypeOK`,
`AtMostOneRunning`, `FinishedJobHasReceipt`, the action properties
`OwnerNeverGoesBack`, `NoEventPruned` and `ReceiptHistoryFrozen`, and the
refinement `ImplementsJobQueue`. The queue it implements refuses submissions at
the cap and lets at most two follow-up jobs in with a claim.

The inductive invariant `IInv` adds two facts to the properties.
`AttemptCounted`: a job that is running or ended has used at least one attempt,
so the receipt that `finish` inserts lies within `Attempts`. `OwnerHandedOut`:
no generation on a row is newer than the last one given out. Without it
`OwnerNeverGoesBack` is not inductive: a fenced write stamps the current
generation, and the row must not carry a later one. Each action has a lemma;
the action properties and the refinement are then proved step by step under
`IInv`.

Only model-checked: everything about the composition and about
`TerminalEvents`, and liveness, which is out
of the prover's reach.

## Findings

`worker.go` says twice that a newly ready instance proves that the tasks of the
old one have exited. `Server.Close` gives up waiting after a bound and releases
the guard with a handler still running, and the guard session can be lost before
`watch` notices. The run `new_instance` shows the two side by side; the fences
keep the outcome right (`server_replaced`).

The contract (`docs/execution-and-orchestration-contract.md:83`, `:133`) says
that an alert which a lost process was attempting becomes unknown. The domain
service does that for a second event of the same job, and `Finalize` sends one.
When the domain service dies while attempting and `markAlertUnknown` fails, the
alert stays `attempting` (`lost_attempt`). Nothing is sent twice (`AskedOnce`).

The contract (`:83`) says that the first application of a completion runs the
alert policy. `Finalize` leaves a terminal receipt as it is, and the policy
refuses an event whose receipt differs from the job. They differ when an attempt
succeeds while its cancel request is answered with the state read before
(`refused_event`), or when an interrupted attempt was the last one allowed. The
alert is then marked unknown.

## Plan

1. `JobStore`, `JobQueue`, proofs: done.
2. `ExecutionServer`, `WorkerLoop`: done.
3. `TerminalEvents`: done, but for the schedule row (`applyScheduleCompletion`,
   `Recover`), and not yet composed with `JobStore`.
4. `TelegramDelivery`, `ViberDelivery`: reservation, send, resolution and
   completion of parts; an abstract delivery that sends a part at most once
   without an operator's word. Then composed with `Publish`.
5. `Scheduler`: occurrence reservation and dispatch with two dispatchers,
   revisions; the calendar as operators against a reference definition.
6. `Submission`: idempotency keys and coalescing in front of `Enqueue`.
7. `Processing` and `Ingestion` runs; `Callbacks`, the bounded admission cache;
   `BackgroundProcess`, start and shutdown order.
8. Proofs: the composition takes only steps of `JobStore`, then
   `PublishedIsKept`, then `AskedOnce` and `RecordIsTrue`, then the invariants of
   the deliveries.
