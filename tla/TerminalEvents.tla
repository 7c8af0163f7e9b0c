--------------------------- MODULE TerminalEvents ---------------------------
(***************************************************************************)
(* What follows a job's completion: the execution server commits a pending *)
(* alert and notifies the domain service once (LegacyAdapter.Finalize);    *)
(* the domain service (terminalevents) claims the alert, updates the       *)
(* ledger of the schedule's sources, sends outside any transaction, and    *)
(* records the result.  The jobs are the news_processing jobs of one       *)
(* schedule, named by their queue positions; their completions may be      *)
(* applied in any order, for a lost completion is applied by a recovery.   *)
(*                                                                         *)
(* Wording, the count of suppressed repeats and the schedule_settings row  *)
(* are left out: no code under src/ sets is_running any more.              *)
(***************************************************************************)
EXTENDS Naturals, FiniteSets

CONSTANTS Jobs,        \* queue positions
          Sources,     \* ingestion sources
          Configs,     \* configurations a source may have (config_sha256)
          MaxSources,  \* sources a ledger may hold
          Kinds,       \* ways a job may end: observed, failed, plain, refused
          Overlap,     \* notifications that may be under way at once
          Lossy,       \* jobs whose notification may meet a failure
          None

ASSUME PositionsAssumption == Jobs \subseteq Nat \ {0}
ASSUME NoJobAssumption == None \notin Jobs

VARIABLES row,          \* how each job ended
          alert,        \* legacy_alert_state of its receipt
          caller,       \* the Finalize call that notifies the domain service
          handler,      \* the domain service's handler of the job's event
          active,       \* the service's set of jobs being sent
          operational,  \* whether the schedule's operational alert is active
          mu,           \* job whose handler holds the mutex of Alerts
          ledger,       \* the source ledger in settings
          sent,         \* history: how often the provider was asked for an alert
          accepted,     \* history: jobs whose alert the provider took
          notices       \* history: what source notices were prepared

vars == <<row, alert, caller, handler, active, operational, mu, ledger, sent, accepted, notices>>

Items == [config : Configs, state : {"healthy", "warning"}]

Warnings(obs) == {s \in DOMAIN obs : obs[s].state = "warning"}

\* What classifyObservation accepts: some sources, as many as a ledger may
\* hold, and at most one warning.
Observations ==
    {obs \in UNION {[S -> Items] : S \in {S \in SUBSET Sources : Cardinality(S) \in 1 .. MaxSources}} :
        Cardinality(Warnings(obs)) <= 1}

NoSources == [s \in {} |-> None]

\* How a job ends: with an observation; failed, or with another warning or
\* deferred; succeeded without an observation; or with a receipt that tells
\* another outcome than the job, as AppliedEventIsAdmitted of WorkerLoop shows.
Outcomes == [kind : Kinds \cap {"observed"}, obs : Observations]
                \cup [kind : Kinds \ {"observed"}, obs : {NoSources}]

Unfinished == [kind |-> "none", obs |-> NoSources]

\* validateTerminal: the receipt has the job's state.
Current(j) == row[j].kind # "refused"

\* failure, as process reads it from the job's state and result.
Failed(j) == row[j].kind = "failed" \/ Warnings(row[j].obs) # {}

SourceStates == [config : Configs, failed : 0 .. 2, healthy : 0 .. 2,
                 last : {"new", "warning", "healthy", "missing"},
                 incident : {"none", "active", "attempting", "recovering", "unknown"},
                 job : Jobs \cup {None}]

NoHandler == [pc |-> "none", kind |-> "none", events |-> {}, sent |-> FALSE]

Events == [source : Sources, recovery : BOOLEAN]

TypeOK ==
    /\ row \in [Jobs -> Outcomes \cup {Unfinished}]
    /\ alert \in [Jobs -> {None, "pending", "attempting", "delivered", "unknown", "not_needed"}]
    /\ caller \in [Jobs -> {"none", "waiting", "done"}]
    /\ handler \in [Jobs -> [pc : {"none", "claimed", "sending", "record"},
                             kind : {"none", "notice", "failure", "recovery"},
                             events : SUBSET Events, sent : BOOLEAN]]
    /\ active \subseteq Jobs
    /\ operational \in BOOLEAN
    /\ mu \in Jobs \cup {None}
    /\ ledger.last \in Jobs \cup {0}
    /\ DOMAIN ledger.sources \subseteq Sources
    /\ \A s \in DOMAIN ledger.sources : ledger.sources[s] \in SourceStates

Init ==
    /\ row = [j \in Jobs |-> Unfinished]
    /\ alert = [j \in Jobs |-> None]
    /\ caller = [j \in Jobs |-> "none"]
    /\ handler = [j \in Jobs |-> NoHandler]
    /\ active = {} /\ operational = FALSE /\ mu = None
    /\ ledger = [last |-> 0, sources |-> NoSources]
    /\ sent = [j \in Jobs |-> 0] /\ accepted = {} /\ notices = {}

-----------------------------------------------------------------------------
(* The source ledger.                                                      *)

\* reconcileSourceLedger: nobody is sending what the ledger waits for.
Reconciled(sources) ==
    [s \in DOMAIN sources |->
        IF sources[s].incident \in {"attempting", "recovering"} /\ sources[s].job \notin active
        THEN [sources[s] EXCEPT !.incident = "unknown", !.job = None]
        ELSE sources[s]]

Missed(x) == [x EXCEPT !.failed = 0, !.healthy = 0, !.last = "missing"]

AllMissed(sources) == [s \in DOMAIN sources |-> Missed(sources[s])]

\* breakSourceStreaks
Broken(j) ==
    LET sources == Reconciled(ledger.sources) IN
    IF j <= ledger.last THEN [ledger EXCEPT !.sources = sources]
    ELSE [last |-> j, sources |-> AllMissed(sources)]

\* previousPosition
Previous(j) == {k \in Jobs : k < j /\ \A i \in Jobs : i < j => i <= k}

Fresh(config) == [config |-> config, failed |-> 0, healthy |-> 0, last |-> "new",
                  incident |-> "none", job |-> None]

Least(a, b) == IF a < b THEN a ELSE b

\* Variant: the count of warnings goes on.
WarnedUncapped(x, j) ==
    LET failed == IF x.last = "warning" THEN x.failed + 1 ELSE 1
        y == [x EXCEPT !.healthy = 0, !.failed = failed, !.last = "warning"] IN
    IF failed >= 2 /\ x.incident = "none"
    THEN [y EXCEPT !.incident = "attempting", !.job = j] ELSE y

\* Variant: an incident that is open already is reported again.
WarnedAgain(x, j) ==
    LET failed == IF x.last = "warning" THEN Least(2, x.failed + 1) ELSE 1
        y == [x EXCEPT !.healthy = 0, !.failed = failed, !.last = "warning"] IN
    IF failed >= 2 THEN [y EXCEPT !.incident = "attempting", !.job = j] ELSE y

Warned(x, j) ==
    LET failed == IF x.last = "warning" THEN Least(2, x.failed + 1) ELSE 1
        y == [x EXCEPT !.healthy = 0, !.failed = failed, !.last = "warning"] IN
    IF failed >= 2 /\ x.incident = "none"
    THEN [y EXCEPT !.incident = "attempting", !.job = j] ELSE y

Healthy(x, j) ==
    LET healthy == IF x.last = "healthy" THEN Least(2, x.healthy + 1) ELSE 1
        y == [x EXCEPT !.failed = 0, !.healthy = healthy, !.last = "healthy"] IN
    CASE healthy >= 2 /\ x.incident = "active" -> [y EXCEPT !.incident = "recovering", !.job = j]
      [] healthy >= 2 /\ x.incident = "unknown" -> [y EXCEPT !.incident = "none", !.job = None]
      [] OTHER -> y

\* Variant: a job whose event never came does not break the streaks.
ContinuedAlways(j, sources) == sources

\* The streaks that go on: only those of the job right before this one.
Continued(j, sources) ==
    IF ledger.last # 0 /\ ledger.last \notin Previous(j) THEN AllMissed(sources) ELSE sources

\* Variant: a reconfigured source keeps its streak.
KnownAnyhow(sources, s, config) ==
    IF s \in DOMAIN sources THEN [sources[s] EXCEPT !.config = config] ELSE Fresh(config)

\* The state of an observed source: a reconfigured one is a new one.
Known(sources, s, config) ==
    IF s \in DOMAIN sources /\ sources[s].config = config THEN sources[s] ELSE Fresh(config)

\* prepareSourceNotice, without the notice.
Prepared(j, obs) ==
    LET reconciled == Reconciled(ledger.sources)
        base == Continued(j, reconciled)
        kept == {s \in DOMAIN base \ DOMAIN obs : base[s].incident # "none" \/ base[s].job # None}
        known(s) == Known(base, s, obs[s].config) IN
    IF j <= ledger.last THEN [ledger EXCEPT !.sources = reconciled]
    ELSE [last |-> j,
          sources |-> [s \in kept \cup DOMAIN obs |->
                         IF s \in kept THEN Missed(base[s])
                         ELSE IF obs[s].state = "warning" THEN Warned(known(s), j)
                         ELSE Healthy(known(s), j)]]

\* The events of a prepared ledger that this job is to send.
EventsOf(j, l) ==
    IF j <= ledger.last THEN {}
    ELSE {[source |-> s, recovery |-> l.sources[s].incident = "recovering"] :
             s \in {s \in DOMAIN l.sources : l.sources[s].job = j}}

\* Variant: the incident is open whether or not its notice was delivered.
FinishedAnyway(j, events, delivered) ==
    [ledger EXCEPT !.sources = [s \in DOMAIN @ |->
        IF @[s].job = j
        THEN [@[s] EXCEPT !.incident = IF @ = "recovering" THEN "none" ELSE "active", !.job = None]
        ELSE @[s]]]

\* finishSourceNotice
Finished(j, events, delivered) ==
    [ledger EXCEPT !.sources = [s \in DOMAIN @ |->
        LET x == @[s]
            recovery == x.incident = "recovering" IN
        IF x.job = j /\ [source |-> s, recovery |-> recovery] \in events
        THEN [x EXCEPT !.incident = IF ~ delivered THEN "unknown"
                                    ELSE IF recovery THEN "none" ELSE "active",
                       !.job = None,
                       !.healthy = IF recovery THEN 0 ELSE @]
        ELSE x]]

\* abandonLedger
Abandoned(j) ==
    [ledger EXCEPT !.sources = [s \in DOMAIN @ |->
        IF @[s].job = j /\ @[s].incident \in {"attempting", "recovering"}
        THEN [@[s] EXCEPT !.incident = "unknown", !.job = None] ELSE @[s]]]

-----------------------------------------------------------------------------
(* The execution server.                                                   *)

UnderWay == {j \in Jobs : caller[j] = "waiting" \/ handler[j] # NoHandler}

\* Finalize, the first time: the completion of a job is applied, its alert is
\* pending, and the domain service is notified.  Until then nobody here looks
\* at how the job ended.
Finalize(j, outcome) ==
    /\ row[j] = Unfinished
    /\ Cardinality(UnderWay) < Overlap
    /\ row' = [row EXCEPT ![j] = outcome]
    /\ alert' = [alert EXCEPT ![j] = "pending"]
    /\ caller' = [caller EXCEPT ![j] = "waiting"]
    /\ UNCHANGED <<handler, active, operational, mu, ledger, sent, accepted, notices>>

\* notifyFinalized is refused, fails or times out, or readAlertState fails:
\* markAlertUnknown, whose own transaction may fail.
MarkUnknown(j) ==
    /\ j \in Lossy \/ ~ Current(j) \/ (alert[j] = "attempting" /\ handler[j] = NoHandler)
    /\ caller[j] = "waiting"
    /\ caller' = [caller EXCEPT ![j] = "done"]
    /\ alert' \in {alert} \cup
                  (IF alert[j] \in {"pending", "attempting"}
                   THEN {[alert EXCEPT ![j] = "unknown"]} ELSE {})
    /\ UNCHANGED <<row, handler, active, operational, mu, ledger, sent, accepted, notices>>

-----------------------------------------------------------------------------
(* The domain service.  An event that was sent may arrive at any later     *)
(* time, and again; acquire lets one handler at a time have it.            *)

\* The answer reaches its caller, which takes the receipt as it is, or is lost.
Answer(j) ==
    \/ caller' = [caller EXCEPT ![j] = IF @ = "waiting" THEN "done" ELSE @]
    \/ j \in Lossy /\ caller' = caller

Handling(j, kind, events) ==
    handler' = [handler EXCEPT ![j] = [NoHandler EXCEPT !.pc = "claimed", !.kind = kind, !.events = events]]

\* What process decides without the ledger.
Plain(j) == IF Failed(j) THEN "failure" ELSE IF operational THEN "recovery" ELSE "none"

\* What it decides with an observation that asks for no notice.
Quiet(j) == IF Warnings(row[j].obs) = {} /\ operational THEN "recovery" ELSE "none"

Skipped(j) == [ledger |-> ledger, events |-> {}, kind |-> Plain(j)]

\* Variant: the size of the ledger is not looked at.
LedgerStepsUnbounded(j) ==
    LET prepared == Prepared(j, row[j].obs)
        events == EventsOf(j, prepared) IN
    IF row[j].kind = "observed"
    THEN {[ledger |-> prepared, events |-> events, kind |-> IF events # {} THEN "notice" ELSE Quiet(j)]}
    ELSE {Skipped(j)}

\* The ledger part of process, in a savepoint: with an observation, without
\* one, or not at all because it would grow too large.
LedgerSteps(j) ==
    LET prepared == Prepared(j, row[j].obs)
        events == EventsOf(j, prepared) IN
    CASE row[j].kind = "observed" /\ Cardinality(DOMAIN prepared.sources) <= MaxSources ->
            {[ledger |-> prepared, events |-> events,
              kind |-> IF events # {} THEN "notice" ELSE Quiet(j)]}
      [] row[j].kind # "observed" /\ ledger.last # 0 ->
            {[ledger |-> Broken(j), events |-> {}, kind |-> Plain(j)]}
      [] OTHER -> {Skipped(j)}

\* Variant: an alert that is being attempted is claimed like a pending one.
PendingAgain(j) == alert[j] \in {"pending", "attempting"}

Pending(j) == alert[j] = "pending"

\* process, first transaction: a pending alert is claimed or found needless.
\* Only the question whether an operational alert is active takes the mutex.
ClaimAlert(j) ==
    /\ handler[j].pc = "none"
    /\ Current(j)
    /\ Pending(j)
    /\ \E step \in LedgerSteps(j) \cup (IF j \in Lossy THEN {Skipped(j)} ELSE {}) :
          /\ mu = None \/ Failed(j) \/ step.kind = "notice"
          /\ ledger' = step.ledger
          /\ notices' = notices \cup {[job |-> j, source |-> v.source, recovery |-> v.recovery] : v \in step.events}
          /\ IF step.kind = "none"
             THEN /\ alert' = [alert EXCEPT ![j] = "not_needed"]
                  /\ Answer(j)
                  /\ handler' = handler
             ELSE /\ alert' = [alert EXCEPT ![j] = "attempting"]
                  /\ caller' = caller
                  /\ Handling(j, step.kind, step.events)
    /\ UNCHANGED <<row, active, operational, mu, sent, accepted>>

\* process, first transaction, for an alert an earlier handler left behind.
AbandonAlert(j) ==
    /\ handler[j].pc = "none"
    /\ alert[j] = "attempting"
    /\ alert' = [alert EXCEPT ![j] = "unknown"]
    /\ ledger' = Abandoned(j)
    /\ Answer(j)
    /\ UNCHANGED <<row, handler, active, operational, mu, sent, accepted, notices>>

\* setActive; Failure may find that the alert was sent within the hour, and
\* Recovery that there is nothing to recover from.
BeginSend(j) ==
    LET kind == handler[j].kind IN
    /\ handler[j].pc = "claimed"
    /\ kind # "notice" => mu = None
    /\ \/ /\ (kind = "failure" /\ operational) \/ (kind = "recovery" /\ ~ operational)
          /\ handler' = [handler EXCEPT ![j].pc = "record"]
          /\ UNCHANGED <<active, mu, operational, sent>>
       \/ /\ kind = "recovery" => operational
          /\ handler' = [handler EXCEPT ![j].pc = "sending"]
          /\ active' = active \cup {j}
          /\ mu' = IF kind = "notice" THEN mu ELSE j
          /\ operational' = (operational \/ kind = "failure")
          /\ sent' = [sent EXCEPT ![j] = @ + 1]
    /\ UNCHANGED <<row, alert, caller, ledger, accepted, notices>>

\* The provider takes the message or does not, and its answer may be lost.
Send(j) ==
    /\ handler[j].pc = "sending"
    /\ \E took, ok \in BOOLEAN :
          /\ ok => took
          /\ j \in Lossy \/ ok
          /\ accepted' = IF took THEN accepted \cup {j} ELSE accepted
          /\ handler' = [handler EXCEPT ![j].pc = "record", ![j].sent = ok]
          /\ operational' = CASE handler[j].kind = "notice" -> operational
                              [] handler[j].kind = "failure" -> ok
                              [] handler[j].kind = "recovery" -> ~ ok
    /\ active' = active \ {j}
    /\ mu' = IF mu = j THEN None ELSE mu
    /\ UNCHANGED <<row, alert, caller, ledger, sent, notices>>

\* Variant: what became of the alert in the meantime is not looked at.
RecordOver(j) ==
    /\ handler[j].pc = "record"
    /\ \/ /\ alert' = [alert EXCEPT ![j] = IF handler[j].sent THEN "delivered" ELSE "unknown"]
          /\ ledger' = Finished(j, handler[j].events, handler[j].sent)
       \/ j \in Lossy /\ UNCHANGED <<alert, ledger>>
    /\ handler' = [handler EXCEPT ![j] = NoHandler]
    /\ Answer(j)
    /\ UNCHANGED <<row, active, operational, mu, sent, accepted, notices>>

\* Variant: a send that failed counts like one that did not.
RecordHopefully(j) ==
    /\ handler[j].pc = "record"
    /\ \/ /\ alert[j] = "attempting"
          /\ alert' = [alert EXCEPT ![j] = "delivered"]
          /\ ledger' = Finished(j, handler[j].events, TRUE)
       \/ (j \in Lossy \/ alert[j] # "attempting") /\ UNCHANGED <<alert, ledger>>
    /\ handler' = [handler EXCEPT ![j] = NoHandler]
    /\ Answer(j)
    /\ UNCHANGED <<row, active, operational, mu, sent, accepted, notices>>

\* process, second transaction: the result is recorded unless somebody else
\* decided the alert, or the authority or the transaction failed.
Record(j) ==
    /\ handler[j].pc = "record"
    /\ \/ /\ alert[j] = "attempting"
          /\ alert' = [alert EXCEPT ![j] = IF handler[j].sent THEN "delivered" ELSE "unknown"]
          /\ ledger' = Finished(j, handler[j].events, handler[j].sent)
       \/ (j \in Lossy \/ alert[j] # "attempting") /\ UNCHANGED <<alert, ledger>>
    /\ handler' = [handler EXCEPT ![j] = NoHandler]
    /\ Answer(j)
    /\ UNCHANGED <<row, active, operational, mu, sent, accepted, notices>>

\* The domain service dies and starts again.
Restart ==
    /\ \E j \in Lossy : handler[j] # NoHandler
    /\ handler' = [j \in Jobs |-> NoHandler]
    /\ active' = {} /\ operational' = FALSE /\ mu' = None
    /\ UNCHANGED <<row, alert, caller, ledger, sent, accepted, notices>>

Handle(j) == ClaimAlert(j) \/ AbandonAlert(j) \/ BeginSend(j) \/ Send(j) \/ Record(j)

Next ==
    \/ \E j \in Jobs : \/ \E outcome \in Outcomes : Finalize(j, outcome)
                       \/ MarkUnknown(j)
                       \/ Handle(j)
    \/ Restart

Spec == Init /\ [][Next]_vars

\* A handler that runs goes on, and a caller gets an answer or an error.  No
\* code sends an event a second time, so AbandonAlert is owed to nobody.
FairSpec ==
    /\ Spec
    /\ \A j \in Jobs : /\ WF_vars(ClaimAlert(j) \/ BeginSend(j) \/ Send(j) \/ Record(j))
                       /\ WF_vars(MarkUnknown(j))

-----------------------------------------------------------------------------

\* The provider is asked at most once to send a job's alert, however often the
\* event arrives and whoever dies in between.
AskedOnce == \A j \in Jobs : sent[j] <= 1

\* The recorded alert state is never wrong about the provider: what is
\* recorded as delivered was taken, what was found needless was not asked for.
RecordIsTrue ==
    \A j \in Jobs :
        /\ alert[j] = "delivered" => j \in accepted
        /\ alert[j] \in {"not_needed", "pending"} => sent[j] = 0

\* An alert that was decided stays so: when Finalize gave up and marked it
\* unknown, the late result of the send that was under way does not change it.
DecidedAlertStays ==
    [][\A j \in Jobs : alert[j] \in {"delivered", "unknown", "not_needed"}
                          => alert'[j] = alert[j]]_vars

\* The ledger in settings never has more sources than validSourceLedger loads,
\* although incidents of sources that are gone stay in it.
LedgerFits == Cardinality(DOMAIN ledger.sources) <= MaxSources

ObservedAs(j, s, state) == s \in DOMAIN row[j].obs /\ row[j].obs[s].state = state

\* A source is reported only for two warnings in a row under one
\* configuration: with this job and with the schedule's job before it.
WarnedTwiceInARow ==
    \A n \in notices : ~ n.recovery =>
        \E k \in Previous(n.job) :
            /\ ObservedAs(k, n.source, "warning") /\ ObservedAs(n.job, n.source, "warning")
            /\ row[k].obs[n.source].config = row[n.job].obs[n.source].config

Between(i, j) == {k \in Jobs : i < k /\ k < j}

\* A source that was reported is not reported again before it was healthy in
\* two of the jobs in between, unless it was reconfigured.
NoRepeatedReport ==
    \A m, n \in notices :
        /\ m.source = n.source /\ m.job < n.job /\ ~ m.recovery /\ ~ n.recovery
        => \/ Cardinality({k \in Between(m.job, n.job) : ObservedAs(k, m.source, "healthy")}) >= 2
           \/ \E k \in Between(m.job, n.job) \cup {n.job} :
                 /\ m.source \in DOMAIN row[k].obs
                 /\ row[k].obs[m.source].config # row[m.job].obs[m.source].config

\* A recovery is announced only of a source whose warning the provider took.
RecoveryOfReported ==
    \A n \in notices : n.recovery =>
        \E m \in notices : /\ ~ m.recovery /\ m.source = n.source
                           /\ m.job < n.job /\ m.job \in accepted

\* The contract says of the alert state that it becomes unknown when a process
\* restarts after attempting.
LostAttemptBecomesUnknown ==
    \A j \in Jobs : alert[j] = "attempting" /\ handler[j] = NoHandler ~> alert[j] = "unknown"
=============================================================================
