\* Recovery of a job by the next worker run.
SPECIFICATION FairSpec
CONSTANTS
    Jobs = {1}
    Workers = {w1, w2}
    Executors = {e1}
    MaxJobAttempts = 1
    MaxPendingJobs = 1
    None = None
    Delivering = {}
    Mortal = {w1}
    Flaky = {}
    ClaimMayBeAmbiguous = FALSE
PROPERTIES RecoveryNeverHangs
CHECK_DEADLOCK FALSE
