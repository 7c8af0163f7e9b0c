\* The same with one attempt, under fairness.
SPECIFICATION FairSpec
CONSTANTS
    Jobs = {1}
    Workers = {w1}
    Executors = {e1, e2}
    MaxJobAttempts = 1
    MaxPendingJobs = 1
    None = None
    Delivering = {1}
    Mortal = {e1}
    Flaky = {e1}
    ClaimMayBeAmbiguous = FALSE
PROPERTIES EveryJobEnds
CHECK_DEADLOCK FALSE
