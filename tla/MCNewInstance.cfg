\* What the worker concludes from the readiness of another instance.
SPECIFICATION SystemSpec
CONSTANTS
    Jobs = {1}
    Workers = {w1}
    Executors = {e1, e2}
    MaxJobAttempts = 1
    MaxPendingJobs = 1
    None = None
    Delivering = {1}
    Mortal = {e1}
    Flaky = {}
    ClaimMayBeAmbiguous = FALSE
INVARIANTS NewInstanceMeansOldStopped
CHECK_DEADLOCK FALSE
