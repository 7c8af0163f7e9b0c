\* A job with one attempt that the shutdown of a worker interrupts.
SPECIFICATION SystemSpec
CONSTANTS
    Jobs = {1}
    Workers = {w1, w2}
    Executors = {e1}
    MaxJobAttempts = 1
    MaxPendingJobs = 1
    None = None
    Delivering = {}
    Mortal = {w1}
    Flaky = {}
    ClaimMayBeAmbiguous = FALSE
INVARIANTS AppliedEventIsAdmitted
CHECK_DEADLOCK FALSE
