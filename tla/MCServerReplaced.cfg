\* A delivering job while the server that runs it loses its guard, closes or dies.
SPECIFICATION SystemSpec
CONSTANTS
    Jobs = {1}
    Workers = {w1}
    Executors = {e1, e2}
    MaxJobAttempts = 2
    MaxPendingJobs = 1
    None = None
    Delivering = {1}
    Mortal = {e1}
    Flaky = {e1}
    ClaimMayBeAmbiguous = FALSE
INVARIANTS PublishedIsKept
CHECK_DEADLOCK FALSE
