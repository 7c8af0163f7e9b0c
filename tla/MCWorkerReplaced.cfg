\* A delivering job while its worker run is shut down, crashes or loses its lease.
SPECIFICATION SystemSpec
CONSTANTS
    Jobs = {1}
    Workers = {w1, w2}
    Executors = {e1}
    MaxJobAttempts = 2
    MaxPendingJobs = 1
    None = None
    Delivering = {1}
    Mortal = {w1}
    Flaky = {}
    ClaimMayBeAmbiguous = FALSE
INVARIANT PublishedIsKept
CHECK_DEADLOCK FALSE
