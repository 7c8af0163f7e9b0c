\* A delivering job when any request or transaction may fail or have an unknown outcome.
SPECIFICATION SystemSpec
CONSTANTS
    Jobs = {1}
    Workers = {w1}
    Executors = {e1}
    MaxJobAttempts = 2
    MaxPendingJobs = 1
    None = None
    Delivering = {1}
    Mortal = {}
    Flaky = {w1, e1}
    ClaimMayBeAmbiguous = TRUE
INVARIANTS SystemTypeOK SucceededByServer PublishedOnce ReceiptTellsDelivery
CHECK_DEADLOCK FALSE
