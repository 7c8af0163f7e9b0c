CONSTANTS
    Jobs = {1, 2}
    Workers = {w1, w2}
    Executors = {}
    MaxJobAttempts = 2
    MaxPendingJobs = 1
    None = None
SPECIFICATION Spec
INVARIANTS AtMostOneRunning
PROPERTIES ImplementsJobQueue
SYMMETRY RunSymmetry
CHECK_DEADLOCK FALSE
