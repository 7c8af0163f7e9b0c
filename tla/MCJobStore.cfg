CONSTANTS
    Jobs = {1}
    Workers = {w1, w2}
    Executors = {e1, e2}
    MaxJobAttempts = 2
    MaxPendingJobs = 2
    None = None
SPECIFICATION Spec
INVARIANTS TypeOK FinishedJobHasReceipt
PROPERTIES OwnerNeverGoesBack NoEventPruned ReceiptHistoryFrozen
SYMMETRY RunServerSymmetry
CHECK_DEADLOCK FALSE
