\* Three jobs that end in any way, with more sources than the ledger may hold;
\* any step of the notifications of the first two may fail.
SPECIFICATION Spec
SYMMETRY SourceSymmetry
CONSTANTS
    Jobs = {1, 2, 3}
    Sources = {s1, s2}
    Configs = {c1, c2}
    MaxSources = 1
    Kinds = {"observed", "failed", "plain", "refused"}
    Overlap = 2
    Lossy = {1, 2}
    None = None
INVARIANTS AskedOnce RecordIsTrue WarnedTwiceInARow LedgerFits
PROPERTIES DecidedAlertStays
CHECK_DEADLOCK FALSE
