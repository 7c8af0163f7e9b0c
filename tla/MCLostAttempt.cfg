\* One failed job whose notification may fail.
SPECIFICATION FairSpec
CONSTANTS
    Jobs = {1}
    Sources = {s1}
    Configs = {c1}
    MaxSources = 1
    Kinds = {"failed"}
    Overlap = 2
    Lossy = {1}
    None = None
PROPERTY LostAttemptBecomesUnknown
CHECK_DEADLOCK FALSE
