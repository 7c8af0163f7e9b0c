\* Six observed jobs of one schedule, the notification of one of which may fail.
SPECIFICATION Spec
CONSTANTS
    Jobs = {1, 2, 3, 4, 5, 6}
    Sources = {s1}
    Configs = {c1}
    MaxSources = 1
    Kinds = {"observed"}
    Overlap = 2
    Lossy = {2}
    None = None
INVARIANTS WarnedTwiceInARow NoRepeatedReport RecoveryOfReported TypeOK
CHECK_DEADLOCK FALSE
