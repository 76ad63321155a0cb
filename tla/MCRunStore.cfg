SPECIFICATION MCSpec
CONSTANTS
    Ids = {a, b}
    alone = a
    MarkKinds = {"sent", "claimed"}
    MaxOps = 2
    MaxEdits = 1
    MaxDeletes = 1
    MaxFailures = 1
    MaxCrashes = 1
INVARIANTS
    RecordsAreSound
    UneditedMarksStay
PROPERTIES
    OneRunEnds
CHECK_DEADLOCK FALSE
