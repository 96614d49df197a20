SPECIFICATION Spec
CONSTANTS
    None = None
    Forms <- One
    Fields = {"name"}
    Does = {"cancel"}
    Outcomes = {"ok", "err"}
    MaxMoment = 2
    MaxWrites = 1
    MaxTimers = 2
INVARIANT SavedMeansSaved
CHECK_DEADLOCK FALSE
