SPECIFICATION FairSpec
CONSTANTS
    None = None
    Forms <- Kinds
    Fields = {"memory", "types", "name", "username", "auth_user_expire"}
    Does = {"cancel", "delete", "act", "leave", "others"}
    Outcomes = {"ok", "err", "lost"}
    MaxMoment = 2
    MaxWrites = 2
    MaxTimers = 2
INVARIANTS TypeOK OneWrite GuardedSaved CancelCancels
PROPERTIES EditsKept SeenKept Ready
CHECK_DEADLOCK FALSE
