SPECIFICATION Spec
CONSTANTS
    None = None
    Resources <- Kinds
    Owners = {a, b}
    Fields = {"id"}
    Rows <- EdgeRows
    Does = {"leave", "filter", "turn", "switch", "refresh", "rival"}
    Outcomes = {"ok", "err", "auth"}
    Prompt = FALSE
    MaxVersions = 2
    MaxRequests = 2
INVARIANTS TypeOK FreshList NotStranded SpinsWhileAsking RefreshEnds
SYMMETRY Symmetry
CHECK_DEADLOCK FALSE
