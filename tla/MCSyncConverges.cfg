SPECIFICATION FairSpec
CONSTANTS
    None = None
    Resources <- Live
    Owners <- Two
    Fields = {"name"}
    Rows <- FewRows
    Does = {"outage"}
    Outcomes = {"ok"}
    Prompt = TRUE
    MaxVersions = 3
    MaxRequests = 2
PROPERTIES NeverOlder Converges
CHECK_DEADLOCK FALSE
