CONSTANTS
    Inst = {i1}
    Limit = 1
    Calls = {"restart"}
    Faults = {}
    MaxCalls = 1
    MaxFaults = 0
SPECIFICATION FairSpec
PROPERTY NamespaceKept
CHECK_DEADLOCK TRUE
