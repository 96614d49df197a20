CONSTANTS
    Inst = {i1}
    Limit = 1
    Calls = {"delete", "protect"}
    Faults = {}
    MaxCalls = 2
    MaxFaults = 0
SPECIFICATION Spec
PROPERTY ProtectedIgnored
CHECK_DEADLOCK TRUE
