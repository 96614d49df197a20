CONSTANTS
    Inst = {i1, i2}
    Limit = 1
    Calls = {"remove", "protect", "force"}
    Faults = {}
    MaxCalls = 2
    MaxFaults = 0
SPECIFICATION Spec
SYMMETRY Symmetry
VIEW Present
INVARIANT LimiterExact
CHECK_DEADLOCK TRUE
