CONSTANTS
    Inst = {i1, i2}
    Sub = {s1, s2}
    Nets <- TwoNets
    Free = Free
    Absent = Absent
    None = None
    Calls = {"move", "add", "drop", "force"}
    MaxCalls = 1
SPECIFICATION Spec
INVARIANTS TypeOK OneAddress EnoughForAll Exclusive NoLeak
PROPERTY NeverStolen
SYMMETRY Symmetry
CHECK_DEADLOCK FALSE
