CONSTANTS
    Inst = {i1}
    Sub = {s1, s2, s3}
    Nets <- OverlappingNets
    Free = Free
    Absent = Absent
    None = None
    Calls = {"add"}
    MaxCalls = 2
SPECIFICATION Spec
INVARIANT NoOverlap
CHECK_DEADLOCK FALSE
