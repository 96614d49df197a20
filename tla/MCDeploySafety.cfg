CONSTANTS
    Inst = {i1}
    Limit = 1
    Calls = {"start", "stop", "restart", "delete"}
    Faults = {"exit", "crash", "error", "blind"}
    MaxCalls = 3
    MaxFaults = 1
SPECIFICATION FairSpec
INVARIANTS TypeOK LimiterExact RemovedClean RunningIntact NoDoubleBoot
PROPERTIES ImplementsVmLifecycle Converges
CHECK_DEADLOCK TRUE
