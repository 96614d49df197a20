CONSTANTS
    Proc = {p1, p2, p3}
    Key = {k1, k2}
    Mutex = {m1, m2, m3}
    None = None
SPECIFICATION FairSpec
INVARIANTS TypeOK MutualExclusion NoOrphan CountExact OwnerInside
PROPERTIES ImplementsKeyedLock Served
CHECK_DEADLOCK TRUE
