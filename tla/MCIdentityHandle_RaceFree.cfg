\* Threads share Identity objects without a lock of their own.
CONSTANTS
    Threads = {t1, t2}
    Objects = {o1, o2, o3}
    Addrs = {a1, a2}
    None = None
    Free = Free
    NoObj = NoObj
    Serialized = FALSE
SPECIFICATION Spec
INVARIANT FreeOnlyLiveAnchor
SYMMETRY MCSymmetry
CHECK_DEADLOCK FALSE
