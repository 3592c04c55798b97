\* Threads share Identity objects without a lock of their own, and callers
\* close, use and drop them in any order: no anchor is leaked all the same.
CONSTANTS
    Threads = {t1, t2, t3}
    Objects = {o1, o2, o3}
    Addrs = {a1, a2}
    None = None
    Free = Free
    NoObj = NoObj
    Serialized = FALSE
SPECIFICATION Spec
INVARIANT NoLeak
SYMMETRY MCSymmetry
\* The program ends once it has loaded and released every identity.
CHECK_DEADLOCK FALSE
