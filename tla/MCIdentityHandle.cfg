\* Callers serialize their calls on each Identity object.
CONSTANTS
    Threads = {t1, t2, t3}
    Objects = {o1, o2, o3}
    Addrs = {a1, a2}
    None = None
    Free = Free
    NoObj = NoObj
    Serialized = TRUE
SPECIFICATION Spec
INVARIANTS NoUseAfterFree FreeOnlyLiveAnchor
SYMMETRY MCSymmetry
\* The program ends once it has loaded and released every identity.
CHECK_DEADLOCK FALSE
