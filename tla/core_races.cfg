\* The code as it is, races included.
SPECIFICATION Spec
CONSTANTS
    t1 = t1
    t2 = t2
    m1 = m1
    m2 = m2
    c1 = c1
    NULL = NULL
    Thread <- MCThread
    LState <- MCLState
    Main <- MCMain
    Owner <- MCOwner
    Intr = {i1, i2}
    Udata = {u1, u2, u3}
SYMMETRY Symmetry
INVARIANTS
    TypeOK
    UsedCountsRefs
    UnreferencedIsBeingFreed
    DetachedBeforeFreed
    TestedL2IsCurrent
CHECK_DEADLOCK FALSE
