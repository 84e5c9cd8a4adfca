\* lua_close of a main state against the release of another handle.
SPECIFICATION Spec
CONSTANTS
    t1 = t1
    t2 = t2
    m1 = m1
    m2 = m2
    c1 = c1
    NULL = NULL
    Thread <- MCThread
    LState <- MCLState
    Main <- MCMain
    Owner <- MCOwner
    Intr = {i1}
    Udata = {u1, u2}
INVARIANT
    DetachReachesRecord
CHECK_DEADLOCK FALSE
