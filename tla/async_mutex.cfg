\* Condition variables (pthread, C11) and the Win32 emulation of one.
SPECIFICATION FairSpec
CONSTANTS
    Thread = {t1, t2, t3}
    Backends = {"condition", "event"}
    MaxDepth = 2
INVARIANTS
    TypeOK
    LockIsKept
    WaitersAreCounted
PROPERTIES
    SomeoneWakes
    TimedWaitsReturn
CHECK_DEADLOCK FALSE
