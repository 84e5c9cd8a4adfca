\* Two interrupting threads against the VM, which is scheduled fairly.
SPECIFICATION FairSpec
CONSTANTS
    NULL = NULL
    VM = VM
    Interrupter = {i1, i2}
    MaxCalls = 4
INVARIANTS
    TypeOK
    SingleRunsOnce
    OffIsFinal
    WordsSettled
PROPERTY
    InterruptReachesHandler
CHECK_DEADLOCK FALSE
