\* ContinuousStays does not hold.
SPECIFICATION Spec
CONSTANTS
    NULL = NULL
    VM = VM
    Interrupter = {i1, i2}
    MaxCalls = 4
INVARIANT
    ContinuousStays
CHECK_DEADLOCK FALSE
