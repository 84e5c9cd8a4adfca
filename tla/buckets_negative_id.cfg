\* Lookups by any integer.
SPECIFICATION Spec
CONSTANTS
    NULL = NULL
    Rec = {r1, r2, r3, r4}
    FirstBuckets = 2
    PerBucket = 1
    UsageLimit = 1
    ShrinkFactor = 3
    Ids = 6
    MaxInt = 7
SYMMETRY Symmetry
INVARIANT
    LookupInTable
CHECK_DEADLOCK FALSE
