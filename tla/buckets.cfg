\* A small table that grows, shrinks and fails to allocate.
SPECIFICATION Spec
CONSTANTS
    NULL = NULL
    Rec = {r1, r2, r3, r4}
    FirstBuckets = 2
    PerBucket = 1
    UsageLimit = 1
    ShrinkFactor = 3
    Ids = 6
    MaxInt = 7
SYMMETRY Symmetry
INVARIANTS
    TypeOK
    FindIsExact
    BackPointers
    CounterIsPopulation
    UsageBoundsChains
PROPERTY
    ImplementsRegistry
CHECK_DEADLOCK FALSE
