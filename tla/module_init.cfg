\* Loads, retries after errors, ids and closing states race.
SPECIFICATION FairSpec
CONSTANTS
    Thread = {t1, t2, t3}
    Seed = {2}
    MaxInt = 3
    MaxIds = 2
    MaxFailures = 1
INVARIANTS
    TypeOK
    MutexIsStable
    MutualExclusion
    MutexIsGivenBack
    IdsAreUnique
    StateCount
    LoadedCollects
PROPERTY
    LoadsEnd
CHECK_DEADLOCK FALSE
