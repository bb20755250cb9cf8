CONSTANTS
    Threads = {t1, t2, t3}
    Nodes = {n1, n2}
    Values = {v1, v2}
    CountMod = 5
    MayWrap = FALSE
    Null = Null
    NoValue = NoValue
    left = left
    right = right
    middle = middle
    above = above
    top = top
    Lockers = {t1, t2, t3}
    Mutexes <- MCMutexes
    ULongMax = 3
    Level <- MCLevel
    Misused <- MCMisused
    Nobody = Nobody
    NoMutex = NoMutex
SPECIFICATION AllSpec
SYMMETRY Symmetric
INVARIANTS
    NodesInUseExist
    ReferencesCounted
    NothingLeaked
    ValueTracksHeld
    SavedValueRestores
    OwnerReleases
    NoCircularWait
PROPERTIES
    IsAStack
