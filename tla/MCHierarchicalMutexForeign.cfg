CONSTANTS
    left = left
    right = right
    middle = middle
    Threads = {t1, t2}
    Mutexes <- MCMutexes
    ULongMax = 2
    Level <- MCLevel
    Misused <- MCMutexes
    Nobody = Nobody
    NoMutex = NoMutex
SPECIFICATION Spec
INVARIANTS
    ForeignUnlockThrows
