CONSTANTS
    UIntMax = 15
    Num = 15
    Hardware = 2
    Clients = {c1, c2}
    Tasks = {t1, t2, t3}
    NoTask = NoTask
SPECIFICATION Spec
INVARIANTS
    Conservation
    NoLostWakeup
    StopReachesSleepers
    DrainBeforeDestroy
PROPERTIES
    PoolPromise
    EveryTaskSettles
    DestructorReturns
