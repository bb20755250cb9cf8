CONSTANTS
    MaxCount = 2
    Interval = 2
    Beginnings <- MCBeginnings
    MaxQueue = 3
    MaxDepth = 3
    Users = {t1, t2, t3}
    Clients = {t1, t2}
    Keys = {1, 2, 3}
    bucket_num = 2
    hasher_ <- MCHasher
    UIntMod = 4
    MaxHeld = 2
    Nodes = {n1, n2, n3}
    ListNodes = {n1, n2}
    Values = {v1, v2}
    ListHead = ListHead
    Null = Null
    Free = Free
    NoValue = NoValue
    Callers = {t1}
    Size = 2
    Lists <- SortLists
    Inputs <- SearchLists
    Match = 5
    Bad = 9
    Limit = 5
    min_per_thread = 2
    Hardware = {0, 1, 3}
    Leftovers = {NoQueue}
    Pending = Pending
    None = None
    NoQueue = NoQueue
    Dangling = Dangling
    NoPart = NoPart
    Thrown = Thrown
    NotFound = NotFound
    Terminated = Terminated
SPECIFICATION AllSpec
INVARIANTS
    ExitFindsItsLoop
    TasksAccounted
    SortedAndQuiet
    Answers
    TraversalsAreSafe
    SnapshotIsACut
    WritersAlone
PROPERTIES
    TimersServed
    NestedLoopsEnd
    SortReturns
    IsAStack
    InterruptEndsWait
