CONSTANTS
    Threads = {t1, t2, t3}
    Nodes = {n1, n2, n3}
    Values = {v1, v2}
    max_hazard_pointers = 2
    Ordered = TRUE
    NoThread = NoThread
    Null = Null
    NoValue = NoValue
    Empty = Empty
SPECIFICATION AllSpec
SYMMETRY Symmetric
INVARIANTS
    NodesInUseExist
    NodesAccounted
    SlotsSuffice
    DeletedUnread
    DeleteListAccounted
PROPERTIES
    IsAStack
    DeleteListIsAStack
