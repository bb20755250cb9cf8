CONSTANTS
    Threads = {t1, t2}
    Nodes = {n1, n2, n3}
    Values = {v1, v2}
    max_hazard_pointers = 2
    Ordered = FALSE
    NoThread = NoThread
    Null = Null
    NoValue = NoValue
    Empty = Empty
SPECIFICATION Spec
PROPERTIES
    IsAStack
