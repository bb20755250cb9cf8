CONSTANTS
    Threads = {t1, t2}
    Nodes = {n1, n2}
    Values = {v1}
    CountMod = 4
    MayWrap = TRUE
    Null = Null
    NoValue = NoValue
SPECIFICATION Spec
INVARIANTS
    NodesInUseExist
