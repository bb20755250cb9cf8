CONSTANTS
    info = info
    warning = warning
    fatal = fatal
    Threads = {c1, c2}
    Lines <- MCLines
    Level <- MCLevel
    Size <- MCSize
    LevelArgs = {3, 7}
    RollSize = 2
    MaxSecond = 1
    MaxSessions = 2
    NoLine = NoLine
    NoFile = NoFile
SPECIFICATION Spec
INVARIANTS
    OrderKept
    RollBound
    UninitFlushes
    FilesFollowConsole
PROPERTIES
    EveryLinePrinted
