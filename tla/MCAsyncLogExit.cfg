CONSTANTS
    info = info
    warning = warning
    fatal = fatal
    Threads = {c1}
    Lines <- MCLines
    Level <- MCLevel
    Size <- MCSize
    LevelArgs = {3}
    RollSize = 2
    MaxSecond = 1
    MaxSessions = 1
    NoLine = NoLine
    NoFile = NoFile
SPECIFICATION Spec
PROPERTIES
    ExitFlagStopsWriter
