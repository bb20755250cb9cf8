CONSTANTS
    MaxCount = 2
    Interval = 2
    Beginnings <- MCBeginnings
    MaxQueue = 3
    MaxDepth = 3
SPECIFICATION Spec
INVARIANT
    TimerStops
