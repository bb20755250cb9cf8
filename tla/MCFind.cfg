CONSTANTS
    Lists <- MCLists
    Match = 5
    Bad = 9
    Limit = 20
    min_per_thread = 2
    Hardware = {1, 3}
    None = None
    Thrown = Thrown
    NotFound = NotFound
    Terminated = Terminated
SPECIFICATION Spec
INVARIANTS
    FirstMatch
