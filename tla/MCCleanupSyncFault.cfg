SPECIFICATION Spec
CONSTANTS
    Dirs = {d1, d2, d3}
    None = None
    Empty = Empty
    Torn = Torn
    CleanupSyncMayFail = TRUE
INVARIANTS
    PowerLossSafe
CHECK_DEADLOCK FALSE
