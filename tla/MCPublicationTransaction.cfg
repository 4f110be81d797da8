SPECIFICATION FairSpec
CONSTANTS
    Dirs = {d1, d2, d3, d4}
    None = None
    Empty = Empty
    Torn = Torn
    CleanupSyncMayFail = FALSE
INVARIANTS
    PowerLossSafe
    AnswerTruthful
    NeverTorn
PROPERTIES
    Implements
    JournalResolved
CHECK_DEADLOCK FALSE
