SPECIFICATION FairSpec
CONSTANTS
    Threads = {t1, t2}
    None = None
    MaxDepth = 1
    InnerCloseMayRace = TRUE
PROPERTIES
    InnerCloseRefused
CHECK_DEADLOCK FALSE
