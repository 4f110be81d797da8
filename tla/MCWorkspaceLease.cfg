SPECIFICATION FairSpec
CONSTANTS
    Threads = {t1, t2, t3}
    None = None
    MaxDepth = 2
    InnerCloseMayRace = FALSE
INVARIANTS
    LockCoversEffects
    ExclusiveAlone
    NoLostWakeup
PROPERTIES
    HelperServed
    CloseTerminates
    ExclusiveServed
CHECK_DEADLOCK FALSE
