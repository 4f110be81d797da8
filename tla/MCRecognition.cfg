SPECIFICATION Threads
CONSTANTS
    Works = {1, 2, 3}
    k1 = k1
    k2 = k2
    Keys = {k1, k2}
    KeyOf <- EqualSamples
    Limits = {1, 2}
    MaxAttempts = 2
    None = None
    Foreign = Foreign
    Designs = {"stepaudio", "stepfun"}
    MaxChunks = 2
    Expected = 1
    Limit = 1
    Callers = {c1, c2, c3}
    Values = {v1}
    Absent = Absent
    Corrupt = Corrupt
    Nobody = Nobody
INVARIANTS
    AnswerTruthful
    NoSocketLeft
    ChildAccounted
PROPERTIES
    CancellationEnds
    WaitersGetThrough
CHECK_DEADLOCK FALSE
