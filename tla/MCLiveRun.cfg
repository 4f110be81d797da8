SPECIFICATION Runs
CONSTANTS
    Ordinary = 2
    None = None
    Stages = {s1, s2}
    Transcription = s1
    Ops = {o1, o2}
    Paths = {f1}
    MaxFacts = 4
    MaxDelivered = 2
    MaxAttempts = 2
    Nil = Nil
    Procs = {p1, p2}
    Roots = {r1, r2, r3, r4, r5}
    Reserved = Reserved
    \* Two of the fixed entries: a half-made layout is neither empty nor whole.
    Size = 2
    MaxStarts = 2
    MaxFaults = 2
SYMMETRY Symmetry
INVARIANTS
    OutcomeTruthful
    ManifestTruthful
    CompleteMeansPersisted
    LateSignalAccounted
    CleanOrFlagged
    NeverCorrupt
    PersistedIsComplete
    CommitNeverDenied
    WorkspaceSound
CHECK_DEADLOCK FALSE
