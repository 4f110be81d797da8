SPECIFICATION Spec
CONSTANTS
    Durations = {3}
    SpeechOf <- SomeSpeech
    AnswersFor <- SomeAnswers
    Texts = {"a", "b", Blank}
    Blank = Blank
    PrimaryCore = 2
    Context = 1
    Tolerance = 0
    RecoveryCore = 2
    MaxRounds = 2
    MaxRequests = 4
    MaxAudio = 12
    Transcripts <- SomeTranscripts
    Policies <- SomePolicies
    ReviewsOf <- SomeReviews
    Priorities <- TwoTopics
    Duration = 6
    Requests <- SomeRequests
    DefectsOf <- SomeDefects
    DeviationsOf <- SomeDeviations
    Commands = {o1, o2}
    PlanPaths = {d1, d2}
    Worlds <- Hosts
    ColdOutcomes <- ColdEnds
    WarmOutcomes <- WarmEnds
    MaxTries = 2
    MaxRuns = 3
    MaxLeft = 2
    Units = 2
    SemanticLimit = 2
    MaxAttempts = 3
    Clips <- OneClip
    Docs <- OneDocument
    Alien = "alien"
    MaxEdits = 3
SYMMETRY Alike
INVARIANTS
    IssuedIsDeliverable
CHECK_DEADLOCK FALSE
