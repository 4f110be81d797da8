SPECIFICATION FairSpec
CONSTANTS
    Signals = {SIGINT, SIGTERM}
    None = None
    MaxArrivals = 3
INVARIANTS
    ExitCodeTruthful
PROPERTIES
    WindowBounded
    CompletedRunReturns
    WaiterWakes
CHECK_DEADLOCK FALSE
