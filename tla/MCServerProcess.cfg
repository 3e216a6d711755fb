SPECIFICATION FairSpec
CONSTANTS
    Callers = {c1, c2}
    Events = {e1}
    NoEvent = NoEvent
    NoCaller = NoCaller
    MaxRuns = 2
    MaxCalls = 3
    PersistMidSessionResults = TRUE
INVARIANTS
    LaunchesOwnCommand
    RunningHasRunner
    AtMostOneServer
    StoppedMeansStopped
PROPERTIES
    EveryCallReturns
    ImplementsLifecycle
CHECK_DEADLOCK FALSE
