SPECIFICATION Spec
CONSTANTS
    Callers = {c1, c2}
    Events = {e1}
    NoEvent = NoEvent
    NoCaller = NoCaller
    MaxRuns = 2
    MaxCalls = 4
    PersistMidSessionResults = FALSE
INVARIANT
    NeverCrashes
CHECK_DEADLOCK FALSE
