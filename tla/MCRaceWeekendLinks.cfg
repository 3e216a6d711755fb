SPECIFICATION WeekendSpec
CONSTANTS
    Handlers = {h1}
    Graphs <- WeekendGraphs
    MaxSessions = 3
    MaxCalls = 2
    MaxRuns = 2
SYMMETRY Symmetry
INVARIANT LinksRemoved
CHECK_DEADLOCK FALSE
