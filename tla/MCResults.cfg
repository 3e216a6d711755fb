SPECIFICATION Spec
CONSTANTS
    Admins = {a1, a2}
    ResultsGiven <- MCResultFiles
    Penalties = {0, 5000, 65000}
    Names = {m}
    MaxResultCalls = 2
    MaxSaveErrors = 1
    Weekends <- MCWeekends
    LinksGiven <- MCLinks
    SortingGiven <- MCSorting
    Outcomes = {"all", "absent", "disqualified", "lapless"}
    Raced <- MCRaced
    MaxEdits = 2
    Handlers = {h1, h2}
    EventSessions <- MCEventSessions
    MaxQueue = 3
    MaxRuns = 2
    MaxFiles = 3
    MaxUnusual = 1
    MaxCalls = 3
CONSTRAINT Undisturbed
SYMMETRY Symmetric
INVARIANTS
    PenaltiesInForce
    FilesAgree
    GridsComplete
    EventRecorded
    SignUpsKept
PROPERTY
    PenaltyNeverHelps
CHECK_DEADLOCK FALSE
