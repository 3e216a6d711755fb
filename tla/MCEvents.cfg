SPECIFICATION Spec
CONSTANTS
    Forms <- MCForms
    QuickForms <- MCQuickForms
    ChampionshipEvents <- MCChampionshipEvents
    AnyCar = "any"
    FixedSetups = {"setup"}
    NoSetup = "none"
    Pitboxes = 3
    MaxClientsOverride = 2
    NoRace = NoRace
    MaxRaces = 2
    MaxRequests = 5
    Drivers = {d1, d2}
    NoDriver = NoDriver
    d1 = d1
    d2 = d2
    MinTime = 4
    DisqualifyTime = 2
    PenaltyTime = 1
    MinSwaps = 1
    NotEnough = 10
    MaxConnects = 3
    MaxSeconds = 5
    MaxSwaps = 2
    MaxDrives = 1
    Races = {"race"}
    Events = {"event", "other"}
    Sessions = {"session"}
    LeadLists <- MCLeadLists
    Tokens = {"token", "another"}
    NoToken = "none"
    Horizon = 4
    MaxCalls = 3
    MaxStarts = 2
    Handlers = {h1, h2}
    Callbacks = {t1}
    Until = 3
    Week = 1
    CheckLoop = TRUE
    MaxTimers = 3
    MaxScheduleCalls = 2
    MaxRestarts = 1
    ListenPort = listen
    ForwardPort = forward
    NoPort = none
    Ports = {p1, p2, p3}
    ProxyPorts = {none, px}
    Limits = {0, 1}
    MaxExtra = 1
    MaxLogs = 2
    MaxFaults = 1
    MaxPluginRaces = 2
SYMMETRY Symmetric
INVARIANTS
    FilesAndPresetsKept
    PluginsSound
    ScheduleKept
    CalendarTruthful
PROPERTIES
    EventsTheirOwn
    SwapsFair
    RemindersKept
CHECK_DEADLOCK FALSE
