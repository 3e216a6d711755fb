SPECIFICATION Spec
CONSTANTS
  Clients = {p, q}
  Ids = {"i"}
  People = {"a", "b"}
  Versions = {1, 2}
  MaxAuditEntries = 2
  AuditDropped = 1
  MaxOps = 3
  MaxCrashes = 1
  Browsers = {b1, b2}
  UserNames <- MCUserNames
  adminName = "admin"
  Override = ""
  Groups = {"read", "admin"}
  MaxAccounts = 3
  MaxSteps = 4
  Handlers = {h1, h2}
  Graphs <- WeekendGraphs
  MaxSessions = 3
  MaxCalls = 3
  MaxRuns = 2
CONSTRAINT Undisturbed
SYMMETRY Symmetric
INVARIANTS
  SameAnswers
  EntriesKept
  AccountsSound
  ResultsBelong
  RunsAfterParents
  TimersFollowDates
PROPERTY
  GraphKept
CHECK_DEADLOCK FALSE
