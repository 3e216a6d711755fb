SPECIFICATION Spec
CONSTANTS
  Season <- MCSeason
  Klasses <- MCKlasses
  ResultsOf <- MCResultsOf
  Before <- MCBefore
  Champ <- MCChamp
  Teams = {"red", "blue"}
  PenaltyPoints = {0, 7}
  MaxEdits = 1
  Drivers = {"a", "b"}
  Models = {"x", "y", "z"}
  Available <- MCAvailable
  Slots <- MCSlots
  Events = {"e"}
  Settings <- MCSettings
  TeamNames = {""}
  MaxRequests = 4
  Callbacks = {t1, t2}
  Until = 3
  MaxEvents = 3
  MaxTimers = 5
  MaxCalls = 4
  MaxBoots = 3
INVARIANTS
  TablesAddUp
  TablesRepeatable
  PlacesKept
  TimersFollowSchedule
  NothingLost
CHECK_DEADLOCK FALSE
