SPECIFICATION Spec
CONSTANTS
    r1 = r1
    r2 = r2
    Users = {u1}
    Looper = looper
    Races = {r1, r2}
    Setup <- MCSetup
    NoRace = NoRace
    MaxEvents = 2
CHECK_DEADLOCK FALSE
INVARIANT
    CurrentRaceRuns
PROPERTIES
    EventsRunTheirTime
    LoopGoesOn
