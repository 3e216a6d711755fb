SPECIFICATION ScheduleSpec
CONSTANTS
    Callbacks = {t1}
    Until = 3
    MaxEvents = 3
    MaxTimers = 4
    MaxCalls = 3
    MaxBoots = 1
INVARIANT OthersStayScheduled
CHECK_DEADLOCK FALSE
