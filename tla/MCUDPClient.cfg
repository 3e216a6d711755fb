SPECIFICATION UDPSpec
CONSTANTS
    QueueCap = 2
    HalfSecond = 1
    Base = 1
    Wrap = 65536
    Modifier = TRUE
    SendsMayFail = TRUE
    MaxDatagrams = 4
PROPERTIES
    CloseEndsGoroutines
    IntervalRecovers
CHECK_DEADLOCK FALSE
