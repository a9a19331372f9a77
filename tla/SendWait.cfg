CONSTANTS
    SegmentBytes = 1
    MaxOutputBytes = 1
    Hold = 1
    LastByte = 2
    MaxCrashes = 0
    MaxFaults = 1
    Pollers = {"monitor"}
SPECIFICATION WaitSpec
INVARIANTS
    BoundaryIsSound
PROPERTIES
    WaitAnswered
CHECK_DEADLOCK FALSE
