CONSTANTS
    SegmentBytes = 2
    MaxOutputBytes = 3
    Hold = 1
    LastByte = 4
    MaxCrashes = 1
    MaxFaults = 0
    Pollers = {"monitor"}
SPECIFICATION Spec
INVARIANTS
    SessionSurvivesRestart
CHECK_DEADLOCK FALSE
