CONSTANTS
    SegmentBytes = 2
    MaxOutputBytes = 3
    Hold = 1
    LastByte = 4
    MaxCrashes = 1
    MaxFaults = 1
    Pollers = {"monitor"}
SPECIFICATION Spec
INVARIANTS
    JournalIsWhole
    ReadIsWhole
    CursorsNeverAhead
CHECK_DEADLOCK FALSE
