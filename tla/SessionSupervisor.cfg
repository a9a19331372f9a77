CONSTANTS
    MaxCalls = 2
    MaxFaults = 1
SPECIFICATION Spec
INVARIANTS
    NeverDeleteLive
    RunningIsWatched
PROPERTIES
    EndObserved
    LaneDrains
    DeletionStops
CHECK_DEADLOCK FALSE
