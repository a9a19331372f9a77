CONSTANTS
    MaxCrashes = 2
    MaxFaults = 4
SPECIFICATION Spec
INVARIANTS
    DeletedNeverRuns
    ChildIsTraceable
    NoChildIsTrue
PROPERTY AbandonedWorkerEnds
CHECK_DEADLOCK FALSE
