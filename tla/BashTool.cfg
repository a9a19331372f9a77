CONSTANTS
    r1 = r1
    r2 = r2
    o1 = o1
    Requests <- MCRequests
    Owners <- MCOwners
    OwnerOf <- MCOwnerOf
    DigestOf <- MCDigestOf
    Calls <- MCCalls
SPECIFICATION ToolSpec
INVARIANTS
    
    RunsOnlyOnYes
    NoMeansNo
    NothingLeftOpen
PROPERTIES
    ImplementsPermit
    NativeTakesOver
    WaitSettles
    AbortEndsCall
CHECK_DEADLOCK FALSE
