CONSTANT ProtocolChanges = TRUE
SPECIFICATION Spec
INVARIANTS
    
    TerminalMeansGone
PROPERTIES
    OutcomeSticks
    CleanupSticks
