CONSTANTS
    Ghost = Ghost
    None = None
    Clients = {c1, c2}
    MaxDeaths = 2
    MaxTimeouts = 1
SPECIFICATION Spec

    
    
PROPERTY StartLockFreed
CHECK_DEADLOCK FALSE
