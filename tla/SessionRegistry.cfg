CONSTANTS
    s1 = s1
    s2 = s2
    s3 = s3
    o1 = o1
    o2 = o2
    NoOwner = NoOwner
    Sessions <- MCSessions
    Owners <- MCOwners
    OwnerOf <- MCOwnerOf
    MaxSessionsPerOwner = 1
    MaxActiveSessions = 2
    MaxRecordsPerOwner = 2
    MaxRecords = 2
    MaxOutputPerOwner = 2
    MaxOutput = 2
    OutputLimit = 1
SPECIFICATION Spec
INVARIANTS
    IndexesAgree
    OutputAccounted
    
    
