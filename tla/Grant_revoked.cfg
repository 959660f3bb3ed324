SPECIFICATION FairSpec
CONSTANTS
    r1 = r1
    r2 = r2
    r3 = r3
    Requests <- TwoRequests
    MaxGrants = 3
    RefreshAttempts = 3
    RotationPolls = 4
    StoreAttempts = 3
INVARIANT RevokedMeansRevoked
