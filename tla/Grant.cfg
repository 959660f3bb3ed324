SPECIFICATION FairSpec
CONSTANTS
    r1 = r1
    r2 = r2
    r3 = r3
    Requests <- TwoRequests
    MaxGrants = 4
    RefreshAttempts = 3
    RotationPolls = 2
    StoreAttempts = 2
INVARIANTS
    TypeOK
    CarriedGrantsLive
    RowTraceable
PROPERTIES
    NeverOverwritesUsable
    NeverRevokesUsable
    CallsBounded
    KeepsCustody
    RequestsEnd
