SPECIFICATION FairSpec
CONSTANTS
    r1 = r1
    r2 = r2
    r3 = r3
    Requests <- ThreeRequests
    Webhooks <- OneRequest
    MaxClock = 3
INVARIANTS
    TypeOK
    OnlyClaimable
    AppCloseRemembered
PROPERTIES
    OverridesOnlyARace
    OwnCloseHeard
    OpensWhatItClosed
