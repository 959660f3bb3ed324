SPECIFICATION FairSpec
CONSTANTS
    r1 = r1
    r2 = r2
    r3 = r3
    Requests <- TwoRequests
    Webhooks <- OneRequest
    MaxClock = 3
PROPERTY NeverReopensOthersClose
