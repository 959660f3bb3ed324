SPECIFICATION Spec
CONSTANTS
    s1 = s1
    s2 = s2
    s3 = s3
    Syncs <- TwoSyncs
    Asks <- MainAsks
    MaxComments = 3
    MayFail = TRUE
SYMMETRY SyncSymmetry
INVARIANTS
    TypeOK
    BodyMatchesStored
PROPERTIES
    PassingNeverPosts
    AskIsShown
    StraysNeedARace
