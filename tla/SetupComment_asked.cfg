SPECIFICATION Spec
CONSTANTS
    s1 = s1
    s2 = s2
    s3 = s3
    Syncs <- TwoSyncs
    Asks <- FewAsks
    MaxComments = 2
    MayFail = FALSE
INVARIANT SettledAuthorNotAsked
