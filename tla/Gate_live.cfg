SPECIFICATION LiveSpec
CONSTANTS
    l1 = l1
    l2 = l2
    Links <- TwoLinks
    MaxPushes = 1
    MaxChecks = 6
    CloseOnFailure = {TRUE, FALSE}
    CommentOnLinked = {TRUE, FALSE}
    maxAttempts = 2
    Withdrawn = {"unlinked", "revoked"}
    MayFail = FALSE
    LinksElsewhere = TRUE
CHECK_DEADLOCK FALSE
INVARIANTS
    RestSeesLink
    RestOpens
    ChecksPaidFor
PROPERTIES
    LinkIsFollowedByCheck
    LinkOpens
    ComesToRest
