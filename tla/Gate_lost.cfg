SPECIFICATION Spec
CONSTANTS
    l1 = l1
    l2 = l2
    Links <- OneLink
    MaxPushes = 1
    MaxChecks = 3
    CloseOnFailure = {FALSE}
    CommentOnLinked = {TRUE}
    maxAttempts = 2
    Withdrawn = {"unlinked", "revoked"}
    MayFail = FALSE
    LinksElsewhere = FALSE
CHECK_DEADLOCK FALSE
INVARIANT RerunsOnceLinked
