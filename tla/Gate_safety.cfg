SPECIFICATION Spec
CONSTANTS
    l1 = l1
    l2 = l2
    Links <- TwoLinks
    MaxPushes = 1
    MaxChecks = 3
    CloseOnFailure = {TRUE, FALSE}
    CommentOnLinked = {TRUE}
    maxAttempts = 2
    Withdrawn = {"unlinked"}
    MayFail = TRUE
    LinksElsewhere = FALSE
CHECK_DEADLOCK FALSE
SYMMETRY LinkSymmetry
INVARIANTS
    TypeOK
    RerunsOnce
    RerunsOnlyUnlinked
PROPERTY StepsPaidFor
