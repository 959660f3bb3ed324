---------------------------- MODULE MCSetupComment ----------------------------
(* SetupComment for TLC: syncs are interchangeable. *)
EXTENDS SetupComment, TLC

CONSTANTS s1, s2, s3

TwoSyncs == {s1, s2}
ThreeSyncs == {s1, s2, s3}
SyncSymmetry == Permutations(Syncs)

\* A request to the author, a verdict on the rules and the two settled
\* statuses.  revoked, github_verified and a verdict with a link to its run are
\* handled as unlinked is.
MainAsks ==
    [status : {"unlinked"}, link : {TRUE}, onLinked : {FALSE}]
      \cup [status : {"rules_failed"}, link : {FALSE}, onLinked : {FALSE}]
      \cup [status : {"linked"}, link : {FALSE}, onLinked : BOOLEAN]
      \cup [status : {"passed"}, link : {FALSE}, onLinked : {FALSE}]

\* One ask to act, one settled verdict and the status between them.
FewAsks ==
    {[status |-> "unlinked", link |-> TRUE, onLinked |-> FALSE],
     [status |-> "linked", link |-> FALSE, onLinked |-> TRUE],
     [status |-> "passed", link |-> FALSE, onLinked |-> FALSE]}
=============================================================================
