-------------------------------- MODULE MCLink --------------------------------
(* Link for TLC: two users' links to one repository. *)
EXTENDS Link, TLC

CONSTANTS b1, b2, r1, r2, u1, u2, d1, d2, repo, l1, l2

LinkAuthor == l1 :> u1 @@ l2 :> u2
LinkRepository == l1 :> repo @@ l2 :> repo
\* The users may be exchanged together with their links.
SwapUsers == u1 :> u2 @@ u2 :> u1 @@ l1 :> l2 @@ l2 :> l1
LinkSymmetry == Permutations({b1, b2}) \cup Permutations({r1, r2}) \cup
    Permutations({d1, d2}) \cup {SwapUsers}
=============================================================================
