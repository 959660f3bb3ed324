----------------------------- MODULE MCAutoClose -----------------------------
(* AutoClose for TLC: requests are interchangeable. *)
EXTENDS AutoClose, TLC

CONSTANTS r1, r2, r3

TwoRequests == {r1, r2}
OneRequest == {r1}
ThreeRequests == {r1, r2, r3}
RequestSymmetry == Permutations(Requests)
=============================================================================
