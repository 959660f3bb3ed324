------------------------------- MODULE MCGrant -------------------------------
(* Grant for TLC: requests are interchangeable. *)
EXTENDS Grant, TLC

CONSTANTS r1, r2, r3

TwoRequests == {r1, r2}
ThreeRequests == {r1, r2, r3}
RequestSymmetry == Permutations(Requests)
=============================================================================
