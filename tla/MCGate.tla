-------------------------------- MODULE MCGate --------------------------------
(* Gate for TLC: the link flow completes once or twice. *)
EXTENDS Gate, TLC

CONSTANTS l1, l2

OneLink == {l1}
TwoLinks == {l1, l2}
LinkSymmetry == Permutations(Links)
=============================================================================
