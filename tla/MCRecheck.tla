------------------------------ MODULE MCRecheck ------------------------------
(* Recheck for TLC: commands are interchangeable. *)
EXTENDS Recheck, TLC

CONSTANTS c1, c2, c3

TwoCommands == {c1, c2}
ThreeCommands == {c1, c2, c3}
CommandSymmetry == Permutations(Commands)
=============================================================================
