--------------------------- MODULE MCPublication ---------------------------
(* A leaf, a manifest over it and a manifest over that one.                *)
EXTENDS Publication, TLC

CONSTANTS leaf, inner, outer

TwoLevels == [m \in {inner, outer} |-> IF m = inner THEN {leaf} ELSE {inner}]
SlotSymmetry == Permutations(Slots)
=============================================================================
