-------------------------- MODULE MCOwnedExecution --------------------------
(* TLC instance of OwnedExecution: a root and a chain of two scopes below   *)
(* it, with a dimension that limits how often and one that limits how much. *)
(* The root keeps part of its allowance when it gives a scope its own; that *)
(* scope can give all of it to the next.                                    *)
EXTENDS OwnedExecution, TLC

MCKinds == {"Property", "Ledger"}
MCDims == {"calls", "bytes"}
V(c, b) == [d \in MCDims |-> IF d = "calls" THEN c ELSE b]
MCRoot == V(2, 2)
MCAllowances == {V(1, 1)}
MCCosts == {V(1, 1)}
MCSymmetry == Permutations(Regions \ {Process})
=============================================================================
