------------------------- MODULE MCEffectCoordinator -------------------------
(* TLC instances of EffectCoordinator.                                      *)
EXTENDS EffectCoordinator, TLC

Symmetry == Permutations(Ops) \cup Permutations(Proofs) \cup Permutations(Notes)
=============================================================================
