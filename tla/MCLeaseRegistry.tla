--------------------------- MODULE MCLeaseRegistry ---------------------------
(* TLC instance of LeaseRegistry: resources are interchangeable.            *)
EXTENDS LeaseRegistry, TLC

ResourceSymmetry == Permutations(Resources)
=============================================================================
