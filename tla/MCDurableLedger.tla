--------------------------- MODULE MCDurableLedger ---------------------------
(* TLC instance of DurableLedger: identities are interchangeable, and so    *)
(* are the contents that decode; objects are not (one of them is sealed).   *)
EXTENDS DurableLedger, TLC

IdContentSymmetry == Permutations(BatchIds) \cup Permutations(Contents \ Inverted)
=============================================================================
