----------------------------- MODULE MCJournal -----------------------------
(* TLC instance of Journal: payloads are interchangeable.                   *)
EXTENDS Journal, TLC

PayloadSymmetry == Permutations(Payloads)
=============================================================================
