--------------------------- MODULE MCCancellation ---------------------------
(* TLC instance of Cancellation: workers and reasons are interchangeable.   *)
(* The windows include the empty one, where only the order of start and now *)
(* keeps a stale poll from timing out.                                      *)
EXTENDS Cancellation

MCTimeouts == {0, 2}
=============================================================================
