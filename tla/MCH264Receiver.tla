--------------------------- MODULE MCH264Receiver ---------------------------
(* H264Receiver for TLC: one picture of several NALs, and a damaged source. *)
EXTENDS H264Receiver, TLC

CONSTANTS b1, b2
BodySize == b1 :> 1 @@ b2 :> 2
OneStamp == [p \in Positions |-> "picture"]
(* The first packet only ends the probation of the source.                  *)
Picture == <<"whole", "start", "middle", "end", "start", "end", "whole">>
Damaged == <<"whole", "start", "whole", "start", "start", "end", "middle">>
TooLong == <<"whole", "start", "middle", "middle", "end", "start", "malformed">>
Sources == {[p \in Positions |-> s[p - FirstSent + 1]] : s \in {Picture, Damaged, TooLong}}
=============================================================================
