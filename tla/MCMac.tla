------------------------------- MODULE MCMac -------------------------------
(***************************************************************************)
(* Instances of Mac and MacService for TLC: a second is a few ticks, the   *)
(* resets and lockouts are scaled down, dither is none or two ticks.       *)
(***************************************************************************)
EXTENDS MacService

ShortFrames == {1, 2}
DelaySet    == {0, 2}
NbTransTwo  == {0, 2}
=============================================================================
