------------------------------ MODULE MCTimers ------------------------------
(***************************************************************************)
(* Instances of Timers for TLC: a counter of 16 values, timers set for     *)
(* nothing, one tick, a few, and the longest interval there is.            *)
(***************************************************************************)
EXTENDS Timers

TimeoutSet == {0, 1, 3, IMax}
=============================================================================
