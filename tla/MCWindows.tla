------------------------------ MODULE MCWindows ------------------------------
(***************************************************************************)
(* Instances of Windows for TLC.  The clocks are a crystal of 32 kHz, the  *)
(* slowest clock allowed at half a percent and one of 500 kHz; interrupts  *)
(* are processed at once or later than the margin of the short symbols.    *)
(***************************************************************************)
EXTENDS Windows

Clock(tps, eps, advance) == [tps |-> tps, eps |-> eps, advance |-> advance]

Clocks  == {Clock(32768, 33, 66), Clock(10000, 50, 20), Clock(500000, 1000, 1000)}
Crystal == {Clock(32768, 33, 66)}
OnTime  == {0}
Delayed == {0, 3000}
AllOffsets == 0..7
OneOffset  == {0}
RX2RateSet == {0, 8}
RX2RateThree == {3}
DelaySet   == {0, 15}
DelayOne   == {1}
Lists == {<<867100000, 867300000, 0, 869525000, 433775000>>}
None  == {}
RateSet == 0..6
RandSet == {0, 70}
RandOne == {0}

\* The theorem about the time on the air is about these clocks too.
ASSUME ClocksAreFine == FineClocks
=============================================================================
