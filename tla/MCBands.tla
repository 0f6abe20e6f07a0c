------------------------------ MODULE MCBands -------------------------------
(***************************************************************************)
(* Instances of Bands for TLC: two channels in two bands of different      *)
(* duty cycle, and a second of two or three ms.                            *)
(***************************************************************************)
EXTENDS Bands

CONSTANTS c1, c2, b1, b2

BandOfChannel == [c \in Channel |-> IF c = c1 THEN b1 ELSE b2]

\* Both bands at the duty of a retry.
SameFactor    == [b \in RegionBand |-> 2]

\* Channels come and go, or not.
ChannelSets == {{c1, c2}, {c2}}
AllOrNone   == {{c1, c2}, {}}
=============================================================================
