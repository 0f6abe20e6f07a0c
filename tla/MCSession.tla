----------------------------- MODULE MCSession -----------------------------
(***************************************************************************)
(* Instances of Session for TLC: a 16 bit counter has two values, so that  *)
(* an epoch is over after two frames.                                      *)
(***************************************************************************)
EXTENDS Session

BothVersions == {0, 1}
OneRate      == {0}
TwoRates     == {0, 1}
=============================================================================
