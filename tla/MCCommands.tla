---------------------------- MODULE MCCommands ----------------------------
(***************************************************************************)
(* Instances of Commands for TLC.  A fixed plan has two narrow channels    *)
(* and a wide one with a rate of its own, a dynamic plan two channels.     *)
(***************************************************************************)
EXTENDS Commands, TLC

BothPlans    == {TRUE, FALSE}
DynamicPlan  == {TRUE}
TwoChannels  == {0, 1}
OneChannel   == {0}
Listed       == {1}
RateSet      == {0, 1, 2}
PowerSet     == {0, 1}
JoinRateSet  == {1}
RatesInPlan  == (0 :> {0, 1}) @@ (1 :> {0, 1}) @@ (2 :> {2})
BankOf       == [cntl \in 0..7 |-> CASE cntl = 0 -> {0, 1} [] cntl = 4 -> {2} [] OTHER -> {}]
PayloadOf    == (0 :> 6) @@ (1 :> 8) @@ (2 :> 9)
LengthSet    == {0, 4, 6}

Req(cntl, mask, r, p, n) == [cntl |-> cntl, mask |-> mask, rate |-> r, power |-> p, nbTrans |-> n]

\* Some channels; narrow off; wide off; all on with no such rate; all off.
RequestSet ==
    {Req(0, {0}, 2, 1, 1), Req(7, {}, Keep, Keep, 0), Req(4, {}, 1, 0, 3),
     Req(6, {}, 3, Keep, 0), Req(0, {}, Keep, 1, 0)}
NewChannelSet == {[chan |-> 1, max |-> 2], [chan |-> 2, max |-> 2]}
AckParamSet   == {[limit |-> 2, delay |-> 1]}

CommandSet == {"LINK_ADR", "RX_TIMING_SETUP", "NEW_CHANNEL", "REKEY", "ADR_PARAM_SETUP", "LINK_CHECK"}
MaskCommands == {"LINK_ADR"}
=============================================================================
