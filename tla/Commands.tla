------------------------------ MODULE Commands ------------------------------
(***************************************************************************)
(* What the network and a device agree on by commands, in src/ldl_mac.c:   *)
(* the network's commands in a downlink (processCommands()), the answers   *)
(* that wait for the next uplink (externalDataCommand()), and the rate,    *)
(* power and channels that commands and adaptRate() set.                   *)
(*                                                                         *)
(* A step of state COMMANDS is one turn of the loop in processCommands();  *)
(* nothing else happens between two turns.  Settings that are taken over   *)
(* unseen and read nowhere here are left out (receive windows, duty cycle, *)
(* battery, margin), and so are off-times (see Bands) and retries (Mac).   *)
(***************************************************************************)
EXTENDS Integers, FiniteSets, Sequences, FiniteSetsExt

CONSTANTS
    Plans,         \* LDL_Region_isDynamic() of the regions
    MaskBits,      \* bits of ctx.chMask: 72
    DynamicChans,  \* LDL_Region_numChannels() of a dynamic region: 16
    DefaultChans,  \* LDL_Region_getDefaultChannels()
    ListedChans,   \* channels a CFList may define
    FixedRates,    \* rates of a channel in a fixed plan, LDL_Region_getChannel()
    Bank,          \* the 16 channels of each ChMaskCntl
    Narrow,        \* the 64 channels of 125 kHz
    Rates,         \* rateSettingIsValid()
    Powers,        \* LDL_Region_validateTXPower()
    DefaultRate,   \* LDL_DEFAULT_RATE
    JoinRates,     \* LDL_Region_getJoinRate()
    MaxNbTrans,    \* LDL_REDUNDANCY_MAX
    AckLimit, AckDelay,  \* ADRAckLimit, ADRAckDelay
    CounterMax,    \* UINT8_MAX, of adrAckCounter
    MaxPayload,    \* of a rate, LDL_Region_convertRate()
    Overhead,      \* LDL_Frame_dataOverhead()
    FOptsMax,      \* bytes of commands a frame header holds: 15
    Lengths,       \* of the application's data
    Requests,      \* LinkADRReqs of the network
    NewChannels,   \* NewChannelReqs of the network
    AckParams,     \* ADRParamSetupReqs of the network
    Commands,      \* types of commands the network sends
    MaxCommands,   \* commands in one downlink
    MayTruncate    \* may a command be cut off at the end of a downlink?

\* Defect: RekeyInd is sent once.
SingleShotMutant == {"LINK_ADR", "DEV_STATUS", "NEW_CHANNEL", "REJOIN_PARAM_SETUP",
                     "ADR_PARAM_SETUP", "TX_PARAM_SETUP", "DUTY_CYCLE", "REKEY"}

\* Commands that are answered in one uplink, and those whose answer is repeated
\* until a downlink arrives.
SingleShot == {"LINK_ADR", "DEV_STATUS", "NEW_CHANNEL", "REJOIN_PARAM_SETUP",
               "ADR_PARAM_SETUP", "TX_PARAM_SETUP", "DUTY_CYCLE"}
Sticky     == {"RX_PARAM_SETUP", "DL_CHANNEL", "RX_TIMING_SETUP"}
Unanswered == {"LINK_CHECK", "DEVICE_TIME", "FORCE_REJOIN", "REKEY"}
DynamicOnly == {"NEW_CHANNEL", "DL_CHANNEL", "TX_PARAM_SETUP"}

\* Commands with nothing to decide: their settings are left out.
Plain == {"DUTY_CYCLE", "RX_PARAM_SETUP", "DEV_STATUS", "RX_TIMING_SETUP",
          "REJOIN_PARAM_SETUP", "DL_CHANNEL", "TX_PARAM_SETUP"}

\* Bytes of an answer, tag included.
Size(type) ==
    CASE type \in {"LINK_ADR", "RX_PARAM_SETUP", "NEW_CHANNEL", "DL_CHANNEL",
                   "REKEY", "REJOIN_PARAM_SETUP"} -> 2
      [] type = "DEV_STATUS" -> 3
      [] OTHER -> 1

Channel == 0..(MaskBits - 1)
Keep    == 15   \* a rate or power of LinkADRReq that changes nothing

ASSUME CommandsAssumption ==
    /\ Plans \subseteq BOOLEAN
    /\ MaskBits \in Nat \ {0} /\ DynamicChans \in 0..MaskBits
    /\ DefaultChans \subseteq 0..(DynamicChans - 1)
    /\ ListedChans \subseteq 0..(DynamicChans - 1)
    /\ Rates \subseteq 0..14 /\ Powers \subseteq 0..14 /\ 0 \in Powers
    /\ DefaultRate \in Nat /\ JoinRates \subseteq Rates
    /\ \A r \in Rates : r > DefaultRate => r - 1 \in Rates
    /\ DefaultRate \in Rates
    /\ FixedRates \in [Channel -> SUBSET Rates]
    /\ Bank \in [0..7 -> SUBSET Channel] /\ Narrow \subseteq Channel
    /\ MaxNbTrans \in 1..15 /\ CounterMax \in Nat \ {0}
    /\ AckLimit \in Nat /\ AckDelay \in Nat \ {0}
    /\ MaxPayload \in [Rates -> Nat] /\ Overhead \in Nat /\ FOptsMax \in Nat
    /\ Lengths \subseteq Nat
    /\ Requests \subseteq [cntl : 0..7, mask : SUBSET Channel, rate : 0..15,
                           power : 0..15, nbTrans : 0..15]
    /\ NewChannels \subseteq [chan : Nat, max : 0..15]
    /\ AckParams \subseteq [limit : Nat, delay : Nat \ {0}]
    /\ Commands \subseteq SingleShot \cup Sticky \cup Unanswered
    /\ MaxCommands \in Nat /\ MayTruncate \in BOOLEAN

VARIABLES
    dynamic,     \* kind of region
    state,       \* IDLE, BUSY with an uplink, COMMANDS
    joined, version,
    rate, power, nbTrans, chMask,   \* what LinkADRReq sets, in ctx
    chConfig,    \* rates each channel can be used at; none if it has no
                 \* frequency in a band
    adr, adr_ack_limit, adr_ack_delay,
    pending_cmds,
    link_adr_ans,
    adrAckCounter, adrAckReq,
    told,        \* what the last step told the application, but for the
                 \* end of a request (see Mac)
    sent,        \* the commands in the uplink the last step built
    cache,       \* processCommands(): values to roll back to
    adr_state,   \* processCommands(): NO_ADR, ADR_OK, ADR_BAD
    next,        \* processCommands(): what the stream shows next, or END
    left,        \* commands the downlink has left
    owed,        \* history: what the network has to find in the next uplink
    asked,       \* history: the LinkADRReqs of the first block of a downlink
    quiet        \* history: nothing but the ADR changed the settings since the
                 \* last downlink

setting == <<rate, power, nbTrans, chMask>>
ack     == <<adr, adr_ack_limit, adr_ack_delay>>
counter == <<adrAckCounter, adrAckReq>>
session == <<dynamic, joined, version>>
loop    == <<cache, adr_state, next, left, asked>>
seen    == <<told, sent>>
vars    == <<session, state, setting, chConfig, ack, pending_cmds, link_adr_ans,
             counter, seen, loop, owed, quiet>>

Answered == SingleShot \cup Sticky \cup {"REKEY"}
Reports  == {"TRUE", "FALSE", "MACPRIORITY", "DOWNSTREAM", "RX", "LINK_STATUS",
             "DEVICE_TIME"}
Setting  == [rate : Rates, power : Powers, nbTrans : 0..MaxNbTrans,
             chMask : SUBSET Channel]
AllAccepted == [mask |-> TRUE, rate |-> TRUE, power |-> TRUE]

-----------------------------------------------------------------------------
NumChannels == IF dynamic THEN DynamicChans ELSE MaskBits
Channels    == 0..(NumChannels - 1)

\* Only channels of the region are masked.
Mask(mask, chans)   == mask \cup (chans \cap Channels)
Unmask(mask, chans) == mask \ (chans \cap Channels)

AllMasked(mask) == mask = Channel

UsableAt(r) == {c \in Channels : c \notin chMask /\ r \in chConfig[c]}

DefaultConfig ==
    IF dynamic THEN [c \in Channel |-> IF c \in DefaultChans THEN Rates ELSE {}]
               ELSE FixedRates

\* An answer has one to three bytes.
Bytes(types) ==
    LET Of(size) == Cardinality({type \in types : Size(type) = size})
    IN Of(1) + 2 * Of(2) + 3 * Of(3)

\* Defect: RekeyInd is not counted either.
MtuMutant ==
    LET overhead == Overhead + Bytes(pending_cmds \ {"TX_PARAM_SETUP", "REKEY"})
    IN IF overhead > MaxPayload[rate] THEN 0 ELSE MaxPayload[rate] - overhead

\* LDL_MAC_mtu() does not count the answer to TXParamSetupReq.
Mtu ==
    LET overhead == Overhead + Bytes(pending_cmds \ {"TX_PARAM_SETUP"})
    IN IF overhead > MaxPayload[rate] THEN 0 ELSE MaxPayload[rate] - overhead

NoCache  == [rate |-> DefaultRate, power |-> 0, nbTrans |-> 0, chMask |-> {}]
Settings == [rate |-> rate, power |-> power, nbTrans |-> nbTrans, chMask |-> chMask]

-----------------------------------------------------------------------------
Init ==
    /\ dynamic \in Plans
    /\ state = "IDLE" /\ joined = FALSE /\ version = 0
    /\ rate = DefaultRate /\ power = 0 /\ nbTrans = 0 /\ chMask = {}
    /\ chConfig = DefaultConfig
    /\ adr = TRUE /\ adr_ack_limit = AckLimit /\ adr_ack_delay = AckDelay
    /\ pending_cmds = {}
    /\ link_adr_ans = [mask |-> FALSE, rate |-> FALSE, power |-> FALSE]
    /\ adrAckCounter = 0 /\ adrAckReq = FALSE
    /\ told = {} /\ sent = {}
    /\ cache = NoCache /\ adr_state = "NO_ADR" /\ next = "END" /\ left = 0
    /\ asked = <<>>
    /\ owed = {} /\ quiet = TRUE

-----------------------------------------------------------------------------
(***************************************************************************)
(* The application.                                                        *)
(***************************************************************************)
\* LDL_MAC_unconfirmedData() and LDL_MAC_confirmedData(): the frame is built
\* with all pending answers; extra stands for a link check and a time request.
\* Data that does not fit beside the answers is refused, and they go alone.
Data(len, extra) ==
    /\ state = "IDLE" /\ joined
    /\ UsableAt(rate) # {}
    /\ LET macs == Bytes(pending_cmds) + extra
       IN told' = IF macs <= FOptsMax /\ Overhead + len + macs <= MaxPayload[rate]
                    THEN {"TRUE"} ELSE {"FALSE", "MACPRIORITY"}
    /\ sent' = pending_cmds
    /\ pending_cmds' = pending_cmds \ SingleShot
    /\ owed' = owed \cap (Sticky \cup {"REKEY"})
    /\ state' = "BUSY"
    /\ UNCHANGED <<session, setting, chConfig, ack, link_adr_ans, counter, loop,
                   quiet>>

\* The application's settings, at any time but within processCommands().
Set ==
    /\ state # "COMMANDS"
    /\ told' = {} /\ sent' = {} /\ quiet' = FALSE
    /\ UNCHANGED <<session, state, nbTrans, chMask, chConfig, adr_ack_limit,
                   adr_ack_delay, pending_cmds, link_adr_ans, counter, loop, owed>>

SetRate  == Set /\ rate' \in Rates /\ UNCHANGED <<power, adr>>
SetPower == Set /\ power' \in Powers /\ UNCHANGED <<rate, adr>>
SetADR   == Set /\ adr' \in BOOLEAN /\ UNCHANGED <<rate, power>>

\* restoreDefaults() with the settings of the application kept.
RestoreDefaults ==
    /\ chMask' = {}
    /\ adr_ack_limit' = AckLimit /\ adr_ack_delay' = AckDelay

Forget ==
    /\ state # "COMMANDS" /\ state' = "IDLE"
    /\ IF joined
         THEN /\ RestoreDefaults /\ chConfig' = DefaultConfig
              /\ joined' = FALSE /\ version' = 0
              /\ pending_cmds' = {} /\ owed' = {} /\ quiet' = FALSE
         ELSE UNCHANGED <<chMask, adr_ack_limit, adr_ack_delay, chConfig, joined,
                          version, pending_cmds, owed, quiet>>
    /\ told' = {} /\ sent' = {}
    /\ UNCHANGED <<dynamic, rate, power, nbTrans, adr, link_adr_ans, counter, loop>>

\* LDL_MAC_otaa(), which forgets the session, and the joinAccept it ends with;
\* the counter of the ADR is kept.
Join ==
    /\ state = "IDLE" /\ ~joined
    /\ RestoreDefaults
    /\ \E listed \in {{}, ListedChans} :
          chConfig' = [c \in Channel |-> IF dynamic /\ c \in listed
                                          THEN Rates ELSE DefaultConfig[c]]
    /\ joined' = TRUE
    /\ version' \in {0, 1}
    /\ pending_cmds' = IF version' = 1 THEN {"REKEY"} ELSE {}
    /\ owed' = pending_cmds'
    /\ rate' \in IF adr THEN JoinRates ELSE {rate}
    /\ quiet' = FALSE
    /\ told' = {} /\ sent' = {}
    /\ UNCHANGED <<dynamic, state, power, nbTrans, adr, link_adr_ans, counter, loop>>

\* LDL_MAC_cancel(), a chip error, or no channel for a repetition.
Abandon ==
    /\ state = "BUSY" /\ state' = "IDLE"
    /\ told' = {} /\ sent' = {}
    /\ UNCHANGED <<session, setting, chConfig, ack, pending_cmds, link_adr_ans,
                   counter, loop, owed, quiet>>

-----------------------------------------------------------------------------
(***************************************************************************)
(* No downlink: adaptRate().                                               *)
(***************************************************************************)
\* Defect: the first step of the back off is skipped over.
BackOffDueMutant ==
    /\ adrAckCounter > adr_ack_limit + adr_ack_delay
    /\ (adrAckCounter - adr_ack_limit - adr_ack_delay) % adr_ack_delay = 0

BackOffDue ==
    /\ adrAckCounter >= adr_ack_limit + adr_ack_delay
    /\ (adrAckCounter - adr_ack_limit - adr_ack_delay) % adr_ack_delay = 0

\* One step back: full power first, then the rate, then the channels.
BackOff ==
    \/ /\ power # 0 /\ power' = 0
       /\ UNCHANGED <<rate, chMask>>
       /\ adrAckCounter' = adrAckCounter + 1
    \/ /\ power = 0 /\ rate > DefaultRate /\ rate' = rate - 1
       /\ UNCHANGED <<power, chMask>>
       /\ adrAckCounter' = adrAckCounter + 1
    \/ /\ power = 0 /\ rate <= DefaultRate /\ chMask' = {}
       /\ UNCHANGED <<power, rate>>
       /\ adrAckCounter' = 0   \* UINT8_MAX, and the increment

AdaptRate ==
    \/ /\ ~adr
       /\ adrAckReq' = FALSE
       /\ UNCHANGED <<rate, power, chMask, adrAckCounter>>
    \/ /\ adr /\ adrAckCounter = CounterMax
       /\ adrAckReq' = FALSE
       /\ UNCHANGED <<rate, power, chMask, adrAckCounter>>
    \/ /\ adr /\ adrAckCounter < CounterMax
       /\ adrAckReq' = (adrAckCounter >= adr_ack_limit)
       /\ IF BackOffDue THEN BackOff
                        ELSE /\ UNCHANGED <<rate, power, chMask>>
                             /\ adrAckCounter' = adrAckCounter + 1

\* downlinkMissingHandler() after the last transmission.
Missing ==
    /\ state = "BUSY" /\ state' = "IDLE"
    /\ AdaptRate
    /\ told' = {} /\ sent' = {}
    /\ UNCHANGED <<session, nbTrans, chConfig, ack, pending_cmds, link_adr_ans,
                   loop, owed, quiet>>

-----------------------------------------------------------------------------
(***************************************************************************)
(* A downlink: LDL_MAC_process(), RX_READY.                                *)
(***************************************************************************)
\* What the stream shows next: a command, or nothing known.
Shows(n) == IF n > 0 THEN Commands \cup {"END"} ELSE {"END"}

\* data: whether it carries data for the application.  That response is in the
\* branch for port # 0 of a condition that holds for port = 0 only.
Downlink(data) ==
    /\ state = "BUSY" /\ state' = "COMMANDS"
    /\ pending_cmds' = pending_cmds \ Sticky
    /\ owed' = owed \ Sticky
    /\ adrAckCounter' = 0 /\ adrAckReq' = FALSE
    /\ link_adr_ans' = [link_adr_ans EXCEPT !.mask = TRUE]
    /\ cache' = Settings /\ adr_state' = "NO_ADR"
    /\ left' = MaxCommands /\ next' \in Shows(left')
    /\ asked' = <<>>
    /\ quiet' = TRUE
    /\ told' = {"DOWNSTREAM"} /\ sent' = {}
    /\ UNCHANGED <<session, setting, chConfig, ack>>

\* The loop takes a command and goes on.
Take(types) ==
    /\ state = "COMMANDS" /\ next \in types
    /\ left' = left - 1 /\ next' \in Shows(left')
    /\ told' = CASE next = "LINK_CHECK" -> {"LINK_STATUS"}
                  [] next = "DEVICE_TIME" -> {"DEVICE_TIME"}
                  [] OTHER -> {}
    /\ sent' = {}
    /\ UNCHANGED <<session, state, cache, counter, quiet>>

\* What the network waits for after a command, once it is taken.
Expect == owed' = owed \cup (IF next \in Unanswered \/ (next \in DynamicOnly /\ ~dynamic)
                               THEN {} ELSE {next})

\* The mask after one LinkADRReq, and whether its control is known.
Masked(r) ==
    IF dynamic
      THEN CASE r.cntl = 0 -> Mask(Unmask(chMask, r.mask), Channels \ r.mask)
             [] r.cntl = 6 -> {}
             [] OTHER -> chMask
      ELSE CASE r.cntl = 6 -> Unmask(chMask, Narrow)
             [] r.cntl = 7 -> Mask(chMask, Narrow)
             [] OTHER -> Mask(Unmask(chMask, Bank[r.cntl] \cap r.mask),
                              Bank[r.cntl] \ r.mask)

MaskKnown(r) == dynamic => r.cntl \in {0, 6}

\* The last request of a block decides on everything but the channels, and the
\* block as a whole is accepted or not.
EndBlock(r) ==
    LET rateOK  == r.rate = Keep \/ r.rate \in Rates
        powerOK == r.power = Keep \/ r.power \in Powers
        maskOK  == link_adr_ans.mask /\ MaskKnown(r) /\ ~AllMasked(chMask')
    IN /\ nbTrans' = CASE r.nbTrans = 0 -> nbTrans
                        [] r.nbTrans > MaxNbTrans -> MaxNbTrans
                        [] OTHER -> r.nbTrans
       /\ rate' = IF rateOK /\ r.rate # Keep THEN r.rate ELSE rate
       /\ power' = IF powerOK /\ r.power # Keep THEN r.power ELSE power
       /\ link_adr_ans' = [mask |-> maskOK, rate |-> rateOK, power |-> powerOK]
       /\ adr_state' = IF rateOK /\ powerOK /\ maskOK THEN "ADR_OK" ELSE "ADR_BAD"
       /\ pending_cmds' = pending_cmds \cup {"LINK_ADR"}

\* Blocks after the first are passed over.
LinkAdr ==
    /\ Take({"LINK_ADR"}) /\ Expect
    /\ \/ /\ "LINK_ADR" \in pending_cmds
          /\ UNCHANGED <<setting, adr_state, pending_cmds, link_adr_ans, asked>>
       \/ /\ "LINK_ADR" \notin pending_cmds
          /\ \E r \in Requests :
                /\ chMask' = Masked(r)
                /\ asked' = Append(asked, r)
                /\ IF next' = "LINK_ADR"
                     THEN /\ link_adr_ans' = [link_adr_ans EXCEPT
                                                !.mask = @ /\ MaskKnown(r)]
                          /\ UNCHANGED <<rate, power, nbTrans, adr_state, pending_cmds>>
                     ELSE EndBlock(r)
    /\ UNCHANGED <<chConfig, ack>>

PlainCommand ==
    /\ Take(Plain) /\ Expect
    /\ pending_cmds' = IF next \in DynamicOnly /\ ~dynamic
                         THEN pending_cmds ELSE pending_cmds \cup {next}
    /\ UNCHANGED <<setting, chConfig, ack, link_adr_ans, adr_state, asked>>

\* The frequency of a NewChannelReq, in 100 Hz, is taken for Hz: the channel is
\* then in none of the bands of EU_863_870; EU_433 has one for all.  The lowest
\* rate is lost.
NewChannel ==
    /\ Take({"NEW_CHANNEL"}) /\ Expect
    /\ \/ /\ ~dynamic
          /\ UNCHANGED <<chConfig, pending_cmds>>
       \/ /\ dynamic
          /\ \E r \in NewChannels :
                IF r.chan \in Channels /\ r.max \in Rates
                  THEN \E rates \in {{}, {x \in Rates : x <= r.max}} :
                          chConfig' = [chConfig EXCEPT ![r.chan] = rates]
                  ELSE UNCHANGED chConfig
          /\ pending_cmds' = pending_cmds \cup {"NEW_CHANNEL"}
    /\ UNCHANGED <<setting, ack, link_adr_ans, adr_state, asked>>

AdrParamSetup ==
    /\ Take({"ADR_PARAM_SETUP"}) /\ Expect
    /\ \E r \in AckParams : adr_ack_limit' = r.limit /\ adr_ack_delay' = r.delay
    /\ pending_cmds' = pending_cmds \cup {"ADR_PARAM_SETUP"}
    /\ UNCHANGED <<setting, chConfig, adr, link_adr_ans, adr_state, asked>>

\* RekeyConf, of this version or another.
Rekey ==
    /\ Take({"REKEY"})
    /\ \/ /\ pending_cmds' = pending_cmds \ {"REKEY"}
          /\ owed' = owed \ {"REKEY"}
       \/ UNCHANGED <<pending_cmds, owed>>
    /\ UNCHANGED <<setting, chConfig, ack, link_adr_ans, adr_state, asked>>

\* What the network tells, and what is passed over.
Notice ==
    /\ Take({"LINK_CHECK", "DEVICE_TIME", "FORCE_REJOIN"})
    /\ UNCHANGED <<setting, chConfig, ack, pending_cmds, link_adr_ans, adr_state,
                   owed, asked>>

\* Defect: the channels are not rolled back.
RollBackMutantMask ==
    IF adr_state = "ADR_BAD"
      THEN /\ rate' = cache.rate /\ power' = cache.power
           /\ nbTrans' = cache.nbTrans /\ UNCHANGED chMask
      ELSE UNCHANGED setting

\* Defect: the power is not rolled back.
RollBackMutantPower ==
    IF adr_state = "ADR_BAD"
      THEN /\ rate' = cache.rate /\ nbTrans' = cache.nbTrans
           /\ chMask' = cache.chMask /\ UNCHANGED power
      ELSE UNCHANGED setting

RollBack ==
    IF adr_state = "ADR_BAD"
      THEN /\ rate' = cache.rate /\ power' = cache.power
           /\ nbTrans' = cache.nbTrans /\ chMask' = cache.chMask
      ELSE UNCHANGED setting

\* The loop ends with the stream, or with a command that is cut off or unknown.
\* Its local variables are gone.
EndCommands ==
    /\ state = "COMMANDS"
    /\ next = "END" \/ MayTruncate
    /\ RollBack
    /\ told' = {} /\ sent' = {}
    /\ state' = "IDLE"
    /\ cache' = NoCache /\ adr_state' = "NO_ADR" /\ next' = "END" /\ left' = 0
    /\ asked' = <<>>
    /\ UNCHANGED <<session, chConfig, ack, pending_cmds, link_adr_ans, counter,
                   owed, quiet>>

-----------------------------------------------------------------------------
Command == LinkAdr \/ PlainCommand \/ NewChannel \/ AdrParamSetup \/ Rekey \/ Notice

Next ==
    \/ \E len \in Lengths, extra \in 0..2 : Data(len, extra)
    \/ SetRate \/ SetPower \/ SetADR \/ Forget \/ Join \/ Abandon
    \/ Missing
    \/ \E data \in BOOLEAN : Downlink(data)
    \/ Command \/ EndCommands

Spec == Init /\ [][Next]_vars

-----------------------------------------------------------------------------
(***************************************************************************)
(* Properties.                                                             *)
(***************************************************************************)
\* Type invariant.
TypeOK ==
    /\ dynamic \in BOOLEAN /\ joined \in BOOLEAN /\ version \in {0, 1}
    /\ state \in {"IDLE", "BUSY", "COMMANDS"}
    /\ Settings \in Setting /\ cache \in Setting
    /\ chConfig \in [Channel -> SUBSET Rates]
    /\ adr \in BOOLEAN /\ adr_ack_limit \in Nat /\ adr_ack_delay \in Nat \ {0}
    /\ pending_cmds \subseteq Answered /\ owed \subseteq Answered
    /\ sent \subseteq Answered
    /\ link_adr_ans \in [mask : BOOLEAN, rate : BOOLEAN, power : BOOLEAN]
    /\ adrAckCounter \in 0..CounterMax /\ adrAckReq \in BOOLEAN
    /\ told \subseteq Reports
    /\ adr_state \in {"NO_ADR", "ADR_OK", "ADR_BAD"}
    /\ next \in Commands \cup {"END"} /\ left \in 0..MaxCommands
    /\ asked \in Seq(Requests) /\ quiet \in BOOLEAN

\* Every uplink carries exactly the answers the network waits for: each of the
\* last downlink once, those of receive windows until a downlink shows that they
\* arrived, and RekeyInd until the network confirms it.
AnswersSent == [][state = "IDLE" /\ state' = "BUSY" => sent' = owed]_vars

\* What a block of LinkADRReqs asks of a channel, request by request: the last
\* one that concerns the channel decides.  kind: is the region a dynamic one?
Says(kind, r, c) ==
    IF kind
      THEN CASE r.cntl = 6 -> "on"
             [] r.cntl = 0 /\ c < DynamicChans -> IF c \in r.mask THEN "on" ELSE "off"
             [] OTHER -> "nothing"
      ELSE CASE r.cntl = 6 /\ c \in Narrow -> "on"
             [] r.cntl = 7 /\ c \in Narrow -> "off"
             [] r.cntl < 6 /\ c \in Bank[r.cntl] -> IF c \in r.mask THEN "on" ELSE "off"
             [] OTHER -> "nothing"

MaskedBy(block, c) ==
    LET about == {i \in DOMAIN block : Says(dynamic, block[i], c) # "nothing"}
    IN IF about = {} THEN c \in cache.chMask ELSE Says(dynamic, block[Max(about)], c) = "off"

Wanted(block) ==
    LET last == block[Len(block)]
    IN [rate   |-> IF last.rate = Keep THEN cache.rate ELSE last.rate,
        power  |-> IF last.power = Keep THEN cache.power ELSE last.power,
        nbTrans |-> IF last.nbTrans = 0 THEN cache.nbTrans
                    ELSE IF last.nbTrans > MaxNbTrans THEN MaxNbTrans ELSE last.nbTrans,
        chMask |-> {c \in Channel : MaskedBy(block, c)}]

\* Settings are what a block of LinkADRReqs asks for if its answer accepts all of
\* it, and what they were before the downlink if it does not: the network and the
\* device agree on rate, power, repetitions and channels.
WholeBlockOrNothing ==
    [][state = "COMMANDS" /\ state' = "IDLE" =>
         Settings' = IF asked # <<>> /\ link_adr_ans = AllAccepted
                       THEN Wanted(asked) ELSE cache]_vars

\* In a fixed plan no sequence of commands leaves the device without a channel.
FixedPlanKeepsChannel == ~dynamic /\ state # "COMMANDS" => ~AllMasked(chMask)

\* Neither in a dynamic plan: "do not allow server to mask all channels".
KeepsChannel == state # "COMMANDS" => \E c \in Channels : c \notin chMask

\* Data no longer than LDL_MAC_mtu() is accepted with the answers that wait,
\* unless TXParamSetupAns, which it does not count, is among them, or they are more
\* than a frame header holds.
MtuHonoured ==
    [][\A len \in Lengths :
         /\ Data(len, 0) /\ len <= Mtu /\ Mtu > 0
         /\ "TX_PARAM_SETUP" \notin pending_cmds
         /\ Bytes(pending_cmds) <= FOptsMax
         => told' = {"TRUE"}]_vars

\* Data for the application in a downlink is handed to it.
DataDelivered == [][Downlink(TRUE) => "RX" \in told']_vars

\* A device that goes on sending with the ADR on and hears nothing ends at full
\* power, the default rate and with every channel in use.
BacksOff ==
    /\ []<><<Missing>>_vars
    /\ <>[][\A data \in BOOLEAN : ~Downlink(data)]_vars
    /\ <>[](quiet /\ adr)
    => <>[](power = 0 /\ rate <= DefaultRate /\ chMask = {})
=============================================================================
