------------------------------- MODULE Windows -------------------------------
(***************************************************************************)
(* Where and when the receive windows of src/ldl_mac.c open: the rates,    *)
(* channels and delays of a region as joins and downlinks change them, the *)
(* time an uplink takes on the air, and the arithmetic of LDL_STATE_TX,    *)
(* WAIT_RX1 and WAIT_RX2 on the ticks of a clock that is wrong by up to    *)
(* eps ticks a second.  Mac has the control around it.                     *)
(*                                                                         *)
(* Time is in ticks of the device since the end of the uplink.  Between    *)
(* two steps as much of it passes as the later step waits for, and it is   *)
(* late by one of Lates.                                                   *)
(***************************************************************************)
EXTENDS Regions, Integers, FiniteSets, Sequences

CONSTANTS
    UsedRegions,  \* regions compiled in
    Systems,      \* clocks: ticks per second, error per second, advance
    Lates,        \* how late an interrupt or a timer is processed, in ticks
    Offsets,      \* rx1DROffset of join accepts
    RX2Rates,     \* rx2DataRate of join accepts
    Delays,       \* delays of join accepts and RXTimingSetupReqs, in seconds
    CFLists,      \* frequency lists of join accepts
    SetRates,     \* rates the application sets
    Rands,        \* values of LDL_System_rand()
    MaxTrials     \* bound on the attempts to join

ASSUME WindowsAssumption ==
    /\ UsedRegions \subseteq AllRegions
    /\ \A s \in Systems : /\ s.tps \in Nat /\ s.tps >= 10000 /\ s.tps <= 1000000
                          /\ s.eps \in 0..s.tps /\ s.advance \in Nat
    /\ Lates \subseteq Nat
    /\ Offsets \subseteq 0..7 /\ RX2Rates \subseteq 0..15 /\ Delays \subseteq 0..15
    /\ Rands \subseteq Nat

\* Clocks whose ticks measure a symbol: where uplinks cost off-time, rounding loses
\* no more than three hundredths of a symbol of any rate.
FineClocks ==
    \A s \in Systems, r \in UsedRegions \cap EU, rate \in 0..5 :
        LET chips == 2^ConvertRate(r, rate).sf * s.tps
        IN chips % (ConvertRate(r, rate).bw * 1000) <= 3 * (chips \div 100)

VARIABLES
    region, sys,
    ctx,       \* the settings of the session that matter here
    channels,  \* ctx.chConfig, or the fixed plan
    state, op, trials,
    tx,        \* rate, channel, frequency and size of the uplink
    now,       \* time of the last step
    waitA, waitB,
    slots,     \* rx1_margin, rx1_symbols, rx2_margin, rx2_symbols
    radio,     \* what LDL_Radio_receive() was last called with, and when
    off        \* off-time the last uplink was registered with, in ms

vars == <<region, sys, ctx, channels, state, op, trials, tx, now, waitA, waitB, slots,
          radio, off>>

Unset == -1

-----------------------------------------------------------------------------
(* Time on the air. *)

BwToNumber(bw) == bw * 1000

SymbolPeriod(sf, bw) == (2^sf * sys.tps) \div BwToNumber(bw)
RatePeriod(rate) == LET r == ConvertRate(region, rate) IN SymbolPeriod(r.sf, r.bw)

\* Defect: the last symbol begun is not counted.
ExtraSymbolsMutant(error, period) == (error \div period) % 256

\* Symbols the clocks may be apart, rounded up, in 8 bits.
ExtraSymbols(error, period) ==
    ((error \div period) + (IF error % period > 0 THEN 1 ELSE 0)) % 256

\* Symbols of the payload of a frame of n bytes, header and CRC included.
PayloadSymbols(sf, bw, n, crc) ==
    LET bits   == 8 * n - 4 * sf + 28 + (IF crc THEN 16 ELSE 0) - 20
        denom  == 4 * (sf - IF bw = 125 /\ sf \in {11, 12} THEN 2 ELSE 0)
    IN 8 + (bits \div denom + IF bits % denom # 0 THEN 1 ELSE 0) * 5

\* Defect: the preamble is not counted.
TransmitTimeMutant(bw, sf, n, crc) == PayloadSymbols(sf, bw, n, crc) * SymbolPeriod(sf, bw)

TransmitTime(bw, sf, n, crc) ==
    LET Ts == SymbolPeriod(sf, bw)
    IN Ts * 12 + Ts \div 4 + PayloadSymbols(sf, bw, n, crc) * Ts

TicksToMS(ticks) == (ticks \div sys.tps) * 1000 + ((ticks % sys.tps) * 1000) \div sys.tps

TxTime == LET r == ConvertRate(region, tx.rate) IN TransmitTime(r.bw, r.sf, tx.size, TRUE)

-----------------------------------------------------------------------------
(* Channels. *)

IsAvailable(chs, rate) ==
    {ch \in DOMAIN chs : /\ rate \in chs[ch].minRate..chs[ch].maxRate
                         /\ GetBand(region, chs[ch].freq) # -1}

\* The channel used before is left out unless it is the only one; a random
\* number selects among the others, in order.
Selected(available, prev, rand) ==
    LET rest == IF Cardinality(available) > 1 THEN available \ {prev} ELSE available
    IN CHOOSE ch \in rest :
          Cardinality({c \in rest : c < ch}) = rand % Cardinality(rest)

\* selectChannel() finds a channel for the uplink, with all bands open.
SelectChannel(chs, rate, size) ==
    \E rand \in Rands :
        LET ch == Selected(IsAvailable(chs, rate), tx.ch, rand)
        IN tx' = [rate |-> rate, ch |-> ch, freq |-> chs[ch].freq, size |-> size]

-----------------------------------------------------------------------------
(* The session. *)

\* restoreDefaults().  ctx.rx2Rate is cleared with the rest of the session.
Default(rate) ==
    [joined |-> FALSE, rate |-> rate, rx1DROffset |-> RX1Offset, rx1Delay |-> RX1Delay,
     rx2DataRate |-> RX2Rate(region), rx2Freq |-> RX2Freq(region)]

\* Nothing else assigns it.
ctx_rx2Rate == 0

NoUplink  == [rate |-> 0, ch |-> 0, freq |-> 0, size |-> 0]
NoReceive == [sf |-> 0, bw |-> 0, freq |-> 0, max |-> 0, timeout |-> 0, at |-> 0]
NoSlots   == [margin1 |-> 0, symbols1 |-> 0, margin2 |-> 0, symbols2 |-> 0]

Init ==
    /\ region \in UsedRegions /\ sys \in Systems
    /\ ctx = Default(DefaultRate) /\ channels = DefaultChannels(region)
    /\ state = "IDLE" /\ op = "NONE" /\ trials = 0
    /\ tx = NoUplink
    /\ now = 0 /\ waitA = Unset /\ waitB = Unset
    /\ slots = NoSlots /\ radio = NoReceive /\ off = 0

\* The frame is given to the radio, its off-time registered.
RegisterTime ==
    LET r    == ConvertRate(region, tx'.rate)
        band == GetBand(region, tx'.freq)
        air  == TransmitTime(r.bw, r.sf, tx'.size, TRUE)
    IN off' = TicksToMS(air) * OffTimeFactor(region, band)

Transmit ==
    /\ state' = "TX" /\ now' = 0 /\ waitA' = Unset /\ waitB' = Unset
    /\ slots' = NoSlots /\ radio' = NoReceive
    /\ RegisterTime

JoinRequestSize == 23

Otaa ==
    /\ state = "IDLE"
    /\ ctx' = (IF ctx.joined THEN Default(DefaultRate) ELSE ctx)
    /\ channels' = (IF ctx.joined THEN DefaultChannels(region) ELSE channels)
    /\ op' = "JOINING" /\ trials' = 0
    /\ IsAvailable(channels', JoinRate(region, 0)) # {}
    /\ SelectChannel(channels', JoinRate(region, 0), JoinRequestSize)
    /\ Transmit
    /\ UNCHANGED <<region, sys>>

Forget ==
    /\ state = "IDLE" /\ ctx.joined
    /\ ctx' = Default(DefaultRate) /\ channels' = DefaultChannels(region)
    /\ UNCHANGED <<region, sys, state, op, trials, tx, now, waitA, waitB, slots, radio, off>>

\* The smallest frame and the largest one the rate has room for.
Data ==
    /\ state = "IDLE" /\ ctx.joined
    /\ op' = "DATA" /\ trials' = 0
    /\ IsAvailable(channels, ctx.rate) # {}
    /\ \E size \in {13, ConvertRate(region, ctx.rate).mtu + 5} :
          SelectChannel(channels, ctx.rate, size)
    /\ Transmit
    /\ UNCHANGED <<region, sys, ctx, channels>>

SetRate ==
    /\ state = "IDLE" /\ ctx.joined
    /\ \E rate \in {r \in SetRates : RateSettingIsValid(region, r)} :
          ctx' = [ctx EXCEPT !.rate = rate]
    /\ UNCHANGED <<region, sys, channels, state, op, trials, tx, now, waitA, waitB, slots,
                   radio, off>>

-----------------------------------------------------------------------------
(* The windows. *)

WaitSeconds == IF op = "JOINING" THEN JA1Delay ELSE ctx.rx1Delay

Margin(extra, period) == (3 + extra) * period

\* Defect: the second window's timer starts from the first window's delay.
SecondSlotMutant(ticks) == ticks

SecondSlot(ticks) == ticks + sys.tps + sys.eps

CanSchedule(advance, ticks) == advance <= ticks

TxComplete(late) ==
    LET s         == WaitSeconds
        waitTicks == s * sys.tps + s * sys.eps
        second    == SecondSlot(waitTicks)
        period1   == RatePeriod(RX1DataRate(region, tx.rate, ctx.rx1DROffset))
        extra1    == ExtraSymbols(s * sys.eps * 2, period1)
        period2   == RatePeriod(ctx_rx2Rate)
        extra2    == ExtraSymbols((s + 1) * sys.eps * 2, period2)
        advanceA  == sys.advance + late + extra1 * period1
        advanceB  == sys.advance + late + extra2 * period2
    IN /\ state = "TX" /\ now' = late
       /\ slots' = [margin1  |-> Margin(extra1, period1), symbols1 |-> (8 + extra1) % 256,
                    margin2  |-> Margin(extra2, period2), symbols2 |-> (8 + extra2) % 256]
       /\ IF CanSchedule(advanceB, second) /\ CanSchedule(advanceA, waitTicks)
          THEN /\ state' = "WAIT_RX1"
               /\ waitA' = late + waitTicks - advanceA
               /\ waitB' = late + second - advanceB
          ELSE /\ state' = "WAIT_RX2"
               /\ waitA' = Unset
               /\ waitB' = (IF CanSchedule(advanceB, second) THEN late + second - advanceB
                         ELSE late)
       /\ UNCHANGED <<region, sys, ctx, channels, op, trials, tx, radio, off>>

PhyOverhead == 1 + 4

\* LDL_Radio_receive(): the radio listens once it has ramped up.
Listen(rate, freq, symbols) ==
    LET r == ConvertRate(region, rate)
    IN radio' = [sf |-> r.sf, bw |-> r.bw, freq |-> freq, max |-> (r.mtu + PhyOverhead) % 256,
                 timeout |-> symbols, at |-> now' + sys.advance]

OpenRX1(late) ==
    /\ state = "WAIT_RX1" /\ now' = waitA + late
    /\ IF late <= slots.margin1
       THEN /\ Listen(RX1DataRate(region, tx.rate, ctx.rx1DROffset),
                      RX1Freq(region, tx.freq, tx.ch), slots.symbols1)
            /\ state' = "RX1" /\ waitA' = now' + 16 * sys.tps
       ELSE state' = "WAIT_RX2" /\ waitA' = Unset /\ UNCHANGED radio
    /\ UNCHANGED <<region, sys, ctx, channels, op, trials, tx, waitB, slots, off>>

\* The request ends.  All that is read of it later is its channel.
Idle ==
    /\ state' = "IDLE" /\ op' = "NONE" /\ now' = 0 /\ waitA' = Unset /\ waitB' = Unset
    /\ tx' = [NoUplink EXCEPT !.ch = tx.ch]
    /\ slots' = NoSlots /\ radio' = NoReceive /\ off' = 0

\* A window missed for good ends the request (see Mac).
OpenRX2(late) ==
    LET due == IF waitB > now THEN waitB ELSE now
    IN /\ state = "WAIT_RX2"
       /\ IF due + late - waitB <= slots.margin2
          THEN /\ now' = due + late /\ waitB' = Unset
               /\ Listen(ctx.rx2DataRate, ctx.rx2Freq, slots.symbols2)
               /\ state' = "RX2" /\ waitA' = now' + 16 * sys.tps
               /\ UNCHANGED <<op, trials, tx, slots, off>>
          ELSE Idle /\ trials' = 0
       /\ UNCHANGED <<region, sys, ctx, channels>>

\* n symbols of the radio, in ticks (8 divides both 2^sf and the bandwidth).
Symbols(n, sf, bw) == (n * 2^(sf - 3) * sys.tps) \div (bw * 125)

\* When a window that hears nothing is over: the symbols it listens for are
\* added one by one so that no product outgrows TLC's integers.
WindowEnd == radio.at + radio.timeout * Symbols(1, radio.sf, radio.bw)

\* Nothing was heard in RX1.  (Should WAITB run out before the window is over,
\* the MAC would take it for a failure of the chip: EmptyWindowEndsFirst.)
RX1Timeout ==
    /\ state = "RX1" /\ now' = WindowEnd
    /\ state' = "WAIT_RX2" /\ waitA' = Unset
    /\ UNCHANGED <<region, sys, ctx, channels, op, trials, tx, waitB, slots, radio, off>>

\* Nothing was heard in either: the request ends, or the next attempt to join
\* uses the next rate.
RX2Timeout ==
    /\ state = "RX2"
    /\ IF op = "JOINING"
       THEN /\ trials' = trials + 1 /\ trials' <= MaxTrials
            /\ IsAvailable(channels, JoinRate(region, trials')) # {}
            /\ SelectChannel(channels, JoinRate(region, trials'), JoinRequestSize)
            /\ Transmit /\ op' = op
       ELSE Idle /\ trials' = 0
    /\ UNCHANGED <<region, sys, ctx, channels>>

\* A request ends with a downlink.
Heard ==
    /\ state \in {"RX1", "RX2"}
    /\ Idle /\ trials' = 0
    /\ UNCHANGED <<region, sys>>

\* A delay of 0 in a join accept is one second.
JoinAccept ==
    /\ op = "JOINING" /\ Heard
    /\ \E offset \in Offsets, rx2 \in RX2Rates, delay \in Delays :
          ctx' = [Default(tx.rate) EXCEPT !.joined = TRUE, !.rx1DROffset = offset,
                      !.rx2DataRate = rx2, !.rx1Delay = IF delay = 0 THEN 1 ELSE delay]
    /\ \E freqs \in CFLists \cup {<<>>} :
          channels' = (IF freqs = <<>> THEN DefaultChannels(region)
                       ELSE ProcessCFList(region, DefaultChannels(region), freqs))

\* A downlink, with an RXTimingSetupReq or without: there 0 is taken for 0.
Downlink ==
    /\ op = "DATA" /\ Heard
    /\ \E delay \in Delays \cup {ctx.rx1Delay} : ctx' = [ctx EXCEPT !.rx1Delay = delay]
    /\ UNCHANGED channels

Next ==
    \/ Otaa \/ Forget \/ Data \/ SetRate
    \/ \E late \in Lates : \/ TxComplete(late) \/ OpenRX1(late) \/ OpenRX2(late)
    \/ RX1Timeout \/ RX2Timeout \/ JoinAccept \/ Downlink

Spec == Init /\ [][Next]_vars

-----------------------------------------------------------------------------
TypeOK ==
    /\ region \in UsedRegions /\ sys \in Systems
    /\ ctx.joined \in BOOLEAN /\ ctx.rate \in 0..15 /\ ctx.rx1DROffset \in 0..7
    /\ ctx.rx1Delay \in 0..15 /\ ctx.rx2DataRate \in 0..15
    /\ state \in {"IDLE", "TX", "WAIT_RX1", "RX1", "WAIT_RX2", "RX2"}
    /\ op \in {"NONE", "JOINING", "DATA"}
    /\ trials \in Nat /\ now \in Nat /\ off \in Nat
    /\ waitA \in Nat \cup {Unset} /\ waitB \in Nat \cup {Unset}
    /\ \A s \in {slots.symbols1, slots.symbols2, radio.timeout} : s \in 0..255

-----------------------------------------------------------------------------
(* The network answers s seconds after the uplink; by the device's clock   *)
(* that is up to s * eps ticks off.                                        *)
Earliest(s) == s * sys.tps - s * sys.eps
Latest(s)   == s * sys.tps + s * sys.eps

\* Of a preamble of eight symbols that begins anywhere between the two, the
\* radio hears at least five.
Hears(s) ==
    /\ radio.at - Earliest(s) <= Symbols(3, radio.sf, radio.bw)
    /\ Latest(s) + Symbols(5, radio.sf, radio.bw) <= WindowEnd

\* The extra symbols needed for s seconds fit their 8 bits, with the other 8.
ExtraFits(s, period) == s * sys.eps * 2 <= 247 * period

\* The window was opened no more than three symbols after it was due.
OpenedInTime(s, period) ==
    radio.at <= Latest(s) - (radio.timeout - 8) * period + 3 * period

\* A window that is opened in time hears a downlink sent in its slot, however
\* far the clocks have drifted apart within eps and whatever late interrupt
\* the timers were set from.  The second one only if its rate has the symbol
\* period of the rate its length was computed for.
SlotsHeard ==
    LET s       == WaitSeconds
        period1 == SymbolPeriod(radio.sf, radio.bw)
        period2 == RatePeriod(ctx_rx2Rate)
    IN /\ state = "RX1" /\ ExtraFits(s, period1) /\ OpenedInTime(s, period1) => Hears(s)
       /\ /\ state = "RX2" /\ period2 = SymbolPeriod(radio.sf, radio.bw)
          /\ ExtraFits(s + 1, period2) /\ OpenedInTime(s + 1, period2)
          => Hears(s + 1)

\* The same of the second window at whatever rate it is opened.
Rx2Heard ==
    LET s == WaitSeconds + 1
    IN state = "RX2" /\ OpenedInTime(s, RatePeriod(ctx_rx2Rate)) => Hears(s)

\* A first window that hears nothing is over before WAITB runs out, which in RX1
\* would be taken for a failure of the chip: also when the window was opened
\* as late as its margin allows and is as long as the clock's error asks.
EmptyWindowEndsFirst == state = "RX1" => WindowEnd < waitB

\* The first window is opened at the rate of the uplink less the offset, within
\* the region's downlink rates, for every offset the region has.
Rx1RateByOffset ==
    LET Between(low, r, high) == IF r < low THEN low ELSE IF r > high THEN high ELSE r
        less == tx.rate - ctx.rx1DROffset
        rate == CASE region \in EU           -> Between(0, less, 5)
                  [] region = "US_902_928"   -> Between(8, 10 + less, 13)
                  [] region = "AU_915_928"   -> Between(8, 8 + less, 13)
    IN state = "RX1" /\ ctx.rx1DROffset < RX1Columns(region)
         => /\ radio.sf = ConvertRate(region, rate).sf
            /\ radio.bw = ConvertRate(region, rate).bw

\* There is a channel for every attempt to join, at the rate the attempt uses.
JoinFindsChannel ==
    /\ state = "IDLE" =>
         IsAvailable(IF ctx.joined THEN DefaultChannels(region) ELSE channels,
                     JoinRate(region, 0)) # {}
    /\ state = "RX2" /\ op = "JOINING" =>
         IsAvailable(channels, JoinRate(region, trials + 1)) # {}

\* The timer that guards TX, twice the computed time on the air, outlasts the
\* frame although symbols are rounded down to ticks.
GuardOutlastsFrame ==
    LET r == ConvertRate(region, tx.rate)
    IN state = "TX" =>
         2 * TxTime > (13 + PayloadSymbols(r.sf, r.bw, tx.size, TRUE))
                         * (Symbols(1, r.sf, r.bw) + 1)

\* The off-time registered for an uplink is that of its true time on the air, less
\* three hundredths at most: rounding to ticks and ms does not add up to more.
AirtimeRegistered ==
    LET r      == ConvertRate(region, tx.rate)
        n      == PayloadSymbols(r.sf, r.bw, tx.size, TRUE)
        air    == ((49 + 4 * n) * 2^r.sf) \div (4 * r.bw)
        factor == OffTimeFactor(region, GetBand(region, tx.freq))
    IN state = "TX" => 100 * off >= 97 * factor * (air - 2)

\* Both windows are what the network counts on: at the rate agreed, and open
\* while its downlink is on the air.
SlotsAsAgreed == Rx1RateByOffset /\ SlotsHeard

\* The time on the air, computed in ticks, serves both its uses: the guard of the
\* transmission and the off-time after it.
AirtimeServes == GuardOutlastsFrame /\ AirtimeRegistered
=============================================================================
