------------------------------- MODULE Bands --------------------------------
(***************************************************************************)
(* Off-times and channel selection of src/ldl_mac.c: registerTime(),       *)
(* processBands(), nextBandEvent(), selectChannel(), msUntilNextChannel(), *)
(* and what the requests of LDL_MAC_process() do with them.                *)
(*                                                                         *)
(* Off-times are in ms, and run down by whole seconds on a grid that       *)
(* polled_band_ticks marks.  Here a channel is its frequency, the rest of  *)
(* a request is left out (see Mac), and the clock does not wrap (Timers).  *)
(***************************************************************************)
EXTENDS Integers, FiniteSets

CONSTANTS
    Channel, NoChannel,
    RegionBand,    \* bands of the region
    BandOf,        \* LDL_Region_getBand()
    Factor,        \* LDL_Region_getOffTimeFactor()
    Usable,        \* sets of channels unmasked and valid for a rate
    AirTimes,      \* ms on the air
    RetryDuties,   \* getRetryDuty(): 100, 1000, 10000
    MaxDutyCycles, \* settings of ctx.maxDutyCycle
    NbTrans,       \* transmissions of a data request
    OffLimit,      \* LDL_Region_getMaxDCycleOffLimit()
    StartupDelay,  \* LDL_STARTUP_DELAY
    Tps,           \* ticks per second
    Ms,            \* ms per second: 1000
    MaxMs,         \* UINT32_MAX
    Minute,        \* longest interval of the BAND timer, in seconds: 60
    MaxLag         \* ticks between the end of an interval and the main loop

Band == RegionBand \cup {"GLOBAL", "RETRY"}

ASSUME BandsAssumption ==
    /\ NoChannel \notin Channel
    /\ RegionBand \cap {"GLOBAL", "RETRY"} = {}
    /\ BandOf \in [Channel -> RegionBand] /\ Factor \in [RegionBand -> Nat]
    /\ Usable \subseteq SUBSET Channel
    /\ AirTimes \subseteq Nat /\ RetryDuties \subseteq Nat
    /\ MaxDutyCycles \subseteq 0..15 /\ \A m \in 0..15 : 2 ^ m \in Nat
    /\ NbTrans \in 1..15
    /\ OffLimit \in Nat /\ MaxMs \in Nat /\ StartupDelay \in 0..MaxMs
    /\ \A a \in AirTimes, d \in RetryDuties : a * d <= MaxMs
    /\ Tps \in Nat /\ Ms \in Nat \ {0} /\ Tps >= Ms
    /\ Minute \in Nat \ {0} /\ MaxLag \in Nat

VARIABLES
    state,     \* IDLE, WAIT_TX, TX (to the end of RX2), WAIT_RETRY
    op,
    trials,
    channel,   \* self->tx.chIndex
    air,       \* transmit time of the frame
    usable,    \* channels isAvailable() would accept but for their band
    maxDuty,   \* ctx.maxDutyCycle
    band,      \* self->band
    phase,     \* ticks since self->polled_band_ticks
    wake,      \* ticks left of the BAND timer
    due        \* history: ticks until each band's off-time is over; negative
               \* while the band is closed for longer

request == <<state, op, trials, channel, air>>
setting == <<usable, maxDuty>>
vars    == <<request, setting, band, phase, wake, due>>

-----------------------------------------------------------------------------
Larger(a, b)  == IF a > b THEN a ELSE b
Smaller(a, b) == IF a < b THEN a ELSE b

TicksPerMs == Tps \div Ms

\* More than an open band's off-time can be over by: history counts no further.
Late == Tps + TicksPerMs + MaxLag

\* Whole seconds since the grid's last mark, in ms.
Since == (phase \div Tps) * Ms

RunDown(ms, since) == IF ms < since THEN 0 ELSE ms - since

\* Defect: the last band is left out.
CurrentMutant ==
    [b \in Band |-> IF b = "RETRY" THEN band[b] ELSE RunDown(band[b], Since)]

\* The bands after processBands().
Current == [b \in Band |-> RunDown(band[b], Since)]

\* Defect: the mark moves to the present, the part of a second is lost.
MarkMutant(since) == IF since > 0 THEN 0 ELSE phase

\* Ticks since the mark once it has moved.
Mark(since) == phase - TicksPerMs * since

Plus(ms, off) == Smaller(ms + off, MaxMs)

\* Defect: the off-time replaces what is left of an earlier one.
RegisterMutant(bands, b, off) == [bands EXCEPT ![b] = off]

Register(bands, b, off) == [bands EXCEPT ![b] = Plus(bands[b], off)]

\* registerTime()
Registered(bands) ==
    LET own == BandOf[channel]
        region == IF Factor[own] > 0 THEN Register(bands, own, air * Factor[own])
                                     ELSE bands
    IN IF op # "JOINING" /\ maxDuty > 0
         THEN Register(region, "GLOBAL", air * 2 ^ maxDuty)
         ELSE region

\* Defect: the bands are not looked at.
AvailableMutant(bands, channels, limit) == channels

\* isAvailable() for some channel of a set, and the choice selectChannel()
\* draws from: another channel than the last, if there is one.
Available(bands, channels, limit) == {c \in channels : bands[BandOf[c]] <= limit}

Selection(bands, channels, limit) ==
    LET available == Available(bands, channels, limit)
    IN IF available \ {channel} # {} THEN available \ {channel} ELSE available

\* msUntilAvailable() of a channel
UntilAvailable(bands, c) == Larger(bands[BandOf[c]], bands["GLOBAL"])

\* msUntilNextChannel()
UntilNext(bands, channels) ==
    LET ms == {UntilAvailable(bands, c) : c \in channels}
    IN IF ms = {} THEN MaxMs ELSE CHOOSE m \in ms : \A n \in ms : m <= n

\* nextBandEvent() finds next, the least off-time there is.
NextEvent(bands, next) ==
    \/ /\ next > 0 /\ \E b \in Band : bands[b] = next
       /\ \A b \in Band : bands[b] > 0 => next <= bands[b]
    \/ /\ \A b \in Band : bands[b] = 0
       /\ next = MaxMs

-----------------------------------------------------------------------------
\* Once the device has started.
Init ==
    /\ state = "IDLE" /\ op = "NONE" /\ trials = 0
    /\ channel = NoChannel /\ air = 0
    /\ usable \in Usable /\ maxDuty = 0
    /\ band = [b \in Band |-> IF b = "GLOBAL" THEN StartupDelay ELSE 0]
    /\ phase = 0 /\ wake = 0
    /\ due = [b \in Band |-> TicksPerMs * band[b]]

\* Off-times that are over are forgotten once their band is open.
Settled == [b \in Band |-> IF Current[b] = 0 THEN Larger(due[b], 0) ELSE due[b]]

\* What all calls of LDL_MAC_process() have in common: the bands run down
\* first, and the BAND timer is set last.  The step of the state between
\* them leaves the bands, and the off-times they stand for, as given.
Processing(bands, offtimes) ==
    /\ band' = bands
    /\ phase' = Mark(Since)
    /\ \E next \in {bands[b] : b \in Band} \cup {MaxMs} :
          /\ NextEvent(bands, next)
          /\ wake' = IF next < Minute * Ms THEN TicksPerMs * (next + 1)
                                           ELSE Minute * Tps
    /\ due' = offtimes

\* A further off-time of some ms, as far as there are bits for it.
Owing(b, off) == Larger(due[b], 0)
                 + TicksPerMs * (Smaller(Current[b] + off, MaxMs) - Current[b])

ProcessWaitTx ==
    /\ state = "WAIT_TX"
    /\ state' = "TX"
    /\ Processing(Registered(Current),
           [b \in Band |->
               IF b = BandOf[channel] THEN Owing(b, air * Factor[b])
               ELSE IF b = "GLOBAL" /\ op # "JOINING" /\ maxDuty > 0
                 THEN Owing(b, air * 2 ^ maxDuty)
               ELSE Settled[b]])
    /\ UNCHANGED <<op, trials, channel, air, setting>>

\* No answer: downlinkMissingHandler(), per operation.
Missing ==
    /\ state = "TX" /\ op # "NONE"
    /\ trials' = IF op = "JOINING" THEN 0 ELSE trials + 1

\* The retry waits for this off-time, which replaces the one before.
Retrying(duty)  == [Current EXCEPT !["RETRY"] = air * duty]
RetryOwed(duty) == [Settled EXCEPT !["RETRY"] = TicksPerMs * air * duty]

MissingConfirmed ==
    /\ Missing /\ op = "CONFIRMED" /\ trials' < NbTrans
    /\ \E duty \in RetryDuties :
        LET bands == Retrying(duty)
            limit == Larger(UntilNext(bands, usable), bands["RETRY"])
            choice == Selection(bands, usable, limit)
        IN /\ channel' \in IF choice = {} THEN {channel} ELSE choice
           /\ Processing(bands, RetryOwed(duty))
    /\ state' = "WAIT_RETRY"
    /\ UNCHANGED <<op, air, setting>>

MissingUnconfirmed ==
    /\ Missing /\ op = "UNCONFIRMED" /\ trials' < NbTrans
    /\ LET choice == Selection(Current, usable, OffLimit) IN
       \/ /\ Current["GLOBAL"] < OffLimit /\ choice # {}
          /\ channel' \in choice
          /\ state' = "WAIT_TX" /\ UNCHANGED op
       \/ /\ Current["GLOBAL"] >= OffLimit \/ choice = {}
          /\ state' = "IDLE" /\ op' = "NONE" /\ UNCHANGED channel
    /\ Processing(Current, Settled)
    /\ UNCHANGED <<air, setting>>

MissingLast ==
    /\ Missing /\ op \in {"CONFIRMED", "UNCONFIRMED"} /\ trials' >= NbTrans
    /\ state' = "IDLE" /\ op' = "NONE"
    /\ Processing(Current, Settled)
    /\ UNCHANGED <<channel, air, setting>>

\* The next join rate may have other channels and another time on the air.
MissingJoin ==
    /\ Missing /\ op = "JOINING"
    /\ usable' \in Usable /\ air' \in AirTimes
    /\ \E duty \in RetryDuties :
        LET bands == Retrying(duty)
            limit == Larger(UntilNext(bands, usable'), bands["RETRY"])
            choice == Selection(bands, usable', limit)
        IN /\ \/ /\ choice # {} /\ channel' \in choice
                 /\ state' = "WAIT_RETRY" /\ UNCHANGED op
              \/ /\ choice = {} /\ UNCHANGED channel
                 /\ state' = "IDLE" /\ op' = "NONE"
           /\ Processing(bands, RetryOwed(duty))
    /\ UNCHANGED maxDuty

\* The request ends otherwise: an answer, or a chip error.
ProcessEnd ==
    /\ state \in {"WAIT_TX", "TX"}
    /\ state' = "IDLE" /\ op' = "NONE"
    /\ Processing(Current, Settled)
    /\ UNCHANGED <<trials, channel, air, setting>>

ProcessRetry ==
    /\ state = "WAIT_RETRY"
    /\ Current["RETRY"] = 0 /\ Current["GLOBAL"] = 0
    /\ state' = "WAIT_TX"
    /\ Processing(Current, Settled)
    /\ UNCHANGED <<op, trials, channel, air, setting>>

ProcessNothing ==
    /\ state = "WAIT_RETRY" => Current["RETRY"] > 0 \/ Current["GLOBAL"] > 0
    /\ Processing(Current, Settled)
    /\ UNCHANGED <<request, setting>>

Process == \/ ProcessWaitTx \/ MissingConfirmed \/ MissingUnconfirmed
           \/ MissingLast \/ MissingJoin \/ ProcessEnd \/ ProcessRetry
           \/ ProcessNothing

-----------------------------------------------------------------------------
\* Calls of the application.  They see the bands as LDL_MAC_process() left
\* them.
Start(o, channels) ==
    /\ state = "IDLE"
    /\ band["GLOBAL"] = 0
    /\ channel' \in Selection(band, channels, 0)
    /\ air' \in AirTimes
    /\ usable' = channels
    /\ trials' = 0
    /\ op' = o
    /\ state' = "WAIT_TX"
    /\ UNCHANGED <<maxDuty, phase, wake>>

Otaa ==
    /\ state = "IDLE"
    /\ \E channels \in Usable :
          \/ Start("JOINING", channels)
          \/ /\ band["GLOBAL"] > 0 \/ Selection(band, channels, 0) = {}
             /\ trials' = 0
             /\ UNCHANGED <<state, op, channel, air, setting, phase, wake>>
    /\ band' = [band EXCEPT !["RETRY"] = 0]
    /\ due' = [due EXCEPT !["RETRY"] = 0]

\* A confirmed request whose frame commands fill becomes an unconfirmed one.
Data ==
    /\ \E channels \in Usable, o \in {"CONFIRMED", "UNCONFIRMED"} : Start(o, channels)
    /\ UNCHANGED <<band, due>>

Cancel ==
    /\ state # "IDLE" /\ state' = "IDLE"
    /\ UNCHANGED <<op, trials, channel, air, setting, band, phase, wake, due>>

\* Commands, the ADR and joins change the channels; here at any time.
SetChannels ==
    /\ usable' \in Usable
    /\ UNCHANGED <<request, maxDuty, band, phase, wake, due>>

SetMaxDCycle ==
    /\ maxDuty' \in MaxDutyCycles
    /\ UNCHANGED <<request, usable, band, phase, wake, due>>

\* The main loop follows the BAND timer, at least.
Tick ==
    /\ wake > -MaxLag
    /\ phase' = phase + 1
    /\ wake' = wake - 1
    /\ due' = [b \in Band |-> Larger(due[b] - 1, IF band[b] = 0 THEN 0 ELSE -Late)]
    /\ UNCHANGED <<request, setting, band>>

Next == \/ Process \/ Otaa \/ Data \/ Cancel \/ SetChannels \/ SetMaxDCycle \/ Tick

Spec == Init /\ [][Next]_vars

\* Time passes and the main loop runs when the BAND timer is due.
FairSpec == /\ Spec
            /\ WF_vars(Tick)
            /\ WF_vars(wake <= 0 /\ Process)

-----------------------------------------------------------------------------
TypeOK ==
    /\ state \in {"IDLE", "WAIT_TX", "TX", "WAIT_RETRY"}
    /\ op \in {"NONE", "JOINING", "CONFIRMED", "UNCONFIRMED"}
    /\ trials \in Nat
    /\ channel \in Channel \cup {NoChannel} /\ air \in AirTimes \cup {0}
    /\ state # "IDLE" => channel \in Channel /\ air \in AirTimes
    /\ usable \in SUBSET Channel /\ maxDuty \in 0..15
    /\ band \in [Band -> 0..MaxMs]
    /\ phase \in Nat /\ wake \in Int
    /\ due \in [Band -> Int]

\* What is left of an off-time is what the band shows and the part of a second
\* that had passed on the grid when it was registered.
OffTimeHeld ==
    \A b \in Band : due[b] > 0 => due[b] < TicksPerMs * band[b] + Tps - phase

\* What a closed band shows is over with its off-time or within the second,
\* and the BAND timer is set for it.
WakeHeld ==
    /\ wake >= -MaxLag
    /\ \A b \in Band :
          IF band[b] > 0
            THEN /\ TicksPerMs * band[b] <= phase + due[b]
                 /\ phase + wake < Tps + TicksPerMs * (band[b] + 1)
            ELSE due[b] >= 0

IInv == TypeOK /\ OffTimeHeld /\ WakeHeld

\* A band that is open was closed for the off-times registered for it, in all,
\* less at most a part of one second: the error of the grid does not add up.
NeverASecondEarly == \A b \in Band : band[b] = 0 => due[b] < Tps

\* A closed band opens no later than a second and a ms after its off-time is
\* over, and as late as the main loop is: the BAND timer finds the mark of the
\* grid that opens it.
OpensInTime == \A b \in Band : due[b] > -Late

\* A join or a confirmed request is sent when the band of its channel is open;
\* only the repetitions of an unconfirmed frame defer the off-time.
SentInOpenBand ==
    [][state = "WAIT_TX" /\ state' = "TX" /\ op # "UNCONFIRMED"
          => Current[BandOf[channel]] = 0]_vars

\* A retry waits for its off-times only: it is sent, or the request is cancelled.
RetryGoesOn == state = "WAIT_RETRY" ~> state # "WAIT_RETRY"
=============================================================================
