------------------------------- MODULE Regions -------------------------------
(***************************************************************************)
(* The regions of src/ldl_region.c: data rates, bands, channels, receive   *)
(* windows and power, as the tables the code has.  Frequencies are in Hz,  *)
(* power in dBm/100.  -1 stands for "there is none".                       *)
(***************************************************************************)
LOCAL INSTANCE Integers
LOCAL INSTANCE Sequences

AllRegions == {"EU_863_870", "EU_433", "US_902_928", "AU_915_928"}
EU == {"EU_863_870", "EU_433"}

IsDynamic(region)   == region \in EU
NumChannels(region) == IF IsDynamic(region) THEN 16 ELSE 72

\* LDL_DEFAULT_RATE of ldl_platform.h.
DefaultRate == 1

-----------------------------------------------------------------------------
(* Data rates. *)

Rate(sf, bw, mtu) == [sf |-> sf, bw |-> bw, mtu |-> mtu]

NarrowRates == <<Rate(12, 125, 59), Rate(11, 125, 59), Rate(10, 125, 59), Rate(9, 125, 123),
                 Rate(8, 125, 250), Rate(7, 125, 250)>>
WideRates   == <<Rate(12, 500, 61), Rate(11, 500, 137), Rate(10, 500, 250), Rate(9, 500, 250),
                 Rate(8, 500, 250), Rate(7, 500, 250)>>

Rates(region) ==
    CASE region \in EU ->
            [r \in 0..6 |-> IF r = 6 THEN Rate(7, 250, 250) ELSE NarrowRates[r + 1]]
      [] region = "US_902_928" ->
            [r \in (0..4) \cup (8..13) |->
                IF r >= 8 THEN WideRates[r - 7]
                ELSE <<Rate(10, 125, 19), Rate(9, 125, 61), Rate(8, 125, 133),
                       Rate(7, 125, 250), Rate(8, 500, 250)>>[r + 1]]
      [] region = "AU_915_928" ->
            [r \in (0..6) \cup (8..13) |->
                IF r >= 8 THEN WideRates[r - 7]
                ELSE IF r = 6 THEN Rate(8, 500, 250) ELSE NarrowRates[r + 1]]

ConvertRate(region, rate) ==
    IF rate \in DOMAIN Rates(region) THEN Rates(region)[rate] ELSE Rate(7, 125, 250)

\* Rates that channel ch may be used at.
UpRateRange(region, ch) ==
    IF ch \notin 0..NumChannels(region) - 1 THEN {}
    ELSE CASE region \in EU           -> 0..5
           [] region = "US_902_928"   -> IF ch <= 63 THEN 0..3 ELSE {4}
           [] region = "AU_915_928"   -> IF ch <= 63 THEN 0..5 ELSE {6}

ValidateRate(region, ch, min, max) ==
    \E low, high \in UpRateRange(region, ch) :
        /\ UpRateRange(region, ch) \subseteq low..high
        /\ low <= min /\ max <= high

RateSettingIsValid(region, rate) ==
    \E ch \in 0..NumChannels(region) - 1 : ValidateRate(region, ch, rate, rate)

\* Defect: the rates of a dynamic plan begin one too high.
JoinRateMutant(region, trial) ==
    CASE region \in EU         -> 6 - (trial % (6 - DefaultRate))
      [] region = "US_902_928" -> IF trial % 2 = 1 THEN 4 ELSE 3 - ((trial \div 2) % (4 - DefaultRate))
      [] region = "AU_915_928" -> IF trial % 2 = 1 THEN 0 ELSE 4 - ((trial \div 2) % (5 - DefaultRate))

JoinRate(region, trial) ==
    CASE region \in EU         -> 5 - (trial % (6 - DefaultRate))
      [] region = "US_902_928" -> IF trial % 2 = 1 THEN 4 ELSE 3 - ((trial \div 2) % (4 - DefaultRate))
      [] region = "AU_915_928" -> IF trial % 2 = 1 THEN 0 ELSE 4 - ((trial \div 2) % (5 - DefaultRate))

-----------------------------------------------------------------------------
(* Bands and channels. *)

GetBand(region, freq) ==
    LET Within(low, high) == low <= freq /\ freq <= high
    IN IF region # "EU_863_870" THEN 0
       ELSE CASE Within(863000000, 868000000) -> 0
              [] Within(868000001, 868600000) -> 1
              [] Within(868700000, 869200000) -> 2
              [] Within(869400000, 869650000) -> 3
              [] Within(869700000, 869999999) -> 4
              [] OTHER -> -1

OffTimeFactor(region, band) ==
    CASE region = "EU_433" -> 100
      [] region = "EU_863_870" /\ band \in 0..4 -> <<100, 100, 1000, 10, 100>>[band + 1]
      [] OTHER -> 0

MaxDCycleOffLimit == 3600000

Channel(freq, minRate, maxRate) == [freq |-> freq, minRate |-> minRate, maxRate |-> maxRate]

\* The channels of a fixed plan.
FixedChannel(region, ch) ==
    CASE region = "US_902_928" ->
            IF ch < 64 THEN Channel(902300000 + 200000 * ch, 0, 3)
                       ELSE Channel(903000000 + 200000 * (ch - 64), 4, 4)
      [] region = "AU_915_928" ->
            IF ch < 64 THEN Channel(915200000 + 200000 * ch, 0, 5)
                       ELSE Channel(915900000 + 200000 * (ch - 64), 6, 6)

\* Channels of a dynamic plan are kept by the MAC (setChannel), which loses the
\* lowest rate.
SetChannel(freq, minRate, maxRate) == Channel((freq \div 100) * 100, 0, maxRate % 16)
NoChannel == Channel(0, 0, 0)

DefaultChannels(region) ==
    [ch \in 0..NumChannels(region) - 1 |->
        IF ~IsDynamic(region) THEN FixedChannel(region, ch)
        ELSE IF ch > 2 THEN NoChannel
        ELSE SetChannel((IF region = "EU_433" THEN 433175000 ELSE 868100000) + 200000 * ch, 0, 5)]

\* A list of frequencies in a join accept sets channels 3 to 7.  A list of masks
\* unmasks channels of a fixed plan, of which a join leaves none masked.
ProcessCFList(region, channels, freqs) ==
    IF ~IsDynamic(region) THEN channels
    ELSE [ch \in DOMAIN channels |->
            IF ch \in 3..7 THEN SetChannel(freqs[ch - 2], 0, 5) ELSE channels[ch]]

-----------------------------------------------------------------------------
(* Receive windows. *)

EURX1 == <<0, 0, 0, 0, 0, 0,
           1, 0, 0, 0, 0, 0,
           2, 1, 0, 0, 0, 0,
           3, 2, 1, 0, 0, 0,
           4, 3, 2, 1, 0, 0,
           5, 4, 3, 2, 1, 0,
           6, 5, 4, 3, 2, 1,
           7, 6, 5, 4, 3, 2>>
USRX1 == <<10,  9,  8,  8,
           11, 10,  9,  8,
           12, 11, 10,  9,
           13, 12, 11, 10,
           13, 13, 12, 11>>
AURX1 == << 8,  8,  8,  8,  8,  8,
            9,  8,  8,  8,  8,  8,
           10,  9,  8,  8,  8,  8,
           11, 10,  9,  8,  8,  8,
           12, 11, 10,  9,  8,  8,
           13, 12, 11, 10,  9,  8,
           13, 13, 12, 11, 10,  9>>

RX1Table(region)   == CASE region \in EU -> EURX1 [] region = "US_902_928" -> USRX1
                        [] region = "AU_915_928" -> AURX1
RX1Columns(region) == IF region = "US_902_928" THEN 4 ELSE 6

\* The table is read at row tx, column offset, whatever the offset is.
RX1DataRate(region, tx, offset) ==
    LET i == tx * RX1Columns(region) + offset
    IN IF i < Len(RX1Table(region)) THEN RX1Table(region)[i + 1] ELSE tx

RX1Freq(region, txFreq, ch) ==
    IF IsDynamic(region) THEN txFreq ELSE 923300000 + (ch % 8) * 600000

RX1Delay  == 1
JA1Delay  == 5
RX1Offset == 0

RX2Freq(region) == CASE region = "EU_863_870" -> 869525000
                     [] region = "EU_433"     -> 434665000
                     [] OTHER                 -> 923300000
RX2Rate(region) == IF IsDynamic(region) THEN 0 ELSE 8

-----------------------------------------------------------------------------
(* Power. *)

MaxPower(region) == CASE region = "EU_863_870" -> 7 [] region = "EU_433" -> 5 [] OTHER -> 10

ValidateTXPower(region, power) == power <= MaxPower(region)

TXPower(region, power) ==
    LET full == CASE region = "EU_863_870" -> 1600 [] region = "EU_433" -> 1215 [] OTHER -> 3000
    IN full - 200 * (IF power <= MaxPower(region) THEN power ELSE MaxPower(region))
=============================================================================
