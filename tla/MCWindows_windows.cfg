SPECIFICATION Spec
CONSTANTS
    UsedRegions <- AllRegions
    Systems <- Clocks
    Lates <- Delayed
    Offsets <- AllOffsets
    RX2Rates <- RX2RateSet
    Delays <- DelaySet
    CFLists <- Lists
    SetRates <- RateSet
    Rands <- RandSet
    MaxTrials = 8

INVARIANTS SlotsAsAgreed EmptyWindowEndsFirst JoinFindsChannel AirtimeServes
