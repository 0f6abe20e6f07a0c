SPECIFICATION Spec
CONSTANTS
    UsedRegions <- EU
    Systems <- Crystal
    Lates <- OnTime
    Offsets <- OneOffset
    RX2Rates <- RX2RateThree
    Delays <- DelayOne
    CFLists <- None
    SetRates <- None
    Rands <- RandOne
    MaxTrials = 8

INVARIANT Rx2Heard
