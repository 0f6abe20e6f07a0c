SPECIFICATION Spec
CONSTANTS
    Plans <- BothPlans
    MaskBits = 3
    DynamicChans = 2
    DefaultChans <- OneChannel
    ListedChans <- Listed
    FixedRates <- RatesInPlan
    Bank <- BankOf
    Narrow <- TwoChannels
    Rates <- RateSet
    Powers <- PowerSet
    DefaultRate = 1
    JoinRates <- JoinRateSet
    MaxNbTrans = 2
    AckLimit = 1
    AckDelay = 1
    CounterMax = 6
    MaxPayload <- PayloadOf
    Overhead = 1
    FOptsMax = 5
    Lengths <- LengthSet
    Requests <- RequestSet
    NewChannels <- NewChannelSet
    AckParams <- AckParamSet
    Commands <- CommandSet
    MaxCommands = 2
    MayTruncate = FALSE

INVARIANTS FixedPlanKeepsChannel
PROPERTIES AnswersSent WholeBlockOrNothing MtuHonoured BacksOff
