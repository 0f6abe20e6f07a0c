SPECIFICATION FairSpec
CONSTANTS
    Sec = 4
    TxTime = 2
    RX1Delay = 4
    JA1Delay = 5
    AdvanceA = 2
    AdvanceB = 1
    Margin = 1
    Window = 1
    FrameTimes <- ShortFrames
    LockoutTime = 2
    ResetHold = 1
    InitLockout = 1
    RecoveryLockout = 3
    Delays <- DelaySet
    NbTransSettings <- NbTransTwo
    TrialsMod = 16
    MaxLatency = 1
    ChipMayFail = TRUE
    MayCancel = TRUE

PROPERTIES QuietWhenIdle ImplementsService SlotsOnTime DataRequestReported ChipErrorIsReal DataRequestEnds BecomesReady JoinRetried
