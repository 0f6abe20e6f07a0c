SPECIFICATION Spec
CONSTANTS
    Sec = 3
    TxTime = 2
    RX1Delay = 3
    JA1Delay = 4
    AdvanceA = 2
    AdvanceB = 1
    Margin = 1
    Window = 1
    FrameTimes <- ShortFrames
    LockoutTime = 2
    ResetHold = 1
    InitLockout = 1
    RecoveryLockout = 3
    Delays <- DelaySet
    NbTransSettings <- NbTransTwo
    TrialsMod = 16
    MaxLatency = 7
    ChipMayFail = TRUE
    MayCancel = TRUE

INVARIANTS IInv
PROPERTIES Rx1SlotOnTime
