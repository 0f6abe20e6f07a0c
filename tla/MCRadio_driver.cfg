SPECIFICATION Spec
CONSTANTS
    Builds <- BuildSet
    TxSettings <- TxSet
    RxSettings <- RxSet
    RxLengths <- Lengths
    Signals <- Measured
    MaxPacket = 64

INVARIANTS LoraModeOnly AsAsked OutcomeIsOwn
