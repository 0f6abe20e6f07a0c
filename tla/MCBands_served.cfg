SPECIFICATION FairSpec
CONSTANTS
    c1 = c1
    c2 = c2
    b1 = b1
    b2 = b2
    Channel = {c1, c2}
    NoChannel = NoChannel
    RegionBand = {b1, b2}
    BandOf <- BandOfChannel
    Factor <- SameFactor
    Usable <- AllOrNone
    AirTimes = {1}
    RetryDuties = {2, 3}
    MaxDutyCycles = {0, 1}
    NbTrans = 2
    OffLimit = 3
    StartupDelay = 1
    Tps = 3
    Ms = 3
    MaxMs = 50
    Minute = 2
    MaxLag = 1

INVARIANTS NeverASecondEarly OpensInTime
PROPERTIES SentInOpenBand RetryGoesOn
