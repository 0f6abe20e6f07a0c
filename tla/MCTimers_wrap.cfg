SPECIFICATION Spec
CONSTANTS
    UMax = 15
    IMax = 7
    Timer = {WAITA, WAITB}
    Timeouts <- TimeoutSet
    MaxLate = 6
    Tps = 3
    MaxPoll = 5
    MaxWraps = 2

INVARIANTS FiresWhenDue NeverOversleeps ClockKeepsUp
