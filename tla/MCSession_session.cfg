SPECIFICATION Spec
CONSTANTS
    Epoch = 2
    Versions <- BothVersions
    Rates <- TwoRates
    MaxAccepts = 2
    MaxJoins = 3
    MaxFrames = 3
    MaxDown = 2
    MaxRestarts = 2

INVARIANTS SessionHasItsKeys NetworkKnowsSession CountersDistinct SavedWhenIdle AckIsForThisFrame
PROPERTIES SessionKeysFresh
