SPECIFICATION InputSpec
CONSTANTS
    Controllers = {0, 1}
    Samples <- MCSamples
    KeySets <- MCKeySets
    Delay = 3
    Cadence = 2
    MaxFrame = 2
INVARIANT RepeatsArePaced
PROPERTY PressIsFresh
