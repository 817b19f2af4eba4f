SPECIFICATION FairSpec
CONSTANTS
    MaxStarts = 1
    MaxInFlight = 1
PROPERTIES
    StopReturns
