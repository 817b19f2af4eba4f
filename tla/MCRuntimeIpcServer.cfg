SPECIFICATION FairSpec
CONSTANTS
    MaxStarts = 2
    MaxInFlight = 1
INVARIANTS PublishedHandleIsOpen StopIsQuiescent OnlyAuthorized ReadyIsOwn
PROPERTY KeepsServing
CHECK_DEADLOCK FALSE
