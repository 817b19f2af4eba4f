SPECIFICATION Spec
CONSTANTS
    Packages = {p1, p2}
    NoPackage = none
    MaxSessions = 2
INVARIANTS LayersAgree RecordsAgree WritesBoundAfterLaunch
PROPERTIES VerdictSticks KeepsPromise
