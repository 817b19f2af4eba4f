SPECIFICATION PersistenceSpec
CONSTANTS
    Versions = {v1, v2}
    Volumes = {75, 80}
    Missing = Missing
    Faults = {"boot_read", "write", "torn", "death"}
    Legacy = TRUE
    Activities = {a1, a2}
    Achievements = {x, y}
    None = None
    MaxSessions = 2
    MaxPlaytime = 1
    Consoles = {c1, c2}
    NoIdentity = NoIdentity
    Damaged = Damaged
    MaxIds = 3
VIEW WithoutWishes
INVARIANTS MirrorIsNotAhead ConfirmedIsKept RollbackIsPossible OutcomeIsReliable
PROPERTY SetupSticks
CHECK_DEADLOCK FALSE
