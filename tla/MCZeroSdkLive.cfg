SPECIFICATION Spec
CONSTANTS
    Callers = {c1}
    MaxCalls = 1
    MaxSessions = 2
    MaxConnections = 2
    MaxAttempts = 1
    SerialHandle = TRUE
INVARIANT NothingIsLeft
PROPERTY CallsReturn
