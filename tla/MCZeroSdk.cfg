SPECIFICATION Spec
CONSTANTS
    Callers = {c1, c2}
    MaxCalls = 1
    MaxSessions = 1
    MaxConnections = 1
    MaxAttempts = 2
    SerialHandle = FALSE
SYMMETRY CallerSymmetry
INVARIANTS AckMeansServed NoWaiterIsForgotten
