SPECIFICATION Spec
CONSTANTS
    MaxEvents = 4
    MaxOutages = 2
    MaxBufferSize = 3
    MaxFlushAttempts = 3
    Poison <- MCPoison
INVARIANT TraceIsComplete
CHECK_DEADLOCK FALSE
