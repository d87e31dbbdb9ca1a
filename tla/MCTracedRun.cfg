SPECIFICATION FairSpec
CONSTANTS
    MaxEvents = 4
    MaxOutages = 2
    MaxBufferSize = 3
    MaxFlushAttempts = 3
    Poison <- MCPoison
INVARIANTS
    TypeOK
    ShortOutageLosesNothing
    NoEventStoredTwice
    StoredInEmissionOrder
    FinalStatusMeansSettled
PROPERTIES
    PoisonDoesNotBlock
CHECK_DEADLOCK FALSE
