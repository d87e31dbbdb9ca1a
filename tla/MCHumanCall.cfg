SPECIFICATION FairSpec
CONSTANTS
    Calls <- MCCalls
    Resolvers <- MCResolvers
    Ids <- MCIds
    IdOf <- MCIdOf
    MaxFaults = 1
INVARIANTS
    WaitersCanBeAnswered
    DecisionsAreOnRecord
PROPERTIES
    CancelEndsEveryCall
CHECK_DEADLOCK FALSE
