SPECIFICATION FairSpec
CONSTANTS
    Subs <- MCSubs
    Topics <- MCTopics
    SeedLists <- MCSeedLists
    MaxMessages = 4
    MaxDepth = 2
    MaxExecutions = 3
    MaxOutbox = 1
    MaxFaults = 1
    MaxRuns = 2
INVARIANTS
    DeliveredOnceToEachSubscriber
    NothingLostOrInvented
    ProcessedInCausalOrder
    AgentsAsConfigured
    StopsArePrompt
PROPERTIES
    RunsEnd
CHECK_DEADLOCK FALSE
