SPECIFICATION Spec
CONSTANTS
    Subs <- MCSubs
    Topics <- MCTopics
    SeedLists <- MCSeedLists
    MaxMessages = 1
    MaxDepth = 2
    MaxExecutions = 3
    MaxOutbox = 1
    MaxFaults = 1
    MaxRuns = 2
INVARIANT HardMessageCap
CHECK_DEADLOCK FALSE
