SPECIFICATION FairSpec
CONSTANTS
    Batches <- MCBatches
    L = 3
    MaxIterations = 2
    MaxToolCalls = 1
    Grant = 1
    MaxCeiling = 6
    MaxRevisions = 1
    MaxTurns = 2
    MaxInterruptions = 2
INVARIANTS
    TypeOK
    HistoryIsAnswered
    CountersMatchHistory
PROPERTIES
    RecordedCallsRunOnce
    RunFinishes
CHECK_DEADLOCK FALSE
