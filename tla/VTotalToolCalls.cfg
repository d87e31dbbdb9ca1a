SPECIFICATION Spec
CONSTANTS
    Batches <- MCBatches
    L = 3
    MaxIterations = 2
    MaxToolCalls = 1
    Grant = 1
    MaxCeiling = 6
    MaxRevisions = 1
    MaxTurns = 2
    MaxInterruptions = 2
INVARIANT TotalToolCallsCapped
CHECK_DEADLOCK FALSE
