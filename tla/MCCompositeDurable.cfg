SPECIFICATION FairSpec
CONSTANTS
    Kinds <- MCKinds
    K = 2
    L = 4
    Bodies <- MCBodies
    MaxConcurrency = 2
    MaxInterruptions = 1
    MaxDrives = 6
INVARIANTS
    GatesHold
    ResultIsComplete
    InputsChain
PROPERTIES
    RecordedWorkRunsOnce
    RunFinishes
CHECK_DEADLOCK FALSE
