SPECIFICATION FairSpec
CONSTANTS
    Kinds = {"parallel"}
    K = 2
    L = 4
    Bodies <- MCBodies
    MaxConcurrency = 2
    MaxInterruptions = 0
    MaxDrives = 4
INVARIANT
    SuspensionIsResumable
CHECK_DEADLOCK FALSE
