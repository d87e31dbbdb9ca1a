SPECIFICATION FairSpec
CONSTANTS
    N = 5
    Gates <- MCGates
    MaxInterruptions = 2
    MaxDrives = 5
INVARIANTS
    TypeOK
    GatesHold
    GateAppliesStoredDecision
    ReplayWindow
    SuspensionIsResumable
PROPERTIES
    JournaledStepsRunOnce
    PromiseKept
    RunFinishes
CHECK_DEADLOCK FALSE
