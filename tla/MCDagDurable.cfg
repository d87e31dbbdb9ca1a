SPECIFICATION FairSpec
CONSTANTS
    Nodes <- MCNodes
    Deps <- MCDeps
    Gates = {"d", "g"}
    MaxInterruptions = 2
    MaxDrives = 6
INVARIANTS
    TypeOK
    GatesHold
    ResultAccountsForEveryNode
    ResultsAgree
    SuspensionIsResumable
PROPERTIES
    JournaledNodesRunOnce
    RunFinishes
CHECK_DEADLOCK FALSE
