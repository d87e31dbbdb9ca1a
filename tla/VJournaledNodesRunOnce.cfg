SPECIFICATION Spec
CONSTANTS
    Nodes <- ReaderNodes
    Deps <- ReaderDeps
    Gates = {"g"}
    MaxInterruptions = 1
    MaxDrives = 3
PROPERTIES
    EveryJournaledNodeRunsOnce
CHECK_DEADLOCK FALSE
