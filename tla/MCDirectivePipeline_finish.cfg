CONSTANTS
    Dirs = {"speak1", "speak2"}
    Kind <- MCKind
    Chunks = 1
SPECIFICATION Spec
INVARIANT FinishedWasReceived
