CONSTANTS
    Dirs = {"speak1", "speak2", "bad", "unknown"}
    Kind <- MCKind
    Chunks = 1
SPECIFICATION FairSpec
PROPERTIES Drained SpeakCompletes SpeechEnds
CHECK_DEADLOCK FALSE
