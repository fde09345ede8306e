CONSTANTS
    Dirs = {"speak1", "speak2", "stop", "other"}
    Kind <- MCKind
    Chunks = 2
SPECIFICATION Spec
INVARIANTS TypeOK NoLostWakeup SpeakDirTracked SpeechesInOrder PcmIsCurrent
CHECK_DEADLOCK FALSE
