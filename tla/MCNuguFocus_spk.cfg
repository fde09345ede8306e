\* The four capabilities' foci; only the media player pauses or fails.
CONSTANTS
    Focus = {"asr", "expect", "cap_tts", "cap_audio"}
    Resource = {"MIC", "SPK"}
    Type <- MCType
    Rejects <- MCRejects
    CanFail = {"cap_audio"}
    CanPause = {"cap_audio"}
SPECIFICATION Spec
INVARIANTS TypeOK NoDuplicates ExclusiveOwner ReservedByPriority
