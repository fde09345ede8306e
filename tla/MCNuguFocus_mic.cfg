\* The two users of the microphone.
CONSTANTS
    Focus = {"kwd", "asr"}
    Resource = {"MIC"}
    Type <- MCType
    Rejects <- MCRejects
    CanFail = {}
    CanPause = {}
SPECIFICATION Spec
INVARIANT TopIsFocused
