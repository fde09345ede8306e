CONSTANTS
    Focus = {"kwd", "asr", "expect", "cap_tts", "cap_audio"}
    Resource = {"MIC", "SPK"}
    Type <- MCType
    Rejects <- MCRejects
    CanFail = {"cap_audio"}
    CanPause = {"cap_audio"}
    Inputs = {"listen", "stop", "wakeup", "expect", "notify", "speak",
              "play", "nodirectives", "exception",
              "asr_fail", "kwd_fail", "spurious"}
SPECIFICATION Spec
INVARIANTS
    TypeOK LinkValid SpeakerExclusive
    OneRecognizer ExpectTracked OneEventPerThread
