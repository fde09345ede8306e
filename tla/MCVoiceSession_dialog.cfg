CONSTANTS
    Focus = {"kwd", "asr", "expect", "cap_tts"}
    Resource = {"MIC", "SPK"}
    Type <- MCType
    Rejects <- MCRejects
    CanFail = {}
    CanPause = {}
    Inputs = {"listen", "stop", "wakeup", "expect", "notify", "speak",
              "nodirectives", "exception"}
SPECIFICATION FairSpec
INVARIANT SpeakerServed
PROPERTIES EventsHandled SessionEnds
