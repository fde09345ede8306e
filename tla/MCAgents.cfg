CONSTANTS
    PsIds = {"p1", "p2"}
    MaxBus = 3
    Inputs = {"tts", "asr", "eos", "error", "loadfail", "startfail"}
    MaxRequests = 4
    MaxForeign = 2
    Early = FALSE
SPECIFICATION FairSpec
INVARIANTS
    MediaSafe TextSafe AgentsSafe
PROPERTIES
    AgentsLive
