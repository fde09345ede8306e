CONSTANTS
    Reqs = {"r1", "r2", "r3"}
    Inputs = {"addfail", "curlfail", "slow"}
    MaxDirectives = 3
    Kinds = {"quick", "speak", "broken", "unknown"}
    MaxAppCallbacks = 1
    MaxEvents = 2
    MaxFrames = 2
    UploadInputs = {"stop", "restart", "network", "fail", "startfail", "destroy"}
SPECIFICATION FairSpec
INVARIANTS
    TransportSafe RequestsSafe Numbered DirectivesSafe
PROPERTIES
    ServesUsers NetworkLive
