CONSTANTS
    Geometries <- MCGeometries
    Sizes = {1, 2, 3, 4, 5, 7}
    Limit = 40
    Max = 4
    Step = 2
    RecorderInputs = {"fail", "full", "spurious"}
    Starts = 3
    MaxData = 2
    PcmInputs = {"nodevice", "startfail"}
SPECIFICATION FairSpec
INVARIANTS
    RecorderSafe PcmSafe SamplesSafe
PROPERTIES
    ImplementsQueue DevicesLive
