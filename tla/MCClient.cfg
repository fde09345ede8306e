CONSTANTS
    Bytes = {"a", "b"}
    Nul = "nul"
    Junk = "junk"
    DefaultSize = 2
    MaxAdd = 3
    MaxSize = 5
    MaxRepeat = 4
    MaxStarts = 3
SPECIFICATION Spec
INVARIANTS
    ClientSafe HoldsContent FiresExactly
PROPERTIES
    CutIsTerminated
