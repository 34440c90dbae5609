SPECIFICATION Spec
CONSTANTS
    Ids = {1, 2}
    Manuals = {m1}
    Hour = 2
    MaxRunAge = 2
    AgeCap = 3
    MaxChainDepth = 2
    CountCap = 1
    Room = 3
    Mixes <- AllMixes
PROPERTIES
    ChainsEnd
    OrphansClosed
    EnabledRuns
    RetentionSafe
