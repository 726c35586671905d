SPECIFICATION FairSpec
CONSTANTS
    StabilizeTicks = 1
    LoadTimeout = 2
    VerifyEvery = 2
    Selection <- ThreeRegions
    Air = "air"
    MaxRetries = 2
    EntityLimits = {1, 2}
    ReloadUnnoticed = FALSE
    RecordSize = 1
    Threshold = 3
    WindowSize = 2
    Unwritten = Unwritten
INVARIANTS
    TypeOK
    ScanExact
    VerifiedRegionsKept
PROPERTY
    SaveEnds
