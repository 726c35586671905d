SPECIFICATION FairSpec
CONSTANTS
    p1 = p1
    p2 = p2
    p3 = p3
    c1 = c1
    c2 = c2
    Jobs <- Players3
    Chunks <- OneChunk
    NoJob = NoJob
    NoChunk = NoChunk
    MaxActive = 2
    RequestsPerTick = 1
    Fallbacks <- OnOrOff
    MaxSession = 3
    ReleaseMayFail = TRUE
    StopInCleanupWindow = FALSE
INVARIANTS
    TypeOK
    HoldsCountOwners
    SlotsMatchJobs
    HeldAreaExists
    HeldAreaJournaled
    AreasAccountedFor
PROPERTY
    StaleAreasRemoved
