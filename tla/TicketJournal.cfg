SPECIFICATION Spec
CONSTANTS
    p1 = p1
    p2 = p2
    p3 = p3
    c1 = c1
    c2 = c2
    Jobs <- Players2
    Chunks <- TwoChunks
    NoJob = NoJob
    NoChunk = NoChunk
    MaxActive = 2
    RequestsPerTick = 1
    Fallbacks <- AlwaysOn
    MaxSession = 3
    ReleaseMayFail = FALSE
    StopInCleanupWindow = TRUE
INVARIANT
    JournalIsComplete
