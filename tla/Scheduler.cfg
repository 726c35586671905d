SPECIFICATION FairSpec
CONSTANTS
    a = a
    b = b
    c = c
    None = None
    Players <- Three
    Budget = 4
    ChangeBudget = 3
    Floor = 1
    StartLimit = 2
    Step = 1
    SteadyTicks = 2
    RequestsPerTick = 1
    SaveRequests <- AnyRequests
    MaxRange = 2
INVARIANTS
    TypeOK
    FairShare
PROPERTY
    EveryJobVisited
