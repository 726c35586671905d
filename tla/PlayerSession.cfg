SPECIFICATION FairSpec
CONSTANTS
    p1 = p1
    north = north
    east = east
    None = None
    Players <- OnePlayer
    Poses <- TwoPoses
    MaxStores = 6
    MaxTasks = 2
    Workers = 2
INVARIANTS
    TypeOK
    StoresOwned
    OneActivity
PROPERTIES
    OnlyWantedPastesStart
    PreparationEnds
CHECK_DEADLOCK FALSE
