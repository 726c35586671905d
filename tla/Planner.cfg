SPECIFICATION LoadSpec
CONSTANTS
    ChunkWidth = 2
    BatchRecords = 2
    Sizes <- SomeSizes
    Lows <- SomeLows
    Anchors <- SomeAnchors
    Palettes <- SomePalettes
    Strays <- SomeStrays
    BlockOf <- SomeBlocks
    WithEntity = {1}
    EntityAt <- SomeEntity
    ActorAt <- SomeActor
    NbtValues <- SomeValues
    MaxDepth = 4
    MaxContainer = 4
    ReadOnlyKeys = {"id"}
    Shelves = {"shelf"}
    RecordSize = 2
    Threshold = 6
    WindowSize = 4
    Unwritten = Unwritten
    PrefixSize = 2
    HeaderSize = 2
    MaxHeader = 3
    MaxEntityUnits = 3
    ChunkSize = 3
    VarintBase = 2
    ShortHalf = 2
    JavaName <- SomeNames
    PieceSizes = {1, 4, 11}
INVARIANTS
    LoadTypeOK
    ScanVisitsSelectionOnce
    RotationTurnsBox
    StatesTurnWithBlocks
    PlanIsComplete
    StreamedDecodeIsDecode
    SavedIsLoaded
    EntitiesSurvive
    SpongeHoldsSchematic
CHECK_DEADLOCK FALSE
