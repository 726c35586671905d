SPECIFICATION Spec
CONSTANTS
    Positions = {1, 2}
    Blocks = {"air", "chest_a", "chest_b"}
    Shapes = {"air_states", "chest_states"}
    ShapeOf <- ShapeOfBlock
    Types = {"Air", "Chest", "Gone"}
    TypeOf <- TypeOfBlock
    Plans <- Overlapping
    MaxOperations = 2
    MaxTotalBlocks = 2
    Configs <- FourConfigs
    LateErrors = FALSE
    NoJob = NoJob
INVARIANTS
    TypeOK
    PasteIsUndoable
    CompletedPlanIsInWorld
    HistoryIsTimeline
    HistoryAccounted
