SPECIFICATION Spec
CONSTANTS
    Workers = {"w1", "w2"}
    Jobs <- TwoBackups
    Contents = {"new", "old", "huge"}
    PieceCount <- Versions
    Configured = {TRUE}
    MaxPieces = 2
    MaxSaves = 0
    MaxCrashes = 0
    None = None
INVARIANT
    BackupHoldsRemoved
CHECK_DEADLOCK FALSE
