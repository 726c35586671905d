SPECIFICATION Spec
CONSTANTS
    Workers = {"w1", "w2"}
    Jobs <- ExporterAndReader
    Contents = {"old", "new", "huge"}
    PieceCount <- Versions
    Configured = {TRUE, FALSE}
    MaxPieces = 2
    MaxSaves = 1
    MaxCrashes = 1
    None = None
INVARIANTS
    TypeOK
    FilesAgree
    BackupVerified
PROPERTY
    ReadsAreAtomic
CHECK_DEADLOCK FALSE
