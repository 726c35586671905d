SPECIFICATION Spec
CONSTANTS
    Requests = {1, 2, 3}
    Calls <- OverwriteCalls
    Contents = {"bridge", "tower", "lamp"}
    PieceCount <- Pieces
    RetryAttempts = 2
    MaxId = 3
    NoRow = NoRow
    NoPayload = NoPayload
    NoCall = NoCall
INVARIANT
    RetryRecognized
CHECK_DEADLOCK FALSE
