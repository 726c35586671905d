SPECIFICATION Spec
CONSTANTS
    Requests = {1, 2, 3}
    Calls <- AllCalls
    Contents = {"bridge", "tower", "lamp"}
    PieceCount <- Pieces
    RetryAttempts = 2
    MaxId = 3
    NoRow = NoRow
    NoPayload = NoPayload
    NoCall = NoCall
INVARIANTS
    TypeOK
    TablesAgree
PROPERTY
    ImplementsLibrary
CHECK_DEADLOCK FALSE
