SPECIFICATION InputFairSpec
CONSTANTS
    Streams <- Sessions
    MaxPiece = 4
    SoftLimit = 3
INVARIANTS InputTypeOK SameMeaning
PROPERTIES AllIsRead
CHECK_DEADLOCK FALSE
