SPECIFICATION Spec
CONSTANTS
    FrameLengths <- EdgeLengths
    MaxPayload = 18
    LastSequence = 63
    MaxChunks = 4
    MaxDeliveries = 4
INVARIANTS
    TypeOK
    WholeUntilRefused
    ChunksAreContiguous
CHECK_DEADLOCK FALSE
