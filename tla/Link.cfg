SPECIFICATION FairSpec
CONSTANTS
    Script <- SetPosition
    Chunks <- NonceInThree
    MaxSequence = 63
    MaxFaults = 6
INVARIANTS
    TypeOK
    ExecutedInOrder
    AckMeansTaken
    ReadbackSettlesWrite
    QueuesFit
PROPERTIES
    WriteSentOnce
    ImplementsExchange
    SessionEnds
CHECK_DEADLOCK FALSE
