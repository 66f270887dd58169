SPECIFICATION FairSpec
CONSTANTS
    c1 = c1
    c2 = c2
    l1 = l1
    Calls = {c1, c2}
    Loops = {l1}
    LoopOf <- OneLoop
    NoCall = NoCall
    MaxCancels = 2
INVARIANTS
    TypeOK
    LinkOnlyUnderLock
    OneCancelIsSafe
    NoOrphanWorker
    WriteAtMostOnce
    CancelIsNotLost
    SerializedPerLoop
PROPERTIES
    RetryOnlyAfterClose
    EveryCallEnds
