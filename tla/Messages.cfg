SPECIFICATION Spec
CONSTANTS
    Script <- SetPosition
    Key = k1
    ShadeKeys = {k1, k2}
    Offers <- VersionSets
    LastCounter = 32767
    LastId = 2
    MaxDoubles = 2
INVARIANTS
    TypeOK
    OwnAnswer
    StrangerNotAsked
    VersionAgreed
CHECK_DEADLOCK FALSE
