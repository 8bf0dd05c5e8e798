CONSTANTS
    Actions = {a1, a2}
    Refusable = {a1}
    MaxFaults = 2
SPECIFICATION FairSpec
INVARIANTS
    TypeOK
    Aligned
    AcksAreEarned
    NothingLost
PROPERTIES
    EveryActionSettles
    ImplementsActionLog
CHECK_DEADLOCK FALSE
