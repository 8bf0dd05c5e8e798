CONSTANTS
    nil = nil
    small = small
    medium = medium
    large = large
    MaxLength = 4
    Blobs <- MCBlobs
    Size <- MCSize
    HashLen = 1
    Lists <- MCLists
    Budget = 20
    Evictable = {medium}
    Limit = 24
    Framing = 1
    MaxFaults = 1
    MayOmit = TRUE
SPECIFICATION Spec
INVARIANTS
    TypeOK
    NothingMoved
    WellCut
    StoredOnSuccess
    ReadOnSuccess
    
CHECK_DEADLOCK FALSE
