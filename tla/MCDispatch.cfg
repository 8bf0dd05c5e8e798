CONSTANTS
    tree = tree
    dir = dir
    root = root
    other = other
    empty = empty
    Blobs <- MCBlobs
    EmptyBlob = empty
    Size <- MCSize
    ChunkSize = 2
    Spec <- FourSpecs
    Jobs = 2
    Outcomes <- MCOutcomes
    Evictable = {tree}
    MaxFaults = 2
    PrintFails = TRUE
SPECIFICATION FairBehaviour
INVARIANTS
    TypeOK
    NothingMissing
    ReportsTell
    FailsOnlyByFault
    ExitTells
PROPERTIES
    Ends
CHECK_DEADLOCK FALSE
