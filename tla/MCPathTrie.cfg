CONSTANTS
    Names <- MCNames
    Odd <- MCOdd
    Dot = "."
    Lists <- MCLists
    MaxSteps = 24
    Digests <- MCDigests
    Walks <- MCWalks
SPECIFICATION LocalSpec
INVARIANTS
    AcceptedIffDisjoint
    HoldsWhatWasGiven
    FiltersSelect
    SerializedIsHermetic
    ToolsAgree
CHECK_DEADLOCK FALSE
