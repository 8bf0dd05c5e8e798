CONSTANTS
    x = x
    y = y
    Names <- MCNames
    Directories <- MCDirectories
    Evictable <- MCEvictable
SPECIFICATION Spec
INVARIANTS
    TypeOK
    RoundTrip
    FailsOnlyIfForgotten
CHECK_DEADLOCK FALSE
