CONSTANTS
    Calls = {1, 2}
    Arguments <- MCArguments
    Spares = {2}
SPECIFICATION Spec
INVARIANTS
    OwnArguments
CHECK_DEADLOCK FALSE
