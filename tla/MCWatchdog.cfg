CONSTANTS
    Latencies = {0, 3, 25}
    SleepSeconds = 10
    MaxRetries = 5
    MaxDown = 60
    Horizon = 150
SPECIFICATION Spec
INVARIANTS
    TypeOK
    KilledOnlyWhenDown
    DiesInTime
CHECK_DEADLOCK FALSE
