\* A stop query, room for every ping, and nothing throws.
CONSTANTS
    Blocks = {b1, b2}
    StopQuery = StopQuery
    Callers = {t1, t2}
    Worker = w
    HWM = 3
    MaxStops = 1
    DisposedAccess = {"serve"}
    MayThrow = FALSE
SPECIFICATION FairSpec
PROPERTY StopTakesEffect
CHECK_DEADLOCK FALSE
