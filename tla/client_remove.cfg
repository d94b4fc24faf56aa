\* The native loop with two addresses, each of which a callback may remove.
CONSTANTS
    Blocks = {b1}
    StopQuery = StopQuery
    Callers = {t1, w}
    Worker = w
    HWM = 1
    MaxStops = 0
    DisposedAccess = {"serve"}
    MayThrow = FALSE
    Platform = "native"
    Addresses = {a1, a2}
    Sockets = {s1, s2}
    SndHWM = 1
    RcvHWM = 1
    Timers = {x1}
    Delays = {0, 1}
    MaxTime = 1
SPECIFICATION CSpec
INVARIANT LoopSurvives
CHECK_DEADLOCK FALSE
