\* The native loop, whose poll has no timeout; nobody stops it, nothing throws.
CONSTANTS
    Blocks = {b1}
    StopQuery = StopQuery
    Callers = {t1, w}
    Worker = w
    HWM = 1
    MaxStops = 0
    DisposedAccess = {"serve"}
    MayThrow = FALSE
    Platform = "native"
    Addresses = {a1}
    Sockets = {s1}
    SndHWM = 1
    RcvHWM = 1
    Timers = {x1}
    Delays = {0, 1}
    MaxTime = 1
SPECIFICATION CFairSpec
PROPERTY ScheduledBlocksRun
CHECK_DEADLOCK FALSE
