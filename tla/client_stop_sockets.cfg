\* The JVM loop, one managed socket, one stop query.
CONSTANTS
    Blocks = {b1, b2}
    StopQuery = StopQuery
    Callers = {t1, w}
    Worker = w
    HWM = 2
    MaxStops = 1
    DisposedAccess = {"serve"}
    MayThrow = FALSE
    Platform = "jvm"
    Addresses = {a1}
    Sockets = {s1}
    SndHWM = 1
    RcvHWM = 1
    Timers = {x1}
    Delays = {0, 1}
    MaxTime = 1
SPECIFICATION CSpec
INVARIANT StopClosesSockets
CHECK_DEADLOCK FALSE
