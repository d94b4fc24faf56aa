\* The native loop: two addresses, two sockets, two scheduled blocks, a user
\* thread and the callbacks calling back; user code may throw.
CONSTANTS
    Blocks = {b1, b2}
    StopQuery = StopQuery
    Callers = {t1, w}
    Worker = w
    HWM = 2
    MaxStops = 1
    DisposedAccess = {"serve", "refuse"}
    MayThrow = TRUE
    Platform = "native"
    Addresses = {a1, a2}
    Sockets = {s1, s2}
    SndHWM = 1
    RcvHWM = 1
    Timers = {x1, x2}
    Delays = {0, 1}
    MaxTime = 1
SPECIFICATION CSpec
SYMMETRY CSymmetry
INVARIANTS CTypeOK SocketsAccounted SleepsWithNothingDue
PROPERTIES TimersInOrder ImplementsQueue
CHECK_DEADLOCK FALSE
