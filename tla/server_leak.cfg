\* The instance of server.cfg, to show what becomes of the popped frames.
CONSTANTS
    Blocks = {b1}
    StopQuery = StopQuery
    Callers = {t1, w}
    Worker = w
    HWM = 1
    MaxStops = 1
    DisposedAccess = {"serve", "refuse"}
    MayThrow = TRUE
    Clients = {c1, c2}
    MaxRequests = 1
    PeerHWM = 1
    Timers = {x1}
SPECIFICATION SSpec
PROPERTY PoppedDestroyed
CHECK_DEADLOCK FALSE
