\* The JVM loop, nobody stops it, nothing throws, a place in the pipe for every
\* ping: a user thread and the callbacks schedule, send and remove.
CONSTANTS
    Blocks = {b1, b2}
    StopQuery = StopQuery
    Callers = {t1, w}
    Worker = w
    HWM = 2
    MaxStops = 0
    DisposedAccess = {"serve"}
    MayThrow = FALSE
    Platform = "jvm"
    Addresses = {a1, a2}
    Sockets = {s1, s2}
    SndHWM = 1
    RcvHWM = 1
    Timers = {x1}
    Delays = {1}
    MaxTime = 1
SPECIFICATION CFairSpec
INVARIANT SurvivesUnlessRemoved
PROPERTIES ScheduledBlocksRun MessagesHeard ClientRunsBlocks
CHECK_DEADLOCK FALSE
