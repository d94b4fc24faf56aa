\* Two user threads and the loop's own callbacks call; user code may throw;
\* access after dispose is served or refused.
CONSTANTS
    Blocks = {b1, b2, b3}
    StopQuery = StopQuery
    Callers = {t1, t2, w}
    Worker = w
    HWM = 2
    MaxStops = 2
    DisposedAccess = {"serve", "refuse"}
    MayThrow = TRUE
SPECIFICATION Spec
SYMMETRY Symmetry
INVARIANTS TypeOK PingBalance NoEmptyTake RunsInOrder
PROPERTY ImplementsMailbox
CHECK_DEADLOCK FALSE
