\* One block more than the pipe and the loop's hand together hold; only user
\* threads call, nobody stops the loop, nothing throws.
CONSTANTS
    Blocks = {b1, b2, b3}
    StopQuery = StopQuery
    Callers = {t1, t2}
    Worker = w
    HWM = 1
    MaxStops = 0
    DisposedAccess = {"serve"}
    MayThrow = FALSE
SPECIFICATION FairSpec
PROPERTY AcceptedBlocksRun
CHECK_DEADLOCK FALSE
