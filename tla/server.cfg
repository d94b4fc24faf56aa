\* The native server loop: two clients with one request at a time each and
\* any number over time, one reply in flight per client, a user thread and the
\* callbacks calling back; a place in the pipe for every ping, user code may
\* throw.
CONSTANTS
    Blocks = {b1}
    StopQuery = StopQuery
    Callers = {t1, w}
    Worker = w
    HWM = 1
    MaxStops = 1
    DisposedAccess = {"serve", "refuse"}
    MayThrow = TRUE
    Clients = {c1, c2}
    MaxRequests = 1
    PeerHWM = 1
    Timers = {x1}
SPECIFICATION SFairSpec
INVARIANTS STypeOK RepliesReachAsker MessagesFreed
PROPERTIES RequestsHeard ServerRunsBlocks
CHECK_DEADLOCK FALSE
