\* A program with a client loop, a TCP and a WebSocket dealer, and a server
\* loop on TCP; three binds in all.
CONSTANTS
    Sockets = {router, tcp, ws}
    WebSockets = {ws}
    MaxBinds = 3
    MaxCalls = 3
    Addresses = {a1, a2}
    Router = router
    NoSocket = NoSocket
SPECIFICATION JFairSpec
INVARIANTS JTypeOK FlagsAgree BindsInOrder SocketsTracked StopClosesManaged
PROPERTIES ClosesLast CloseHappens StopClosesRouter
CHECK_DEADLOCK FALSE
