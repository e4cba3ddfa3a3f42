SPECIFICATION FairSpec
CONSTANTS
    MaxFds = 3
    MaxConns = 2
    MaxCalls = 3
    MaxDepth = 2
    MaxFrames = 3
    MaxServed = 1
    MaxUnits = 2
    Middlewares = 1
    KeptAfterFailure = FALSE
    Protocols = {"none", "tcp", "http", "canal"}
    HookSets = {{"message", "close"}, {"open", "error", "connection", "server message", "server close", "server error", "message"}}
INVARIANTS
    MessagesArrive
    DescriptorsOwned
    AnsweredOnce
PROPERTY
    CallsEnd
CHECK_DEADLOCK FALSE
