SPECIFICATION SpecActive
CONSTANTS
    MaxWindow <- MCWindow
    MaxPacket <- MCPacket
    MaxPush <- MCPush3A
    MaxOpen <- MCOpenOnce
    WireCap = 3
    MaxLoss = 1
    Closers = {}
    CanBlock = FALSE
    SlowControl = TRUE
INVARIANTS BuffersConserved SentHasResend EventsMatchQueues
PROPERTIES WindowFromA
CHECK_DEADLOCK FALSE
