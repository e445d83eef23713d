SPECIFICATION SpecActive
CONSTANTS
    MaxWindow <- MCWindow
    MaxPacket <- MCPacket
    MaxPush <- MCPush3A
    MaxOpen <- MCOpenOnce
    WireCap = 1
    MaxLoss = 1
    Closers = {}
    CanBlock = TRUE
    SlowControl = TRUE
INVARIANTS IdleHasNothingToSend
CHECK_DEADLOCK FALSE
