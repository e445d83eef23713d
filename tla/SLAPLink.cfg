SPECIFICATION LiveSpec
CONSTANTS
    MaxWindow <- MCWindow
    MaxPacket <- MCPacket
    MaxPush <- MCPush1A
    MaxOpen <- MCOpenOnce
    WireCap = 2
    MaxLoss = 1
    Closers = {}
    CanBlock = FALSE
    SlowControl = TRUE
INVARIANTS ParamsAgree
PROPERTIES Establishes AllDelivered
CHECK_DEADLOCK FALSE
