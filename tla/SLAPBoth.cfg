SPECIFICATION SpecActive
CONSTANTS
    MaxWindow <- MCWindow
    MaxPacket <- MCPacket
    MaxPush <- MCPushBoth
    MaxOpen <- MCOpenOnce
    WireCap = 2
    MaxLoss = 1
    Closers = {}
    CanBlock = FALSE
    SlowControl = TRUE
PROPERTIES WindowFromB
CHECK_DEADLOCK FALSE
