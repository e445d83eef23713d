SPECIFICATION SpecActive
CONSTANTS
    MaxWindow <- MCWindow
    MaxPacket <- MCPacket
    MaxPush <- MCPush2A
    MaxOpen <- MCReopenBoth
    WireCap = 2
    MaxLoss = 0
    Closers = {}
    CanBlock = FALSE
    SlowControl = FALSE
INVARIANTS DeliveredInOrder ReleasedWasDelivered
CHECK_DEADLOCK FALSE
