SPECIFICATION Spec
CONSTANTS
    MaxWindow <- MCWindow
    MaxPacket <- MCPacket
    MaxPush <- MCPush1A
    MaxOpen <- MCOpenOnce
    WireCap = 1
    MaxLoss = 1
    Closers = {"A", "B"}
    CanBlock = TRUE
    SlowControl = TRUE
INVARIANTS DeadWakesWaiters DisconnectAgreed
CHECK_DEADLOCK FALSE
