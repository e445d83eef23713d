SPECIFICATION Spec
CONSTANTS
    SeqMod = 64
    SEGMAX = 2
    Bits = 1
    Words = 2
    ISS = 62
    Msgs <- MCPlain
    Cap = 2
    MaxLoss = 0
    Reorder = TRUE
    CanTimeout = FALSE
    SocketFails = FALSE
INVARIANTS StaysOpen
CHECK_DEADLOCK FALSE
