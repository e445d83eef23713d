SPECIFICATION Spec
CONSTANTS
    SeqMod = 64
    SEGMAX = 4
    Bits = 1
    Words = 4
    ISS = 62
    Msgs <- MCMixed
    Cap = 2
    MaxLoss = 0
    Reorder = FALSE
    CanTimeout = FALSE
    SocketFails = TRUE
INVARIANTS RefusedHasNoSendCb
CHECK_DEADLOCK FALSE
