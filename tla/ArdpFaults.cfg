SPECIFICATION Spec
CONSTANTS
    SeqMod = 64
    SEGMAX = 4
    Bits = 1
    Words = 4
    ISS = 62
    Msgs <- MCMixed
    Cap = 2
    MaxLoss = 1
    Reorder = TRUE
    CanTimeout = FALSE
    SocketFails = TRUE
INVARIANTS DeliveredInOrder EackMatchesBuffers SendCbOnce SendCbMeansConsumed
CHECK_DEADLOCK FALSE
