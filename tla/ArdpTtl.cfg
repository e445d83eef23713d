SPECIFICATION LiveSpec
CONSTANTS
    SeqMod = 64
    SEGMAX = 2
    Bits = 1
    Words = 2
    ISS = 62
    Msgs <- MCTtl
    Cap = 2
    MaxLoss = 2
    Reorder = FALSE
    CanTimeout = TRUE
    SocketFails = FALSE
PROPERTIES AllCompleted
INVARIANTS AssertionsHold SendCbOnce
CHECK_DEADLOCK FALSE
