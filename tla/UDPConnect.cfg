SPECIFICATION Spec
CONSTANTS
    Active = {1}
    Passive = {11, 12}
    ConnectTries = 2
    ProbeRetries = 1
    SendStatus = {"ok", "wouldblock", "fail"}
    GarbageReads = {"rst", "bad"}
    WireCap = 2
    MaxDup = 0
    MaxBad = 1
    MaxAuth = 1
    MaxConn = 2
    MaxUntrusted = 1
    Untrusted = {11, 12}
INVARIANTS SlotsMatch CallbacksOnce EndpointHears OpenHasOwner StreamAssertions UntrustedCovered
CHECK_DEADLOCK FALSE
