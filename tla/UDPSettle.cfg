SPECIFICATION LiveSpec
CONSTANTS
    Active = {1}
    Passive = {11}
    ConnectTries = 2
    ProbeRetries = 1
    SendStatus = {"ok", "wouldblock", "fail"}
    GarbageReads = {"rst", "bad"}
    WireCap = 1
    MaxDup = 1
    MaxBad = 1
    MaxAuth = 1
    MaxConn = 2
    MaxUntrusted = 1
    Untrusted = {11}
PROPERTIES Settles
CHECK_DEADLOCK FALSE
