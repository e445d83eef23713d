SPECIFICATION LiveSpec
CONSTANTS
    Concurrency = 2
    MaxSlots = 2
    Users = {u1}
    Alarms = {1}
    When <- MCWhen
    Period <- MCOneShot
    Limitable = {1}
    Listener <- MCListener
    MaxAlarms = 1
    PreventReentrancy = FALSE
    ExpireOnExit = FALSE
    HandlerAdds = {}
    Menu = {"AddAlarm", "RemoveAlarm", "Start", "Stop"}
    MaxOps = 3
    MaxStarts = 1
    MaxTime = 1
PROPERTIES RemovalBlocks
CHECK_DEADLOCK FALSE
