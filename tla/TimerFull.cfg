SPECIFICATION LiveSpec
CONSTANTS
    Concurrency = 2
    MaxSlots = 2
    Users = {u1, u2}
    Alarms = {1, 2}
    When <- MCWhen
    Period <- MCOneShot
    Limitable = {1, 2}
    Listener <- MCListener
    MaxAlarms = 1
    PreventReentrancy = TRUE
    ExpireOnExit = TRUE
    HandlerAdds = {}
    Menu = {"AddAlarm", "RemoveAlarm", "Start"}
    MaxOps = 3
    MaxStarts = 1
    MaxTime = 1
PROPERTIES AddersReturn
CHECK_DEADLOCK FALSE
