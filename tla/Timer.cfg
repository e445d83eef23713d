SPECIFICATION LiveSpec
CONSTANTS
    Concurrency = 2
    MaxSlots = 2
    Users = {u1, u2}
    Alarms = {1, 2}
    When <- MCWhen
    Period <- MCOneShot
    Limitable = {1, 2}
    Listener <- MCListener
    MaxAlarms = 1
    PreventReentrancy = TRUE
    ExpireOnExit = TRUE
    HandlerAdds = {2}
    Menu = {"AddAlarm", "AddAlarmNonBlocking", "RemoveAlarm", "ForceRemoveAlarm", "RemoveAlarmsWithListener", "ReplaceAlarm", "Start", "Stop", "Join"}
    MaxOps = 3
    MaxStarts = 1
    MaxTime = 1
INVARIANTS CountMatches NoLostWakeup ControllerLives RemovedIsOver
PROPERTIES AlarmsFire ThreadsEnd CallsReturn AddersReturnIfFired
CHECK_DEADLOCK FALSE
