SPECIFICATION HangingSpec
CONSTANTS
    Tasks = {t1}
    Heavy = {t1}
    Media = media
    NoTask = none
    LeaseTicks = 2
    MaxAttempts = 1
    PreemptAfter = 2
    RetryTicks = 1
    HistoryTicks = 1
    Levels <- AnyLevel
    Zones <- AnyPressure
    Commands <- RunCommands
PROPERTIES
    CancelFreesMachine
    SafetyStopWorks
