SPECIFICATION Spec
CONSTANTS
    Tasks = {t1, t2}
    Heavy = {t1}
    Media = media
    NoTask = none
    LeaseTicks = 2
    MaxAttempts = 1
    PreemptAfter = 1
    RetryTicks = 0
    HistoryTicks = 0
    Levels <- AnyLevel
    Zones <- NoPressure
    Commands <- OverrideCommands
PROPERTIES
    OverrideNotRemembered
