SPECIFICATION FairSpec
CONSTANTS
    Tasks = {t1, t2}
    Heavy = {t1}
    Media = media
    NoTask = none
    LeaseTicks = 2
    MaxAttempts = 1
    PreemptAfter = 1
    RetryTicks = 3
    HistoryTicks = 1
    Levels <- FreeOnly
    Zones <- NoPressure
    Commands <- PauseCommands
PROPERTIES
    QueuedIsServed
