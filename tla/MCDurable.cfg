SPECIFICATION Spec
CONSTANTS
    Tasks = {t1, t2}
    Earlier = {t2}
    Workers = {w1}
    MaxFinished = 1
    MaxAnswers = 2
    Faults = {"disk", "file", "history", "records"}
    Commands = {"pause", "resume", "cancel", "hold", "close"}
INVARIANTS
    TypeOK
    StorageHonest
    OneAnswer
PROPERTIES
    SavedRequestKept
    SavedOutcomeFinal
