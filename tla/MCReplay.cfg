SPECIFICATION Spec
CONSTANTS
    Tasks = {t1}
    Earlier = {}
    Workers = {w1}
    MaxFinished = 1
    MaxAnswers = 2
    Faults = {}
    Commands = {"pause", "resume", "cancel", "hold", "close"}
INVARIANTS
    NoUnaskedReplay
