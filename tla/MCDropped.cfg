SPECIFICATION Spec
CONSTANTS
    Tasks = {t1, t2}
    Earlier = {}
    Workers = {w1}
    MaxFinished = 1
    MaxAnswers = 2
    Faults = {"history"}
    Commands = {"pause", "resume", "cancel", "hold", "close"}
PROPERTIES
    NoRequestDropped
