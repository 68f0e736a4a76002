SPECIFICATION MCSpec
SYMMETRY Symmetry
CONSTANTS
    Device = {d1, d2}
    NoDevice = none
    Cid = {c1, c2}
    Op = {x, y}
    MaxPerDevice = 1
    MaxRetained = 1
    Conn = {s1, s2}
    Person = person
    Sweeper = sweeper
    MaxAsks = 3
INVARIANTS
    TypeOK
    RetainedHonest
    AnswerIsOwn
    PendingIsOffered
PROPERTIES
    RevocationIsFinal
    RevokedIsRefused
    KeepsPromise
