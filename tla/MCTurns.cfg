SPECIFICATION Spec
CONSTANTS
    Worker = {w1, w2}
    NoWorker = nobody
    Unmarked = unmarked
    Ticket = {p1, p2}
    Kind = {"file", "write", "screen", "paint"}
    Answerer = {a1}
    MaxCommands = 2
INVARIANTS
    TypeOK
    OneTurn
    OneLastWord
    OwedAWord
    NextTurnIsFree
PROPERTIES
    HonouredOnce
    StopHolds
    ForegroundIsReturned
CHECK_DEADLOCK FALSE
