------------------------- MODULE ForegroundLifecycle --------------------------
(***************************************************************************)
(* The gate that orders one foreground turn against Stop, Pause and close: *)
(* core/foreground_lifecycle.py.  The gate's lock is held over many steps  *)
(* only by the command in progress (transition); a turn's own critical     *)
(* sections hold it for one step each and wait for the command to end.     *)
(***************************************************************************)
EXTENDS FiniteSets

CONSTANTS
    Worker,         \* threads, each started to run one foreground request
    NoWorker

VARIABLES
    inTransition,   \* a command holds the lifecycle's lock
    active,         \* ForegroundLifecycle._active: whose turn it is
    shut,           \* ForegroundLifecycle._closed
    cancelled,      \* turns whose inference token is cancelled
    terminal,       \* turns that published their last word
    reported        \* turns whose cancellation was reported

lifecycle == <<inTransition, active, shut, cancelled, terminal, reported>>
turn == <<cancelled, terminal, reported>>

LifecycleInit ==
    /\ inTransition = FALSE
    /\ active = NoWorker
    /\ shut = FALSE
    /\ cancelled = {}
    /\ terminal = {}
    /\ reported = {}

LifecycleTypeOK ==
    /\ inTransition \in BOOLEAN
    /\ active \in Worker \cup {NoWorker}
    /\ shut \in BOOLEAN
    /\ cancelled \subseteq Worker
    /\ terminal \subseteq Worker
    /\ reported \subseteq Worker

\* Mutant: the gate asks the busy flag and not its own turn.
AskOnlyBusy(paused, busy) ==
    IF shut \/ paused THEN "cancelled" ELSE IF busy THEN "busy" ELSE "entered"

\* begin, by the answer of `state()`: what becomes of a request that asks for
\* the foreground.
Admission(paused, busy) ==
    IF shut \/ paused THEN "cancelled"
    ELSE IF active # NoWorker \/ busy THEN "busy"
    ELSE "entered"

\* begin: the turn takes the gate, unless a command is in progress.
Enter(w, paused, busy) ==
    /\ ~inTransition
    /\ active' = IF Admission(paused, busy) = "entered" THEN w ELSE active
    /\ UNCHANGED <<inTransition, shut, cancelled, terminal, reported>>

\* The end of begin's scope.
Leave(w) ==
    /\ ~inTransition
    /\ active' = IF active = w THEN NoWorker ELSE active
    /\ UNCHANGED <<inTransition, shut>>

\* The turn object is dropped with the thread that ran it.
DropTurn(w) ==
    /\ cancelled' = cancelled \ {w}
    /\ terminal' = terminal \ {w}
    /\ reported' = reported \ {w}

\* publication without action_outcome refuses a cancelled turn.
MayPublish(w) == w \notin cancelled

\* publication(terminal=True): wholly before the command, or after it.
PublishLast(w) ==
    /\ ~inTransition
    /\ terminal' = terminal \cup {w}
    /\ UNCHANGED <<inTransition, active, shut, cancelled, reported>>

\* Mutant: every handler that catches the cancellation reports it.
ClaimAlways(w) == TRUE

\* Mutant: the gate remembers that a report was made, and not for whom.
ClaimShared(w) == terminal \cup reported = {}

\* claim_cancellation_report.
MayClaim(w) == w \notin terminal \cup reported

Claim(w) ==
    /\ ~inTransition
    /\ reported' = IF MayClaim(w) THEN reported \cup {w} ELSE reported
    /\ UNCHANGED <<inTransition, active, shut, cancelled, terminal>>

\* Mutant: whatever stands for the turn is cancelled, a turn or not.
CancelWhoever(cancel, closes) ==
    /\ ~inTransition
    /\ inTransition' = TRUE
    /\ cancelled' = IF cancel THEN cancelled \cup {active} ELSE cancelled
    /\ shut' = (shut \/ closes)
    /\ UNCHANGED <<active, terminal, reported>>

\* transition() entered with cancel_current, or with close.
StartTransition(cancel, closes) ==
    /\ ~inTransition
    /\ inTransition' = TRUE
    /\ cancelled' = IF cancel THEN cancelled \cup ({active} \ {NoWorker})
                              ELSE cancelled
    /\ shut' = (shut \/ closes)
    /\ UNCHANGED <<active, terminal, reported>>

EndTransition ==
    /\ inTransition' = FALSE
    /\ UNCHANGED <<active, shut, cancelled, terminal, reported>>
=============================================================================
