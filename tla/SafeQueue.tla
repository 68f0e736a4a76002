------------------------------ MODULE SafeQueue ------------------------------
(***************************************************************************)
(* core/safe_queue.py: the waiting line and the table of legal moves.      *)
(*                                                                         *)
(* Every method of the class runs under one re-entrant lock, so each is    *)
(* one atomic change of `queue`.  Two states stand for "no such task":     *)
(* "new" (the identifier has never been used) and "forgotten" (dropped by  *)
(* forget_finished).  A summary, a timestamp and the history list are      *)
(* never read by the program's control and are left out.                   *)
(***************************************************************************)
EXTENDS Integers

CONSTANTS
    Tasks,      \* task identifiers
    Heavy       \* the ones submitted with Weight.HEAVY; the rest are LIGHT

ASSUME WeightAssumption == Heavy \subseteq Tasks

VARIABLES
    queue,      \* _tasks: state, attempts and place in line of each task
    nextSeq     \* _sequence: the next place in line

queueVars == <<queue, nextSeq>>

Absent == {"new", "forgotten"}
Terminal == {"done", "failed", "cancelled"}
Restorable == {"queued", "paused", "interrupted"}
TaskStates == {"queued", "paused", "interrupted", "running"} \cup Terminal

\* The table _ALLOWED: which states may follow which.
Allowed == [s \in TaskStates \cup Absent |->
    CASE s = "queued"      -> {"running", "paused", "cancelled"}
      [] s = "paused"      -> {"queued", "cancelled"}
      [] s = "interrupted" -> {"queued", "cancelled"}
      [] s = "running"     -> {"done", "failed", "cancelled", "queued",
                               "interrupted"}
      [] OTHER             -> {}]

State(t) == queue[t].state
Present(t) == State(t) \notin Absent
Waiting == {t \in Tasks : State(t) = "queued"}
Running == {t \in Tasks : State(t) = "running"}

\* `transition` refuses (IllegalTransition, or UnknownTask for an absent task)
\* unless the table allows the move.
CanMove(t, s) == s \in Allowed[State(t)]

\* The queue after a legal move; admission to RUNNING counts an attempt.
Moved(q, t, s) == [q EXCEPT ![t].state = s]
Started(q, t) == [q EXCEPT ![t].state = "running",
                           ![t].attempts = @ + 1]
Resumed(q, t) == [q EXCEPT ![t].state = "queued",
                           ![t].attempts = 0]

\* Back in line from RUNNING, keeping its place; an attempt that was nobody's
\* fault is given back.
Requeued(q, t, countAttempt) ==
    [q EXCEPT ![t].state = "queued",
              ![t].attempts = IF ~countAttempt /\ @ > 0 THEN @ - 1 ELSE @]

\* forget_finished drops EVERY terminal task that is not in keep.
ForgottenFrom(q, keep) ==
    [t \in Tasks |-> IF q[t].state \in Terminal /\ t \notin keep
                     THEN [q[t] EXCEPT !.state = "forgotten"]
                     ELSE q[t]]

\* A fresh identifier takes the last place in line.
Enter(t, s, n) ==
    /\ State(t) = "new"
    /\ queue' = [queue EXCEPT ![t] = [state |-> s, attempts |-> n,
                                      seq |-> nextSeq]]
    /\ nextSeq' = nextSeq + 1

\* t is ahead of every other member of S in arrival order.
FirstIn(t, S) == t \in S /\ \A u \in S : queue[t].seq <= queue[u].seq

QueueInit ==
    /\ queue = [t \in Tasks |-> [state |-> "new", attempts |-> 0, seq |-> 0]]
    /\ nextSeq = 0

TaskType == [state : TaskStates \cup Absent, attempts : Nat, seq : Nat]

QueueTypeOK == queue \in [Tasks -> TaskType] /\ nextSeq \in Nat
=============================================================================
