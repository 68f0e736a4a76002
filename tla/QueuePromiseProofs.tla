-------------------------- MODULE QueuePromiseProofs --------------------------
(***************************************************************************)
(* TLAPS proof that QueueScheduler implements RequestPromise, for every    *)
(* set of tasks and every value of the limits.                             *)
(***************************************************************************)
EXTENDS QueueSchedulerProofs

USE DEF queueVars, entryVars, flagVars, workVars

\* What the step lemmas need of the types.
LEMMA Types ==
  ASSUME TypeOK
  PROVE  /\ queue \in [Tasks -> TaskType] /\ entry \in [Tasks -> EntryType]
         /\ work \in [Tasks -> WorkType] /\ worker \in [Tasks -> WorkerType]
         /\ inflight \subseteq Tasks /\ pump \in PumpType
         /\ pump.pc \in Naming => pump.cur \in Tasks
  BY DEF TypeOK, QueueTypeOK, PumpType

\* Only waiting, held and running tasks can be cancelled, only waiting ones
\* paused or started.
LEMMA Moves ==
  ASSUME TypeOK, NEW t \in Tasks
  PROVE  /\ CanMove(t, "cancelled") =>
              State(t) \in {"queued", "paused", "interrupted", "running"}
         /\ CanMove(t, "paused") => State(t) = "queued"
         /\ CanMove(t, "running") => State(t) = "queued"
  BY Types DEF CanMove, Allowed, State, TaskType, TaskStates, Terminal, Absent

\* What the promise calls the states.
LEMMA ShownIs ==
  /\ Shown["new"] = "unknown" /\ Shown["queued"] = "waiting"
  /\ Shown["paused"] = "held" /\ Shown["interrupted"] = "held"
  /\ Shown["running"] = "running" /\ Shown["done"] = "settled"
  /\ Shown["failed"] = "settled" /\ Shown["cancelled"] = "withdrawn"
  /\ Shown["forgotten"] = "forgotten"
  BY DEF Shown, TaskStates, Terminal, Absent

\* The state function that stands for the promise's stage.
Stages == [t \in Tasks |-> Shown[State(t)]]

\* No task changes its state; none of those but t does; no answer is given.
SameStates == \A t \in Tasks : queue'[t].state = State(t)
OthersSame(t) == \A u \in Tasks \ {t} : queue'[u].state = State(u)
SameCommits == \A t \in Tasks : work'[t].committed = work[t].committed

LEMMA StatesStay ==
  ASSUME SameStates
  PROVE  UNCHANGED Stages
  BY DEF SameStates, Stages, State

LEMMA CommitsStay ==
  ASSUME SameCommits
  PROVE  UNCHANGED Committed
  BY DEF SameCommits, Committed

\* One task changes its stage.
LEMMA OneGoes ==
  ASSUME NEW t \in Tasks, OthersSame(t), NEW from, NEW to,
         Shown[State(t)] \in from, Shown[queue'[t].state] = to
  PROVE  Promise!Goes(t, from, to)
<1>1. \A u \in Tasks \ {t} : Shown[State(u)'] = Shown[State(u)]
  BY DEF OthersSame, State
<1> QED
  BY <1>1 DEF Promise!Goes, State

\* A step that the promise does not see.
LEMMA QuietStep ==
  ASSUME SameStates, SameCommits, UNCHANGED inflight
  PROVE  UNCHANGED Promise!vars
  BY StatesStay, CommitsStay DEF Promise!vars, Stages

-----------------------------------------------------------------------------
(* Requests come and go. *)

\* A submission, or a task recovery brings back, is the promise's Enter.
LEMMA EnterIsPromised ==
  ASSUME TypeOK, NEW t \in Tasks, NEW s \in Restorable, NEW n, Enter(t, s, n),
         UNCHANGED <<inflight, work>>
  PROVE  Promise!Enter(t)
<1>1. State(t) = "new" /\ OthersSame(t) /\ queue'[t].state = s
  BY Types DEF Enter, OthersSame, State
<1>2. Shown[State(t)] \in {"unknown"} /\ Shown[s] \in {"waiting", "held"}
  BY <1>1, ShownIs DEF Restorable
<1>3. \/ Promise!Goes(t, {"unknown"}, "waiting")
      \/ Promise!Goes(t, {"unknown"}, "held")
  BY <1>1, <1>2, OneGoes
<1> QED
  BY <1>3, CommitsStay DEF Promise!Enter, SameCommits

\* Pausing a task, by the user or after too many attempts, is Hold.
LEMMA PausedIsPromised ==
  ASSUME TypeOK, NEW t \in Tasks, State(t) = "queued",
         queue' = Moved(queue, t, "paused"), UNCHANGED <<inflight, work>>
  PROVE  Promise!Hold(t)
<1>1. OthersSame(t) /\ queue'[t].state = "paused"
  BY Types DEF OthersSame, Moved, State, TaskType
<1>2. Promise!Goes(t, {"waiting"}, "held")
  BY <1>1, ShownIs, OneGoes
<1> QED
  BY <1>2, CommitsStay DEF Promise!Hold, SameCommits

\* Resuming one is Resume.
LEMMA ResumeIsPromised ==
  ASSUME TypeOK, NEW t \in Tasks, ResumeTask(t)
  PROVE  Promise!Resume(t)
<1>1. /\ State(t) \in {"paused", "interrupted"} /\ OthersSame(t)
      /\ queue'[t].state = "queued" /\ UNCHANGED <<inflight, work>>
  BY Types DEF ResumeTask, OthersSame, Resumed, State, TaskType
<1>2. Promise!Goes(t, {"held"}, "waiting")
  BY <1>1, ShownIs, OneGoes
<1> QED
  BY <1>1, <1>2, CommitsStay DEF Promise!Resume, SameCommits

\* A cancel ends a request that was not answered, or changes nothing.
LEMMA CancelIsPromised ==
  ASSUME TypeOK, InvCommit, NEW t \in Tasks, Cancel(t)
  PROVE  Promise!Stop(t) \/ UNCHANGED Promise!vars
<1>1. SameCommits /\ UNCHANGED inflight
  BY Types, StopFacts DEF Cancel, SameCommits
<1>2. CASE CancelLands(t)
  <2>1. /\ State(t) \in {"queued", "paused", "interrupted", "running"}
        /\ queue' = Moved(queue, t, "cancelled")
    BY <1>2, Moves DEF Cancel, CancelLands
  <2>2. OthersSame(t) /\ queue'[t].state = "cancelled"
    BY <2>1, Types DEF OthersSame, Moved, State, TaskType
  <2>3. t \notin Committed
    BY <1>2, <2>1 DEF CancelLands, Committed, InvCommit
  <2>4. Promise!Goes(t, {"waiting", "held", "running"}, "withdrawn")
    BY <2>1, <2>2, ShownIs, OneGoes
  <2> QED
    BY <1>1, <2>3, <2>4, CommitsStay DEF Promise!Stop
<1>3. CASE ~CancelLands(t)
  BY <1>1, <1>3, QuietStep DEF Cancel, SameStates, State
<1> QED
  BY <1>2, <1>3

\* A close interrupts the one request that runs, unless it was answered.
LEMMA InterruptIsPromised ==
  ASSUME TypeOK, InvInflight, InvRunning, InterruptRunning
  PROVE  \/ \E t \in Tasks : Promise!Stop(t)
         \/ UNCHANGED Promise!vars
<1>1. SameCommits /\ UNCHANGED inflight
  BY Types, StopFacts DEF InterruptRunning, SameCommits
<1>2. CASE Interruptible = {}
  BY <1>1, <1>2, QuietStep DEF InterruptRunning, SameStates, State
<1>3. CASE Interruptible # {}
  <2>1. PICK t \in Tasks : t \in Interruptible
    BY <1>3 DEF Interruptible, Running
  <2>2. State(t) = "running" /\ t \notin Committed
    BY <2>1 DEF Interruptible, Running, InvRunning, Committed
  <2>3. \A u \in Tasks \ {t} : u \notin Interruptible
    BY <2>2 DEF Interruptible, Running, InvRunning, InvInflight
  <2>4. OthersSame(t) /\ queue'[t].state = "interrupted"
    BY <2>1, <2>3, Types DEF InterruptRunning, OthersSame, State, TaskType
  <2>5. Promise!Goes(t, {"running"}, "held")
    BY <2>2, <2>4, ShownIs, OneGoes
  <2>6. Promise!Stop(t)
    BY <1>1, <2>2, <2>5, CommitsStay DEF Promise!Stop
  <2> QED
    BY <2>6
<1> QED
  BY <1>2, <1>3

\* Forgetting drops requests that are over and off the machine.
LEMMA ForgettingIsPromised ==
  ASSUME TypeOK, NEW l \in Levels, Observe(l)
  PROVE  Promise!Forget \/ UNCHANGED Promise!vars
<1>1. SameCommits /\ UNCHANGED inflight
  BY DEF Observe, SameCommits
<1>2. CASE Stale = {}
  BY <1>1, <1>2, QuietStep DEF Observe, AfterForgetting, SameStates, State
<1>3. CASE Stale # {}
  <2> DEFINE S == {t \in Tasks \ inflight : State(t) \in Terminal}
  <2>1. \A t \in Tasks : queue'[t].state =
                         IF t \in S THEN "forgotten" ELSE State(t)
    BY <1>3, Types DEF Observe, AfterForgetting, ForgottenFrom, State, TaskType
  <2>2. Stages' = [t \in Tasks |-> IF t \in S THEN "forgotten"
                                  ELSE Shown[State(t)]]
    BY <2>1, ShownIs DEF Stages, State
  <2>3. \A t \in S : Shown[State(t)] \in Promise!Over
    BY ShownIs DEF Terminal, Promise!Over
  <2>4. S \in SUBSET {t \in Tasks \ inflight :
                          Stages[t] \in Promise!Over}
    BY <2>3 DEF Stages
  <2>5. Stages' = [t \in Tasks |-> IF t \in S THEN "forgotten" ELSE Stages[t]]
    BY <2>2 DEF Stages
  <2> HIDE DEF S
  <2> QED
    BY <1>1, <2>4, <2>5, CommitsStay DEF Promise!Forget, Stages
<1> QED
  BY <1>2, <1>3

-----------------------------------------------------------------------------
(* The machine. *)

\* Paused by the pump, or passed over.
LEMMA DecideIsPromised ==
  ASSUME TypeOK, Decide
  PROVE  (\E t \in Tasks : Promise!Hold(t)) \/ UNCHANGED Promise!vars
<1>1. /\ pump.cur \in Tasks /\ UNCHANGED <<inflight, work>>
      /\ \/ UNCHANGED queue
         \/ /\ CanMove(pump.cur, "paused")
            /\ queue' = Moved(queue, pump.cur, "paused")
  BY Types DEF Decide, At, Naming
<1>2. CASE UNCHANGED queue
  BY <1>1, <1>2, QuietStep DEF SameStates, SameCommits, State
<1>3. CASE /\ CanMove(pump.cur, "paused")
           /\ queue' = Moved(queue, pump.cur, "paused")
  <2>1. Promise!Hold(pump.cur)
    BY <1>1, <1>3, Moves, PausedIsPromised
  <2> QED
    BY <1>1, <2>1
<1> QED
  BY <1>1, <1>2, <1>3

\* Scan found the machine free, and it still is when the task is started.
LEMMA LaunchIsPromised ==
  ASSUME TypeOK, InvInflight, Launch
  PROVE  (\E t \in Tasks : Promise!Take(t)) \/ UNCHANGED Promise!vars
<1>1. /\ inflight = {} /\ pump.cur \in Tasks /\ UNCHANGED work
  BY Types DEF Launch, At, InvInflight, Choosing, Naming
<1>2. CASE CanMove(pump.cur, "running")
  <2>1. /\ queue' = Started(queue, pump.cur) /\ State(pump.cur) = "queued"
        /\ inflight' = {pump.cur}
    BY <1>1, <1>2, Moves DEF Launch
  <2>2. OthersSame(pump.cur) /\ queue'[pump.cur].state = "running"
    BY <1>1, <2>1, Types DEF OthersSame, Started, State, TaskType
  <2>3. Promise!Goes(pump.cur, {"waiting"}, "running")
    BY <1>1, <2>1, <2>2, ShownIs, OneGoes
  <2>4. Promise!Take(pump.cur)
    BY <1>1, <2>1, <2>3, CommitsStay DEF Promise!Take, SameCommits
  <2> QED
    BY <1>1, <2>4
<1>3. CASE ~CanMove(pump.cur, "running")
  BY <1>1, <1>3, QuietStep DEF Launch, SameStates, SameCommits, State
<1> QED
  BY <1>2, <1>3

\* The answer is committed by the request on the machine, while it runs.
LEMMA CommitIsPromised ==
  ASSUME TypeOK, InvInflight, InvRunning, NEW t \in Tasks, Commit(t)
  PROVE  Promise!Answer(t)
<1>1. /\ worker[t].pc = "running" /\ ~work[t].committed /\ ~work[t].cancelled
      /\ UNCHANGED <<queue, inflight>>
  BY DEF Commit, MayCommit
<1>2. inflight = {t}
  BY <1>1, Types DEF InvInflight, OnMachine
<1>3. Shown[State(t)] = "running"
  BY <1>1, <1>2, ShownIs DEF InvRunning
<1>4. /\ work'[t].committed
      /\ \A u \in Tasks \ {t} : work'[u] = work[u]
  BY Types DEF Commit, WorkType
<1>5. t \notin Committed /\ Committed' = Committed \cup {t}
  BY <1>1, <1>4 DEF Committed
<1>6. UNCHANGED Stages
  BY <1>1, StatesStay DEF SameStates, State
<1> QED
  BY <1>1, <1>2, <1>3, <1>5, <1>6 DEF Promise!Answer, Stages

\* A report frees the machine; what it says of a task that runs is settled,
\* and of one that was stopped meanwhile is ignored.
LEMMA ReportIsPromised ==
  ASSUME TypeOK, InvInflight, InvRunning, InvCommit, NEW t \in Tasks, Report(t)
  PROVE  Promise!Vacate(t)
<1> DEFINE o == worker[t].outcome
<1>1. /\ worker[t].pc = "returned" /\ inflight' = inflight \ {t}
      /\ UNCHANGED work /\ o \in Outcomes
  BY Types DEF Report, WorkerType
<1>2. inflight = {t} /\ entry[t].known
  BY <1>1, Types DEF InvInflight, OnMachine, InvRunning
<1>3. inflight' = {} /\ UNCHANGED Committed /\ queue' = Reported(t, o)
  BY <1>1, <1>2, CommitsStay DEF Report, SameCommits
<1>4. OthersSame(t)
  BY <1>3, Types DEF Reported, OthersSame, Moved, Requeued, State
<1>5. CASE State(t) # "running"
  <2>1. SameStates
    BY <1>3, <1>5 DEF Reported, SameStates, State
  <2>2. UNCHANGED Stages
    BY <2>1, StatesStay
  <2>3. Shown[State(t)] # "running"
    BY <1>5, Types, ShownIs DEF State, TaskType, TaskStates, Terminal, Absent
  <2> QED
    BY <1>2, <1>3, <2>2, <2>3 DEF Promise!Vacate, Stages
<1>6. CASE State(t) = "running"
  <2>1. t \in Committed => o \in {"done", "failed"}
    BY <1>1, <1>6 DEF Committed, InvCommit
  <2>2. CASE o \in {"done", "failed"}
    <3>1. queue'[t].state = o
      BY <1>3, <1>6, <2>2, Types DEF Reported, Moved, TaskType
    <3>2. Promise!Goes(t, {"running"}, "settled")
      BY <1>4, <1>6, <2>2, <3>1, ShownIs, OneGoes
    <3> QED
      BY <1>2, <1>3, <3>2 DEF Promise!Vacate
  <2>3. CASE o = "cancelled"
    <3>1. queue'[t].state = "cancelled"
      BY <1>3, <1>6, <2>3, Types DEF Reported, Moved, TaskType
    <3>2. Promise!Goes(t, {"running"}, "withdrawn")
      BY <1>4, <1>6, <3>1, ShownIs, OneGoes
    <3> QED
      BY <1>2, <1>3, <2>1, <2>3, <3>2 DEF Promise!Vacate
  <2>4. CASE o \in {"deferred", "yielded"}
    <3>1. queue'[t].state = "queued"
      BY <1>3, <1>6, <2>4, Types DEF Reported, Requeued, TaskType
    <3>2. Promise!Goes(t, {"running"}, "waiting")
      BY <1>4, <1>6, <3>1, ShownIs, OneGoes
    <3> QED
      BY <1>2, <1>3, <2>1, <2>4, <3>2 DEF Promise!Vacate
  <2> QED
    BY <1>1, <2>2, <2>3, <2>4 DEF Outcomes
<1> QED
  BY <1>5, <1>6

-----------------------------------------------------------------------------
(* Every step. *)

LEMMA InitIsPromised ==
  ASSUME Init
  PROVE  Promise!Init
<1>1. \A t \in Tasks : Shown[State(t)] = "unknown"
  BY ShownIs DEF Init, QueueInit, State
<1>2. Committed = {}
  BY DEF Init, NewWork, Committed
<1> QED
  BY <1>1, <1>2 DEF Init, Promise!Init

LEMMA StepIsPromised ==
  ASSUME IInv, [Next]_vars
  PROVE  Promise!Next \/ UNCHANGED Promise!vars
<1>i. TypeOK /\ InvInflight /\ InvRunning /\ InvCommit
  BY DEF IInv
<1>1. ASSUME NEW l \in Levels, Observe(l)
      PROVE  Promise!Next \/ UNCHANGED Promise!vars
  BY <1>1, <1>i, ForgettingIsPromised DEF Promise!Next
<1>2. CASE Decide
  BY <1>2, <1>i, DecideIsPromised DEF Promise!Next
<1>3. CASE Launch
  BY <1>3, <1>i, LaunchIsPromised DEF Promise!Next
<1>4. ASSUME NEW t \in Tasks, Commit(t) PROVE Promise!Next
  BY <1>4, <1>i, CommitIsPromised DEF Promise!Next
<1>5. ASSUME NEW t \in Tasks, Report(t) PROVE Promise!Next
  BY <1>5, <1>i, ReportIsPromised DEF Promise!Next
<1>6. ASSUME NEW t \in Tasks, Submit(t) PROVE Promise!Next
  <2>1. Promise!Enter(t)
    BY <1>6, <1>i, EnterIsPromised DEF Submit, Restorable
  <2> QED
    BY <2>1 DEF Promise!Next
<1>7. ASSUME NEW t \in Tasks, NEW s \in Restorable, NEW n, Restore(t, s, n)
      PROVE  Promise!Next
  <2>1. Promise!Enter(t)
    BY <1>7, <1>i, EnterIsPromised DEF Restore
  <2> QED
    BY <2>1 DEF Promise!Next
<1>8. ASSUME NEW t \in Tasks, PauseTask(t) PROVE Promise!Next
  <2>1. Promise!Hold(t)
    BY <1>8, <1>i, PausedIsPromised DEF PauseTask
  <2> QED
    BY <2>1 DEF Promise!Next
<1>9. ASSUME NEW t \in Tasks, ResumeTask(t) PROVE Promise!Next
  BY <1>9, <1>i, ResumeIsPromised DEF Promise!Next
<1>10. ASSUME NEW t \in Tasks, Cancel(t)
       PROVE  Promise!Next \/ UNCHANGED Promise!vars
  BY <1>10, <1>i, CancelIsPromised DEF Promise!Next
<1>11. CASE InterruptRunning
  BY <1>11, <1>i, InterruptIsPromised DEF Promise!Next
<1>12. CASE Ask
  <2>1. pump.cur \in Tasks
    BY <1>12, <1>i, Types DEF Ask, At, Naming
  <2>2. SameCommits /\ UNCHANGED <<queue, inflight>>
    BY <1>12, <1>i, <2>1, Types, StopFacts DEF Ask, SameCommits
  <2> QED
    BY <2>2, QuietStep DEF SameStates, State
<1>13. ASSUME NEW t \in Tasks, Begin(t) \/ \E o \in Outcomes : Return(t, o)
       PROVE  UNCHANGED Promise!vars
  <2>1. SameCommits /\ UNCHANGED <<queue, inflight>>
    BY <1>13, <1>i, Types DEF Begin, Return, SameCommits, WorkType
  <2> QED
    BY <2>1, QuietStep DEF SameStates, State
<1>14. ASSUME NEW b \in BOOLEAN, SetRuntimePaused(b) \/ SetBusy(b)
       PROVE  UNCHANGED Promise!vars
  <2>1. SameCommits /\ UNCHANGED <<queue, inflight>>
    BY <1>14, <1>i, Types, StoppedWork DEF SetRuntimePaused, SetBusy, SameCommits
  <2> QED
    BY <2>1, QuietStep DEF SameStates, State
<1>15. CASE \/ \E z \in Zones : Protect(z) \/ OverrideAnswer(z)
            \/ \E t \in Tasks : Attribute(t) \/ Release(t) \/ OverrideAsk(t)
            \/ \E t \in Tasks, z \in Zones : Check(t, z)
            \/ \E b \in BOOLEAN : Request(b) \/ Handover(b) \/ SetPaused(b)
            \/ Settle \/ Gate \/ Scan \/ Rest \/ WakeUp \/ ClearWake \/ Exit
            \/ StartPump \/ Close \/ AdvanceTime \/ MediaRequest
            \/ MediaRelease \/ Ended \/ UNCHANGED vars
  <2>1. UNCHANGED <<queue, inflight, work>>
    BY <1>15 DEF Protect, OverrideAnswer, Attribute, Release, OverrideAsk,
       Check, Request, Handover, SetPaused, Settle, Gate, Scan, Rest, WakeUp,
       ClearWake, Exit, StartPump, Close, AdvanceTime, MediaRequest,
       MediaRelease, Ended, vars
  <2> QED
    BY <2>1, QuietStep DEF SameStates, SameCommits, State
<1> QED
  BY <1>1, <1>2, <1>3, <1>4, <1>5, <1>6, <1>7, <1>8, <1>9, <1>10, <1>11,
     <1>12, <1>13, <1>14, <1>15 DEF Next, PumpStep, WorkerStep, CommandStep

\* Whatever the order in which the pump, the reader and the workers take the
\* scheduler's lock, it does with each request only what the queue promises.
THEOREM PromiseIsKept == Spec => KeepsPromise
<1>1. Init => Promise!Init
  BY InitIsPromised
<1>2. IInv /\ [Next]_vars => Promise!Next \/ UNCHANGED Promise!vars
  BY StepIsPromised
<1> QED
  BY <1>1, <1>2, Invariant, PTL DEF Spec, KeepsPromise, Promise!Spec
=============================================================================
