------------------------- MODULE QueueSchedulerProofs -------------------------
(***************************************************************************)
(* TLAPS proofs about QueueScheduler, for every set of tasks and every     *)
(* value of the limits.                                                    *)
(***************************************************************************)
EXTENDS QueueScheduler, TLAPS

\* The labels between Scan finding the machine free and Launch taking it.
Choosing == {"check", "decide", "request", "launch"}

\* What is in flight is what occupies the machine, or is about to.
InvInflight ==
    /\ \A t \in Tasks : t \in inflight <=>
            OnMachine(t) \/ (pump.pc = "handover" /\ pump.cur = t)
    /\ \A t, u \in inflight : t = u
    /\ pump.pc \in Choosing \cup {"asleep"} => inflight = {}
    /\ pump.pc = "handover" => \A t \in Tasks : ~OnMachine(t)

\* Running tasks are in flight; work in flight keeps its task and its entry,
\* and left the running state only by a stop its work was told of.
InvRunning ==
    /\ \A t \in Tasks : State(t) = "running" => t \in inflight
    /\ \A t \in inflight : Present(t) /\ entry[t].known
    /\ \A t \in inflight : State(t) # "running" => work[t].cancelled
    /\ pump.pc \in {"decide", "request", "launch"} => entry[pump.cur].known

\* A committed answer is with a worker that will report it, or reported.
InvCommit ==
    /\ \A t \in Tasks : work[t].run # "none" => worker[t].pc = "running"
    /\ \A t \in Tasks : work[t].committed =>
            State(t) \in {"running", "done", "failed", "forgotten"}
    /\ \A t \in Tasks : work[t].committed /\ State(t) = "running" =>
            \/ worker[t].pc = "running"
            \/ /\ worker[t].pc = "returned"
               /\ worker[t].outcome \in {"done", "failed"}

\* A task is within its attempts, and below them once the pump has chosen it;
\* recovery, which sets them, is over before the pump starts.
InvAttempts ==
    /\ AttemptsBounded
    /\ phase = "starting" => pump.pc = "unstarted"
    /\ pump.pc \in {"request", "launch"} =>
            queue[pump.cur].attempts < MaxAttempts

\* A stop the pump was granted belongs to work still in flight.
InvPreempted ==
    /\ NoStalePreemption
    /\ pump.pc = "settle" /\ pump.ok /\ entry[pump.cur].preempted =>
            pump.cur \in inflight

\* The owner a heavy lease is being kept for.
HeavyUser(t) ==
    t \in Heavy /\ (t \in inflight \/ (pump.pc = "launch" /\ pump.cur = t))

\* There is one heavy claim; its user's is no older than the last renewal and
\* no earlier report is about to give it back.
InvLease ==
    /\ \A o, p \in Owners : /\ IsHeavy(o) /\ lease[o] > 0
                            /\ IsHeavy(p) /\ lease[p] > 0
                            => o = p
    /\ \A t \in Tasks : HeavyUser(t) =>
            /\ lease[t] >= LeaseTicks - 1
            /\ ~unrenewed => lease[t] = LeaseTicks
            /\ t \notin releasing
    /\ \A t \in releasing \cap Heavy : lease[t] > 0

IInv == TypeOK /\ InvInflight /\ InvRunning /\ InvCommit /\ InvAttempts
               /\ InvPreempted /\ InvLease

USE WeightAssumption, LeaseAssumption, SchedulerAssumption

-----------------------------------------------------------------------------
(* Typing.  What each kind of update does to a record's type, once.        *)

\* The timers' limits are in their ranges.
LEMMA TimerRange == /\ 0 \in 0 .. RetryTicks /\ RetryTicks \in 0 .. RetryTicks
                    /\ Never \in -1 .. HistoryTicks
                    /\ HistoryTicks \in -1 .. HistoryTicks
  BY DEF Never

\* Every combination of fields the scheduler changes in an entry.
LEMMA EntryUpdateType ==
  ASSUME NEW e \in EntryType, NEW b \in BOOLEAN, NEW c \in BOOLEAN,
         NEW d \in BOOLEAN, NEW n \in 0 .. RetryTicks,
         NEW h \in -1 .. HistoryTicks
  PROVE  /\ [e EXCEPT !.preempted = b] \in EntryType
         /\ [e EXCEPT !.refused = b] \in EntryType
         /\ [e EXCEPT !.history = h] \in EntryType
         /\ [e EXCEPT !.retry = n] \in EntryType
         /\ [e EXCEPT !.override = b, !.refused = c] \in EntryType
         /\ [e EXCEPT !.refused = b, !.override = c] \in EntryType
         /\ [e EXCEPT !.override = b, !.retry = n] \in EntryType
         /\ [e EXCEPT !.retry = n, !.history = h] \in EntryType
         /\ [e EXCEPT !.preempted = b, !.history = h] \in EntryType
         /\ [e EXCEPT !.preempted = b, !.retry = n, !.refused = c,
                      !.override = d] \in EntryType
  BY ZenonT(60) DEF EntryType

\* report_outcome leaves a well-typed entry.
LEMMA EntryAfterType ==
  ASSUME NEW e \in EntryType, NEW b \in BOOLEAN, NEW o
  PROVE  EntryAfter(e, b, o) \in EntryType
  BY TimerRange, EntryUpdateType DEF EntryAfter

\* So does the passing of time.
LEMMA DownType ==
  ASSUME NEW e \in EntryType
  PROVE  [e EXCEPT !.retry = Down(@), !.history = Down(@)] \in EntryType
<1>1. Down(e.retry) \in 0 .. RetryTicks /\ Down(e.history) \in -1 .. HistoryTicks
  BY DEF EntryType, Down
<1> QED
  BY <1>1, EntryUpdateType

\* requeue, which may give an attempt back, leaves a well-typed queue.
LEMMA RequeuedType ==
  ASSUME NEW q \in [Tasks -> TaskType], NEW t \in Tasks, NEW b \in BOOLEAN
  PROVE  Requeued(q, t, b) \in [Tasks -> TaskType]
<1> DEFINE n == IF ~b /\ q[t].attempts > 0 THEN q[t].attempts - 1 ELSE q[t].attempts
<1>1. n \in Nat
  BY DEF TaskType
<1> HIDE DEF n
<1>2. [q EXCEPT ![t].state = "queued", ![t].attempts = n] \in [Tasks -> TaskType]
  BY <1>1 DEF TaskType, TaskStates
<1> QED
  BY <1>2 DEF Requeued, n

\* So does any other move to a task state.
LEMMA MovedType ==
  ASSUME NEW q \in [Tasks -> TaskType], NEW t, NEW s \in TaskStates
  PROVE  Moved(q, t, s) \in [Tasks -> TaskType]
  BY DEF Moved, TaskType

\* A forgotten entry is well-typed.
LEMMA NoEntryType == NoEntry \in EntryType
  BY DEF EntryType, NoEntry, Never

\* A fresh entry is well-typed.
LEMMA NewEntryType == NewEntry \in EntryType
  BY NoEntryType DEF EntryType, NewEntry

\* The ways the pump moves from label to label.
LEMMA RestedType ==
  ASSUME NEW p \in PumpType, NEW l \in Labels \ Naming
  PROVE  Rested(p, l) \in PumpType
  BY DEF PumpType, Rested

\* A move to another label, with the candidate kept.
LEMMA GotoType ==
  ASSUME NEW p \in PumpType, NEW l \in Labels, l \in Naming => p.cur \in Tasks
  PROVE  [p EXCEPT !.pc = l] \in PumpType
  BY DEF PumpType

\* A move that names a task.
LEMMA NamedType ==
  ASSUME NEW p \in PumpType, NEW l \in Labels, NEW t \in Tasks,
         NEW b \in BOOLEAN
  PROVE  /\ [p EXCEPT !.pc = l, !.cur = t] \in PumpType
         /\ [p EXCEPT !.pc = l, !.cur = t, !.ok = b] \in PumpType
  BY DEF PumpType

\* A move to the next piece of running work, or past the last.
LEMMA NextVictimType ==
  ASSUME pump \in PumpType, NEW t
  PROVE  NextVictim(t) \in PumpType
  BY ZenonT(60) DEF PumpType, NextVictim, Labels, Naming

\* A move to the next candidate, or past the last.
LEMMA NextCandidateType ==
  ASSUME pump \in PumpType, NEW t
  PROVE  NextCandidate(t) \in PumpType
<1>1. Rested(pump, "rest") \in PumpType
  BY DEF Labels, Naming, PumpType, Rested
<1>2. [pump EXCEPT !.pc = "check", !.todo = @ \ {t}, !.cur = NoTask,
                   !.ok = FALSE] \in PumpType
  BY DEF PumpType, Labels, Naming
<1> QED
  BY <1>1, <1>2 DEF NextCandidate

\* Every step keeps every variable in its type.
LEMMA TypingStep == TypeOK /\ [Next]_vars => TypeOK'
<1> SUFFICES ASSUME TypeOK, [Next]_vars PROVE TypeOK'
  OBVIOUS
<1> USE DEF queueVars, entryVars, flagVars, workVars
<1>queue. queue \in [Tasks -> TaskType] /\ nextSeq \in Nat
  BY DEF TypeOK, QueueTypeOK
<1>lease. lease \in [Owners -> 0 .. LeaseTicks]
  BY DEF TypeOK, GovernorTypeOK
<1>entry. entry \in [Tasks -> EntryType] /\ inflight \subseteq Tasks
  BY DEF TypeOK
<1>pump. pump \in PumpType
  BY DEF TypeOK
<1>work. work \in [Tasks -> WorkType]
  BY DEF TypeOK
<1>worker. worker \in [Tasks -> WorkerType]
  BY DEF TypeOK
<1>cur. pump.pc \in Naming => pump.cur \in Tasks
  BY <1>pump DEF PumpType
<1>1. ASSUME NEW l \in Levels, Observe(l) PROVE TypeOK'
  <2>1. entry' \in [Tasks -> EntryType]
    BY <1>1, <1>entry, NoEntryType DEF Observe, EntryType, Stale
  <2>2. queue' \in [Tasks -> TaskType]
    BY <1>1, <1>queue DEF Observe, TaskType, TaskStates, Absent, Terminal, AfterForgetting, ForgottenFrom
  <2>3. lease' \in [Owners -> 0 .. LeaseTicks]
    BY <1>1, <1>lease DEF Observe, Owners, Renewed
  <2>4. pump' \in PumpType
    BY <1>1, <1>pump DEF Observe, PumpType, Labels, Naming
  <2> QED
    BY <1>1, <2>1, <2>2, <2>3, <2>4 DEF Observe, TypeOK, QueueTypeOK, GovernorTypeOK
<1>2. ASSUME NEW z \in Zones, Protect(z) PROVE TypeOK'
  <2>1. pump' \in PumpType
    <3> DEFINE n == IF pump.breaches < PreemptAfter THEN pump.breaches + 1
                                                    ELSE PreemptAfter
               S == {t \in inflight : entry[t].known}
    <3>1. n \in 0 .. PreemptAfter /\ 0 \in 0 .. PreemptAfter
      BY <1>pump DEF PumpType
    <3>2. S \subseteq Tasks
      BY <1>entry
    <3> HIDE DEF n, S
    <3>3. /\ [pump EXCEPT !.pc = "gate", !.breaches = 0, !.refusing = FALSE]
               \in PumpType
          /\ [pump EXCEPT !.pc = "gate", !.breaches = n] \in PumpType
          /\ [pump EXCEPT !.pc = "attribute", !.breaches = n,
                          !.refusing = TRUE, !.todo = S] \in PumpType
      BY <1>pump, <3>1, <3>2, ZenonT(60) DEF PumpType, Labels, Naming
    <3> QED
      BY <1>2, <3>3 DEF Protect, n, S
  <2> QED
    BY <1>2, <2>1 DEF Protect, TypeOK, QueueTypeOK, GovernorTypeOK
<1>3. ASSUME NEW t \in Tasks, Attribute(t) PROVE TypeOK'
  <2>1. pump' \in PumpType
    <3>1. NextVictim(t) \in PumpType
      BY <1>pump, NextVictimType, ZenonT(60)
    <3>2. [pump EXCEPT !.pc = "ask", !.cur = t] \in PumpType
      BY <1>pump, NamedType DEF Labels
    <3> QED
      BY <1>3, <3>1, <3>2 DEF Attribute
  <2>2. entry' \in [Tasks -> EntryType]
    <3>1. [entry[t] EXCEPT !.preempted = TRUE] \in EntryType
      BY <1>entry, EntryUpdateType, TimerRange
    <3> QED
      BY <1>3, <1>entry, <3>1 DEF Attribute
  <2> QED
    BY <1>3, <2>1, <2>2 DEF Attribute, TypeOK, QueueTypeOK, GovernorTypeOK
<1>4. CASE Ask
  <2>1. pump' \in PumpType
    <3> DEFINE b == CanStopRun(work[pump.cur])
    <3>1. b \in BOOLEAN
      BY DEF CanStopRun
    <3> HIDE DEF b
    <3>2. [pump EXCEPT !.pc = "settle", !.ok = b] \in PumpType
      BY <1>4, <1>pump, <1>cur, <3>1 DEF PumpType, Labels, Naming, Ask, At
    <3> QED
      BY <1>4, <3>2 DEF Ask, b
  <2>2. work' \in [Tasks -> WorkType]
    BY <1>4, <1>work, ZenonT(60) DEF Ask, WorkType, StopRun, CanStopRun
  <2> QED
    BY <1>4, <2>1, <2>2 DEF Ask, TypeOK, QueueTypeOK, GovernorTypeOK
<1>5. CASE Settle
  <2>1. entry' \in [Tasks -> EntryType]
    <3>1. pump.cur \in Tasks
      BY <1>5, <1>cur, ZenonT(60) DEF Settle, At, Naming
    <3>2. [entry[pump.cur] EXCEPT !.preempted = FALSE] \in EntryType
      BY <1>entry, <3>1, EntryUpdateType, TimerRange
    <3> QED
      BY <1>5, <1>entry, <3>1, <3>2 DEF Settle, Attribution
  <2>2. pump' \in PumpType
    BY <1>5, <1>pump, NextVictimType DEF Settle
  <2> QED
    BY <1>5, <2>1, <2>2 DEF Settle, TypeOK, QueueTypeOK, GovernorTypeOK
<1>6. CASE Gate
  <2>1. pump' \in PumpType
    BY <1>6, <1>pump, RestedType, GotoType DEF Gate, Labels, Naming
  <2> QED
    BY <1>6, <2>1 DEF Gate, TypeOK, QueueTypeOK, GovernorTypeOK
<1>7. CASE Scan
  <2>1. pump' \in PumpType
    BY <1>7, <1>pump, ZenonT(60) DEF Scan, PumpType, Labels, Naming, Rested, Candidates, Waiting
  <2> QED
    BY <1>7, <2>1 DEF Scan, TypeOK, QueueTypeOK, GovernorTypeOK
<1>8. ASSUME NEW t \in Tasks, NEW z \in Zones, Check(t, z) PROVE TypeOK'
  <2>1. pump' \in PumpType
    <3>1. FloorPasses(t, z) \in BOOLEAN
      BY DEF FloorPasses
    <3> QED
      BY <1>8, <1>pump, <3>1, NextCandidateType, NamedType
         DEF Check, Labels
  <2> QED
    BY <1>8, <2>1 DEF Check, TypeOK, QueueTypeOK, GovernorTypeOK
<1>9. CASE Decide
  <2>1. entry' \in [Tasks -> EntryType]
    <3> DEFINE e == entry[pump.cur]
               b == ~pump.ok
               c == e.override /\ pump.ok
    <3>1. e \in EntryType
      BY <1>9, <1>entry, <1>cur DEF Decide, At, Naming
    <3>2. b \in BOOLEAN /\ c \in BOOLEAN
      BY Zenon
    <3>3. [e EXCEPT !.refused = b, !.override = c] \in EntryType
      <4> HIDE DEF b, c, e
      <4> QED BY <3>1, <3>2, EntryUpdateType, TimerRange
    <3> QED
      BY <1>9, <1>entry, <3>3 DEF Decide
  <2>2. queue' \in [Tasks -> TaskType]
    BY <1>9, <1>queue, MovedType DEF Decide, TaskStates
  <2>3. pump' \in PumpType
    <3>1. pump.cur \in Tasks
      BY <1>9, <1>cur DEF Decide, At, Naming
    <3>2. \/ pump' = NextCandidate(pump.cur)
          \/ pump' = [pump EXCEPT !.pc = "request"]
          \/ pump' = Rested(pump, "rest")
      BY <1>9 DEF Decide, Goto
    <3>3. NextCandidate(pump.cur) \in PumpType
      BY <1>pump, <3>1, NextCandidateType
    <3>4. [pump EXCEPT !.pc = "request"] \in PumpType
      BY <1>pump, <3>1, GotoType DEF Labels
    <3>5. Rested(pump, "rest") \in PumpType
      BY <1>pump, RestedType DEF Labels, Naming
    <3> QED
      BY <3>2, <3>3, <3>4, <3>5
  <2> QED
    BY <1>9, <2>1, <2>2, <2>3 DEF Decide, TypeOK, QueueTypeOK, GovernorTypeOK
<1>10. ASSUME NEW p \in BOOLEAN, Request(p) PROVE TypeOK'
  <2>1. lease' \in [Owners -> 0 .. LeaseTicks]
    BY <1>10, <1>lease DEF Request, Owners, Reserved
  <2>2. pump' \in PumpType
    <3>1. \/ pump' = [pump EXCEPT !.pc = "launch"]
          \/ pump' = Rested(pump, "rest")
      BY <1>10 DEF Request, Goto
    <3>2. [pump EXCEPT !.pc = "launch"] \in PumpType
      BY <1>10, <1>pump, <1>cur, GotoType DEF Request, At, Labels, Naming
    <3>3. Rested(pump, "rest") \in PumpType
      BY <1>pump, RestedType DEF Labels, Naming
    <3> QED
      BY <3>1, <3>2, <3>3
  <2> QED
    BY <1>10, <2>1, <2>2 DEF Request, TypeOK, QueueTypeOK, GovernorTypeOK
<1>11. CASE Launch
  <2>1. queue' \in [Tasks -> TaskType]
    BY <1>11, <1>queue DEF Launch, TaskType, TaskStates, Absent, Terminal, Started
  <2>2. entry' \in [Tasks -> EntryType]
    <3>1. pump.cur \in Tasks
      BY <1>11, <1>cur DEF Launch, At, Naming
    <3>2. [entry[pump.cur] EXCEPT !.override = FALSE, !.retry = 0]
             \in EntryType
      BY <1>entry, <3>1, EntryUpdateType, TimerRange
    <3> QED
      BY <1>11, <1>entry, <3>1, <3>2, ZenonT(60) DEF Launch
  <2>3. pump' \in PumpType
    <3>1. \/ pump' = [pump EXCEPT !.pc = "handover"]
          \/ pump' = Rested(pump, "rest")
      BY <1>11 DEF Launch, Goto
    <3>2. [pump EXCEPT !.pc = "handover"] \in PumpType
      BY <1>11, <1>pump, <1>cur, GotoType DEF Launch, At, Labels, Naming
    <3>3. Rested(pump, "rest") \in PumpType
      BY <1>pump, RestedType DEF Labels, Naming
    <3> QED
      BY <3>1, <3>2, <3>3
  <2> QED
    BY <1>11, <2>1, <2>2, <2>3, <1>cur DEF Launch, At, Naming, TypeOK, QueueTypeOK, GovernorTypeOK
<1>12. ASSUME NEW p \in BOOLEAN, Handover(p) PROVE TypeOK'
  <2>1. worker' \in [Tasks -> WorkerType]
    BY <1>12, <1>worker DEF Handover, WorkerType, Outcomes
  <2>2. pump' \in PumpType
    BY <1>12, <1>pump, RestedType DEF Handover, Labels, Naming
  <2> QED
    BY <1>12, <2>1, <2>2 DEF Handover, TypeOK, QueueTypeOK, GovernorTypeOK
<1>13. CASE Rest
  <2>1. pump' \in PumpType
    BY <1>13, <1>pump DEF Rest, PumpType, Labels, Naming, Goto
  <2> QED
    BY <1>13, <2>1 DEF Rest, TypeOK, QueueTypeOK, GovernorTypeOK
<1>14. CASE WakeUp
  <2>1. pump' \in PumpType
    BY <1>14, <1>pump DEF WakeUp, PumpType, Labels, Naming, Goto
  <2> QED
    BY <1>14, <2>1 DEF WakeUp, TypeOK, QueueTypeOK, GovernorTypeOK
<1>15. CASE ClearWake
  <2>1. pump' \in PumpType
    BY <1>15, <1>pump DEF ClearWake, PumpType, Labels, Naming, Goto
  <2> QED
    BY <1>15, <2>1 DEF ClearWake, TypeOK, QueueTypeOK, GovernorTypeOK
<1>16. CASE Exit
  <2>1. pump' \in PumpType
    BY <1>16, <1>pump DEF Exit, PumpType, Labels, Naming, Goto
  <2> QED
    BY <1>16, <2>1 DEF Exit, TypeOK, QueueTypeOK, GovernorTypeOK
<1>17. ASSUME NEW t \in Tasks, Begin(t) PROVE TypeOK'
  <2>1. worker' \in [Tasks -> WorkerType]
    BY <1>17, <1>worker DEF Begin, WorkerType, Outcomes
  <2>2. work' \in [Tasks -> WorkType]
    BY <1>17, <1>work DEF Begin, WorkType
  <2> QED
    BY <1>17, <2>1, <2>2 DEF Begin, TypeOK, QueueTypeOK, GovernorTypeOK
<1>18. ASSUME NEW t \in Tasks, Commit(t) PROVE TypeOK'
  <2>1. work' \in [Tasks -> WorkType]
    BY <1>18, <1>work DEF Commit, WorkType
  <2> QED
    BY <1>18, <2>1 DEF Commit, TypeOK, QueueTypeOK, GovernorTypeOK
<1>19. ASSUME NEW t \in Tasks, NEW o \in Outcomes, Return(t, o) PROVE TypeOK'
  <2>1. worker' \in [Tasks -> WorkerType]
    BY <1>19, <1>worker DEF Return, WorkerType, Outcomes
  <2>2. work' \in [Tasks -> WorkType]
    BY <1>19, <1>work DEF Return, WorkType
  <2> QED
    BY <1>19, <2>1, <2>2 DEF Return, TypeOK, QueueTypeOK, GovernorTypeOK
<1>20. ASSUME NEW t \in Tasks, Report(t) PROVE TypeOK'
  <2>1. queue' \in [Tasks -> TaskType]
    <3> DEFINE o == worker[t].outcome
    <3>1. o \in TaskStates \/ o \in {"deferred", "yielded"}
      BY <1>20, <1>worker DEF Report, WorkerType, Outcomes, TaskStates, Terminal
    <3>2. Requeued(queue, t, o = "deferred" /\ ~entry[t].preempted)
             \in [Tasks -> TaskType]
      BY <1>queue, RequeuedType
    <3>3. o \in TaskStates => Moved(queue, t, o) \in [Tasks -> TaskType]
      BY <1>queue, MovedType
    <3>4. Reported(t, o) \in [Tasks -> TaskType]
      BY <1>queue, <3>1, <3>2, <3>3 DEF Reported
    <3> QED
      BY <1>20, <1>queue, <3>4 DEF Report
  <2>2. entry' \in [Tasks -> EntryType]
    <3>1. /\ EntryAfter(entry[t], State(t) = "running", worker[t].outcome)
               \in EntryType
          /\ [entry[t] EXCEPT !.preempted = FALSE] \in EntryType
      BY <1>entry, EntryAfterType, EntryUpdateType, TimerRange
    <3> QED
      BY <1>20, <1>entry, <3>1 DEF Report
  <2>3. worker' \in [Tasks -> WorkerType]
    BY <1>20, <1>worker DEF Report, WorkerType, Outcomes, NoWorker
  <2> QED
    BY <1>20, <2>1, <2>2, <2>3 DEF Report, TypeOK, QueueTypeOK, GovernorTypeOK
<1>21. ASSUME NEW t \in Tasks, Release(t) PROVE TypeOK'
  <2>1. lease' \in [Owners -> 0 .. LeaseTicks]
    BY <1>21, <1>lease DEF Release, Owners, Released
  <2> QED
    BY <1>21, <2>1 DEF Release, TypeOK, QueueTypeOK, GovernorTypeOK
<1>22. ASSUME NEW t \in Tasks, Submit(t) PROVE TypeOK'
  <2>1. queue' \in [Tasks -> TaskType]
    BY <1>22, <1>queue DEF Submit, TaskType, TaskStates, Absent, Terminal, Enter
  <2>2. entry' \in [Tasks -> EntryType]
    BY <1>22, <1>entry, NewEntryType DEF Submit
  <2> QED
    BY <1>22, <2>1, <2>2 DEF Submit, Enter, TypeOK, QueueTypeOK, GovernorTypeOK
<1>23. ASSUME NEW t \in Tasks, NEW s \in Restorable, NEW n \in 0 .. MaxAttempts, Restore(t, s, n) PROVE TypeOK'
  <2>1. queue' \in [Tasks -> TaskType]
    BY <1>23, <1>queue DEF Restore, TaskType, TaskStates, Absent, Terminal, Enter, Restorable
  <2>2. entry' \in [Tasks -> EntryType]
    BY <1>23, <1>entry, NewEntryType DEF Restore
  <2> QED
    BY <1>23, <2>1, <2>2 DEF Restore, Enter, TypeOK, QueueTypeOK, GovernorTypeOK
<1>24. ASSUME NEW t \in Tasks, PauseTask(t) PROVE TypeOK'
  <2>1. queue' \in [Tasks -> TaskType]
    BY <1>24, <1>queue DEF PauseTask, TaskType, TaskStates, Absent, Terminal, Moved
  <2>2. entry' \in [Tasks -> EntryType]
    BY <1>24, <1>entry, ZenonT(60) DEF PauseTask, EntryType
  <2> QED
    BY <1>24, <2>1, <2>2 DEF PauseTask, TypeOK, QueueTypeOK, GovernorTypeOK
<1>25. ASSUME NEW t \in Tasks, ResumeTask(t) PROVE TypeOK'
  <2>1. queue' \in [Tasks -> TaskType]
    BY <1>25, <1>queue, ZenonT(60) DEF ResumeTask, TaskType, TaskStates, Absent, Terminal, Resumed
  <2>2. entry' \in [Tasks -> EntryType]
    BY <1>25, <1>entry, EntryUpdateType, TimerRange DEF ResumeTask
  <2> QED
    BY <1>25, <2>1, <2>2 DEF ResumeTask, TypeOK, QueueTypeOK, GovernorTypeOK
<1>26. ASSUME NEW t \in Tasks, OverrideAsk(t) PROVE TypeOK'
  BY <1>26 DEF OverrideAsk, TypeOK, QueueTypeOK, GovernorTypeOK
<1>27. ASSUME NEW z \in Zones, OverrideAnswer(z) PROVE TypeOK'
  <2>1. entry' \in [Tasks -> EntryType]
    <3>1. reader \in Tasks
      BY <1>27 DEF OverrideAnswer, TypeOK
    <3>2. /\ [entry[reader] EXCEPT !.override = TRUE, !.refused = FALSE]
               \in EntryType
          /\ [entry[reader] EXCEPT !.refused = TRUE] \in EntryType
      BY <1>entry, <3>1, EntryUpdateType, TimerRange
    <3> QED
      BY <1>27, <1>entry, <3>1, <3>2 DEF OverrideAnswer
  <2> QED
    BY <1>27, <2>1 DEF OverrideAnswer, TypeOK, QueueTypeOK, GovernorTypeOK
<1>28. ASSUME NEW t \in Tasks, Cancel(t) PROVE TypeOK'
  <2>1. work' \in [Tasks -> WorkType]
    BY <1>28, <1>work, ZenonT(60) DEF Cancel, WorkType, EndWork
  <2>2. queue' \in [Tasks -> TaskType]
    BY <1>28, <1>queue DEF Cancel, TaskType, TaskStates, Absent, Terminal, Moved
  <2>3. entry' \in [Tasks -> EntryType]
    BY <1>28, <1>entry DEF Cancel, EntryType
  <2> QED
    BY <1>28, <2>1, <2>2, <2>3 DEF Cancel, TypeOK, QueueTypeOK, GovernorTypeOK
<1>29. ASSUME NEW b \in BOOLEAN, SetPaused(b) PROVE TypeOK'
  BY <1>29 DEF SetPaused, TypeOK, QueueTypeOK, GovernorTypeOK
<1>30. ASSUME NEW b \in BOOLEAN, SetRuntimePaused(b) PROVE TypeOK'
  <2>1. work' \in [Tasks -> WorkType]
    BY <1>30, <1>work DEF SetRuntimePaused, WorkType, InflightStopped, StopRun
  <2> QED
    BY <1>30, <2>1 DEF SetRuntimePaused, TypeOK, QueueTypeOK, GovernorTypeOK
<1>31. ASSUME NEW b \in BOOLEAN, SetBusy(b) PROVE TypeOK'
  <2>1. work' \in [Tasks -> WorkType]
    BY <1>31, <1>work DEF SetBusy, WorkType, InflightStopped, StopRun
  <2> QED
    BY <1>31, <2>1 DEF SetBusy, TypeOK, QueueTypeOK, GovernorTypeOK
<1>32. CASE StartPump
  <2>1. pump' \in PumpType
    BY <1>32, <1>pump DEF StartPump, PumpType, Labels, Naming, Goto
  <2> QED
    BY <1>32, <2>1 DEF StartPump, TypeOK, QueueTypeOK, GovernorTypeOK
<1>33. CASE Close
  BY <1>33 DEF Close, TypeOK, QueueTypeOK, GovernorTypeOK
<1>34. CASE InterruptRunning
  <2>1. queue' \in [Tasks -> TaskType]
    BY <1>34, <1>queue DEF InterruptRunning, TaskType, TaskStates, Absent, Terminal
  <2>2. work' \in [Tasks -> WorkType]
    BY <1>34, <1>work, ZenonT(60) DEF InterruptRunning, WorkType, EndWork
  <2> QED
    BY <1>34, <2>1, <2>2 DEF InterruptRunning, TypeOK, QueueTypeOK, GovernorTypeOK
<1>35. CASE AdvanceTime
  <2>1. lease' \in [Owners -> 0 .. LeaseTicks]
    <3>1. \A o \in Owners : lease[o] \in 0 .. LeaseTicks
      BY <1>lease
    <3>2. \A o \in Owners : lease[o] # 0 => lease[o] - 1 \in 0 .. LeaseTicks
      BY <3>1
    <3>3. Aged \in [Owners -> 0 .. LeaseTicks]
      BY <3>1, <3>2 DEF Aged
    <3> QED
      BY <1>35, <3>3 DEF AdvanceTime
  <2>2. entry' \in [Tasks -> EntryType]
    BY <1>35, <1>entry, DownType DEF AdvanceTime
  <2> QED
    BY <1>35, <2>1, <2>2 DEF AdvanceTime, TypeOK, QueueTypeOK, GovernorTypeOK
<1>36. CASE MediaRequest
  <2>1. lease' \in [Owners -> 0 .. LeaseTicks]
    BY <1>36, <1>lease DEF MediaRequest, Owners, Reserved
  <2> QED
    BY <1>36, <2>1 DEF MediaRequest, TypeOK, QueueTypeOK, GovernorTypeOK
<1>37. CASE MediaRelease
  <2>1. lease' \in [Owners -> 0 .. LeaseTicks]
    BY <1>37, <1>lease DEF MediaRelease, Owners, Released
  <2> QED
    BY <1>37, <2>1 DEF MediaRelease, TypeOK, QueueTypeOK, GovernorTypeOK
<1>38. CASE UNCHANGED vars
  BY <1>38 DEF vars, TypeOK, QueueTypeOK, GovernorTypeOK
<1> QED
  BY <1>1, <1>2, <1>3, <1>4, <1>5, <1>6, <1>7, <1>8, <1>9, <1>10, <1>11,
     <1>12, <1>13, <1>14, <1>15, <1>16, <1>17, <1>18, <1>19, <1>20, <1>21,
     <1>22, <1>23, <1>24, <1>25, <1>26, <1>27, <1>28, <1>29, <1>30, <1>31,
     <1>32, <1>33, <1>34, <1>35, <1>36, <1>37, <1>38
     DEF Next, PumpStep, WorkerStep, CommandStep, Ended

-----------------------------------------------------------------------------
(* The machine. *)

\* Where each step of the pump takes it, and whom it names there.
LEMMA PumpMoves ==
  ASSUME pump \in PumpType
  PROVE
    /\ \A l \in Levels : Observe(l) => pump'.pc = "protect"
    /\ \A z \in Zones : Protect(z) => pump'.pc \in {"gate", "attribute"}
    /\ \A t \in Tasks : Attribute(t) =>
          IF entry[t].preempted THEN pump'.pc \in {"gate", "attribute"}
          ELSE pump'.pc = "ask" /\ pump'.cur = t
    /\ Ask => /\ pump'.pc = "settle" /\ pump'.cur = pump.cur
              /\ pump'.ok = CanStopRun(work[pump.cur])
    /\ Settle => pump'.pc \in {"gate", "attribute"}
    /\ Gate => pump'.pc \in {"rest", "scan"}
    /\ Scan => pump'.pc \in {"rest", "check"} /\ (pump'.pc = "check" => MachineFree)
    /\ \A t \in Tasks, z \in Zones : Check(t, z) =>
          \/ pump'.pc \in {"rest", "check"}
          \/ pump'.pc = "decide" /\ pump'.cur = t /\ entry[t].known
    /\ Decide => \/ pump'.pc \in {"rest", "check"}
                 \/ /\ pump'.pc = "request" /\ pump'.cur = pump.cur
                    /\ ~TriedTooOften(pump.cur) /\ UNCHANGED queue
    /\ \A p \in BOOLEAN : Request(p) =>
          \/ pump'.pc = "rest" /\ UNCHANGED lease
          \/ /\ pump'.pc = "launch" /\ pump'.cur = pump.cur
             /\ Granted(pump.cur, p) /\ lease' = Reserved(pump.cur)
    /\ Launch =>
          \/ pump'.pc = "rest" /\ UNCHANGED <<queue, entry, inflight>>
          \/ /\ pump'.pc = "handover" /\ pump'.cur = pump.cur
             /\ CanMove(pump.cur, "running")
             /\ inflight' = inflight \cup {pump.cur}
             /\ queue' = Started(queue, pump.cur)
             /\ entry' = [entry EXCEPT ![pump.cur].override = FALSE,
                                       ![pump.cur].retry = 0]
    /\ \A p \in BOOLEAN : Handover(p) => pump'.pc = "rest"
    /\ Rest => /\ pump'.pc \in {"asleep", "top"}
               /\ pump'.pc = "asleep" => MachineFree
    /\ StartPump => pump'.pc = "top"
    /\ WakeUp => pump'.pc = "clear"
    /\ ClearWake => pump'.pc = "top"
    /\ Exit => pump'.pc = "exited"
<1>rest. Rested(pump, "rest").pc = "rest"
  BY DEF PumpType, Rested
<1>victim. \A t \in Tasks : NextVictim(t).pc \in {"gate", "attribute"}
  BY DEF PumpType, NextVictim
<1>next. \A t \in Tasks : NextCandidate(t).pc \in {"rest", "check"}
  BY <1>rest DEF PumpType, NextCandidate
<1>cur. pump.pc \in Naming => pump.cur \in Tasks
  BY DEF PumpType
<1>1. \A l \in Levels : Observe(l) => pump'.pc = "protect"
  BY DEF PumpType, Observe
<1>2. \A z \in Zones : Protect(z) => pump'.pc \in {"gate", "attribute"}
  BY DEF PumpType, Protect
<1>3. \A t \in Tasks : Attribute(t) =>
          IF entry[t].preempted THEN pump'.pc \in {"gate", "attribute"}
          ELSE pump'.pc = "ask" /\ pump'.cur = t
  <2>1. \A t \in Tasks : LET p == [pump EXCEPT !.pc = "ask", !.cur = t]
                         IN  p.pc = "ask" /\ p.cur = t
    BY DEF PumpType
  <2> QED
    BY <1>victim, <2>1 DEF Attribute
<1>4. Ask => /\ pump'.pc = "settle" /\ pump'.cur = pump.cur
             /\ pump'.ok = CanStopRun(work[pump.cur])
  BY DEF PumpType, Ask
<1>5. Settle => pump'.pc \in {"gate", "attribute"}
  BY <1>victim, <1>cur DEF Settle, At, Naming
<1>6. Gate => pump'.pc \in {"rest", "scan"}
  <2>1. [pump EXCEPT !.pc = "scan"].pc = "scan"
    BY DEF PumpType
  <2> QED
    BY <1>rest, <2>1 DEF Gate
<1>7. Scan => pump'.pc \in {"rest", "check"} /\ (pump'.pc = "check" => MachineFree)
  <2>1. [pump EXCEPT !.pc = "check", !.todo = Candidates].pc = "check"
    BY DEF PumpType
  <2> QED
    BY <1>rest, <2>1 DEF Scan
<1>8. \A t \in Tasks, z \in Zones : Check(t, z) =>
          \/ pump'.pc \in {"rest", "check"}
          \/ pump'.pc = "decide" /\ pump'.cur = t /\ entry[t].known
  <2>1. \A t \in Tasks, b \in BOOLEAN :
            LET p == [pump EXCEPT !.pc = "decide", !.cur = t, !.ok = b]
            IN  p.pc = "decide" /\ p.cur = t
    BY DEF PumpType
  <2>2. \A t \in Tasks, z \in Zones : FloorPasses(t, z) \in BOOLEAN
    BY DEF FloorPasses
  <2> QED
    BY <1>next, <2>1, <2>2 DEF Check
<1>goto. /\ [pump EXCEPT !.pc = "request"].pc = "request"
         /\ [pump EXCEPT !.pc = "request"].cur = pump.cur
         /\ [pump EXCEPT !.pc = "launch"].pc = "launch"
         /\ [pump EXCEPT !.pc = "launch"].cur = pump.cur
         /\ [pump EXCEPT !.pc = "handover"].pc = "handover"
         /\ [pump EXCEPT !.pc = "handover"].cur = pump.cur
  BY DEF PumpType
<1>9. Decide => \/ pump'.pc \in {"rest", "check"}
                \/ /\ pump'.pc = "request" /\ pump'.cur = pump.cur
                   /\ ~TriedTooOften(pump.cur) /\ UNCHANGED queue
  BY <1>rest, <1>next, <1>cur, <1>goto DEF Decide, Goto, At, Naming
<1>10. \A p \in BOOLEAN : Request(p) =>
          \/ pump'.pc = "rest" /\ UNCHANGED lease
          \/ /\ pump'.pc = "launch" /\ pump'.cur = pump.cur
             /\ Granted(pump.cur, p) /\ lease' = Reserved(pump.cur)
  BY <1>rest, <1>goto DEF Request, Goto
<1>11. Launch =>
          \/ pump'.pc = "rest" /\ UNCHANGED <<queue, entry, inflight>>
          \/ /\ pump'.pc = "handover" /\ pump'.cur = pump.cur
             /\ CanMove(pump.cur, "running")
             /\ inflight' = inflight \cup {pump.cur}
             /\ queue' = Started(queue, pump.cur)
             /\ entry' = [entry EXCEPT ![pump.cur].override = FALSE,
                                       ![pump.cur].retry = 0]
  BY <1>rest, <1>goto DEF Launch, Goto
<1>12. \A p \in BOOLEAN : Handover(p) => pump'.pc = "rest"
  BY <1>rest DEF Handover
<1>13. Rest => /\ pump'.pc \in {"asleep", "top"}
               /\ pump'.pc = "asleep" => MachineFree
  BY DEF PumpType, Rest, Goto, Idle
<1>14. /\ StartPump => pump'.pc = "top"
       /\ WakeUp => pump'.pc = "clear"
       /\ ClearWake => pump'.pc = "top"
       /\ Exit => pump'.pc = "exited"
  BY DEF PumpType, StartPump, WakeUp, ClearWake, Exit, Goto
<1> QED
  BY <1>1, <1>2, <1>3, <1>4, <1>5, <1>6, <1>7, <1>8, <1>9, <1>10, <1>11,
     <1>12, <1>13, <1>14

\* What a step may do to what occupies the machine, action by action.
LEMMA InflightStep ==
  ASSUME TypeOK, InvInflight, [Next]_vars
  PROVE  InvInflight'
<1> USE DEF queueVars, entryVars, flagVars, workVars
<1>t. /\ pump \in PumpType /\ inflight \subseteq Tasks
      /\ worker \in [Tasks -> WorkerType]
  BY DEF TypeOK
<1>cur. pump.pc \in Naming => pump.cur \in Tasks
  BY <1>t DEF PumpType
<1>same. ASSUME UNCHANGED <<pump, inflight, worker>> PROVE InvInflight'
  BY <1>same DEF InvInflight, OnMachine
<1>walk. ASSUME UNCHANGED <<inflight, worker>>, pump.pc # "handover",
                pump'.pc # "handover",
                pump'.pc \in Choosing \cup {"asleep"} => inflight = {}
         PROVE  InvInflight'
  BY <1>walk DEF InvInflight, OnMachine
<1>1. ASSUME NEW l \in Levels, Observe(l) PROVE InvInflight'
  BY <1>1, <1>t, PumpMoves, <1>walk DEF Observe, At, Choosing
<1>2. ASSUME NEW z \in Zones, Protect(z) PROVE InvInflight'
  BY <1>2, <1>t, PumpMoves, <1>walk DEF Protect, At, Choosing
<1>3. ASSUME NEW t \in Tasks, Attribute(t) PROVE InvInflight'
  BY <1>3, <1>t, PumpMoves, <1>walk DEF Attribute, At, Choosing
<1>4. CASE Ask
  BY <1>4, <1>t, PumpMoves, <1>walk DEF Ask, At, Choosing
<1>5. CASE Settle
  BY <1>5, <1>t, PumpMoves, <1>walk DEF Settle, At, Choosing
<1>6. CASE Gate
  BY <1>6, <1>t, PumpMoves, <1>walk DEF Gate, At, Choosing
<1>7. CASE Scan
  BY <1>7, <1>t, PumpMoves, <1>walk DEF Scan, At, Choosing, MachineFree
<1>8. ASSUME NEW t \in Tasks, NEW z \in Zones, Check(t, z) PROVE InvInflight'
  <2>1. inflight = {}
    BY <1>8 DEF Check, At, InvInflight, Choosing
  <2> QED
    BY <1>8, <2>1, <1>t, PumpMoves, <1>walk DEF Check, At, Choosing
<1>9. CASE Decide
  <2>1. inflight = {}
    BY <1>9 DEF Decide, At, InvInflight, Choosing
  <2> QED
    BY <1>9, <2>1, <1>t, PumpMoves, <1>walk DEF Decide, At, Choosing
<1>10. ASSUME NEW p \in BOOLEAN, Request(p) PROVE InvInflight'
  <2>1. inflight = {}
    BY <1>10 DEF Request, At, InvInflight, Choosing
  <2> QED
    BY <1>10, <2>1, <1>t, PumpMoves, <1>walk DEF Request, At, Choosing
<1>11. CASE Launch
  <2>1. /\ inflight = {} /\ pump.pc = "launch" /\ UNCHANGED worker
        /\ pump.cur \in Tasks
        /\ \A t \in Tasks : ~OnMachine(t)
    BY <1>11, <1>cur DEF Launch, At, InvInflight, Choosing, Naming
  <2>2. CASE pump'.pc = "rest" /\ UNCHANGED inflight
    BY <2>1, <2>2, <1>walk DEF Choosing
  <2>3. CASE /\ pump'.pc = "handover" /\ pump'.cur = pump.cur
             /\ inflight' = inflight \cup {pump.cur}
    BY <2>1, <2>3 DEF InvInflight, OnMachine, Choosing
  <2> QED
    BY <1>11, <1>t, <2>2, <2>3, PumpMoves
<1>12. ASSUME NEW p \in BOOLEAN, Handover(p) PROVE InvInflight'
  <2>1. /\ pump.pc = "handover" /\ pump.cur \in Tasks /\ pump'.pc = "rest"
        /\ inflight' = inflight /\ inflight = {pump.cur}
    <3>1. pump.pc = "handover" /\ inflight' = inflight
      BY <1>12 DEF Handover, At
    <3>2. pump.cur \in Tasks
      BY <3>1, <1>cur DEF Naming
    <3>3. pump'.pc = "rest"
      BY <1>12, <1>t, PumpMoves
    <3>4. inflight = {pump.cur}
      BY <3>1, <3>2, <1>t DEF InvInflight
    <3> QED
      BY <3>1, <3>2, <3>3, <3>4
  <2>2. /\ worker'[pump.cur].pc # "none"
        /\ \A t \in Tasks \ {pump.cur} : worker'[t] = worker[t]
    BY <1>12, <1>t, <2>1 DEF Handover
  <2> QED
    BY <2>1, <2>2 DEF InvInflight, OnMachine, Choosing
<1>13. CASE Rest
  BY <1>13, <1>t, PumpMoves, <1>walk DEF Rest, At, Choosing, MachineFree
<1>14. CASE WakeUp
  BY <1>14, <1>t, PumpMoves, <1>walk DEF WakeUp, At, Choosing
<1>15. CASE ClearWake
  BY <1>15, <1>t, PumpMoves, <1>walk DEF ClearWake, At, Choosing
<1>16. CASE Exit
  BY <1>16, <1>t, PumpMoves, <1>walk DEF Exit, At, Choosing
<1>17. ASSUME NEW t \in Tasks, Begin(t) PROVE InvInflight'
  BY <1>17, <1>t DEF Begin, InvInflight, OnMachine, WorkerType
<1>18. CASE StartPump
  BY <1>18, <1>t, PumpMoves, <1>walk DEF StartPump, At, Choosing
<1>19. ASSUME NEW t \in Tasks, NEW o \in Outcomes, Return(t, o) PROVE InvInflight'
  BY <1>19, <1>t DEF Return, InvInflight, OnMachine, WorkerType
<1>20. ASSUME NEW t \in Tasks, Report(t) PROVE InvInflight'
  BY <1>20, <1>t DEF Report, NoWorker, InvInflight, OnMachine, WorkerType, Choosing
<1>21. CASE \/ \E t \in Tasks : Commit(t) \/ Release(t)
            \/ CommandStep /\ ~StartPump
            \/ AdvanceTime \/ MediaRequest \/ MediaRelease \/ Ended
            \/ UNCHANGED vars
  <2>1. UNCHANGED <<pump, inflight, worker>>
    BY <1>21 DEF Commit, Release, CommandStep, Submit, Restore, PauseTask,
       ResumeTask, OverrideAsk, OverrideAnswer, Cancel, SetPaused,
       SetRuntimePaused, SetBusy, Close, InterruptRunning, AdvanceTime,
       MediaRequest, MediaRelease, Ended, vars
  <2> QED
    BY <2>1, <1>same, SMTT(30)
<1> QED
  BY <1>1, <1>2, <1>3, <1>4, <1>5, <1>6, <1>7, <1>8, <1>9, <1>10, <1>11,
     <1>12, <1>13, <1>14, <1>15, <1>16, <1>17, <1>18, <1>19, <1>20, <1>21
     DEF Next, PumpStep, WorkerStep

-----------------------------------------------------------------------------
(* The work. *)

\* What a stop does to a piece of work: it is remembered, it takes no answer
\* back, and it neither begins nor removes a run.
LEMMA StopFacts ==
  ASSUME NEW w \in WorkType
  PROVE  /\ EndWork(w).cancelled = (w.cancelled \/ ~w.committed)
         /\ EndWork(w).committed = w.committed
         /\ EndWork(w).run = "none" <=> w.run = "none"
         /\ StopRun(w).cancelled = w.cancelled
         /\ StopRun(w).committed = w.committed
         /\ StopRun(w).run = "none" <=> w.run = "none"
<1>1. CASE w.committed
  BY <1>1 DEF WorkType, EndWork, StopRun, CanStopRun
<1>2. CASE ~w.committed
  <2>1. \A s \in {"none", "live", "stopped"} :
            LET v == [w EXCEPT !.cancelled = TRUE, !.run = s]
            IN  v.cancelled /\ v.committed = w.committed /\ v.run = s
    BY DEF WorkType
  <2>2. w.run \in {"none", "live", "stopped"}
    BY DEF WorkType
  <2>3. /\ EndWork(w).cancelled /\ EndWork(w).committed = w.committed
        /\ EndWork(w).run = "none" <=> w.run = "none"
    BY <1>2, <2>1, <2>2 DEF EndWork
  <2>4. LET v == [w EXCEPT !.run = "stopped"]
        IN  v.cancelled = w.cancelled /\ v.committed = w.committed /\ v.run = "stopped"
    BY DEF WorkType
  <2> QED
    BY <1>2, <2>3, <2>4 DEF StopRun, CanStopRun
<1> QED
  BY <1>1, <1>2

\* The same of the stop sent to everything in flight.
LEMMA StoppedWork ==
  ASSUME work \in [Tasks -> WorkType], NEW t \in Tasks
  PROVE  /\ InflightStopped[t].cancelled = work[t].cancelled
         /\ InflightStopped[t].committed = work[t].committed
         /\ InflightStopped[t].run = "none" <=> work[t].run = "none"
  BY StopFacts DEF InflightStopped

\* Running tasks are in flight, and what is in flight is remembered.
LEMMA RunningStep ==
  ASSUME TypeOK, InvInflight, InvRunning, [Next]_vars
  PROVE  InvRunning'
<1> USE DEF queueVars, entryVars, flagVars, workVars
<1>t. /\ pump \in PumpType /\ inflight \subseteq Tasks
      /\ queue \in [Tasks -> TaskType] /\ entry \in [Tasks -> EntryType]
      /\ work \in [Tasks -> WorkType] /\ worker \in [Tasks -> WorkerType]
  BY DEF TypeOK, QueueTypeOK
<1>cur. pump.pc \in Naming => pump.cur \in Tasks
  BY <1>t DEF PumpType
<1> DEFINE Picked == {"decide", "request", "launch"}
<1>gen. ASSUME inflight' = inflight,
               \A t \in Tasks : queue'[t].state = "running" => State(t) = "running",
               \A t \in inflight : queue'[t].state \notin Absent,
               \A t \in Tasks : entry[t].known => entry'[t].known \/
                                 (t \notin inflight /\ pump'.pc \notin Picked),
               \A t \in inflight : queue'[t].state # "running" =>
                                 State(t) # "running" \/ work'[t].cancelled,
               \A t \in Tasks : work[t].cancelled => work'[t].cancelled,
               pump'.pc \in Picked => entry'[pump'.cur].known
        PROVE  InvRunning'
  BY <1>gen, <1>t DEF InvRunning, State, Present
<1>walk. ASSUME UNCHANGED <<queue, entry, inflight>>,
                \A t \in Tasks : work[t].cancelled => work'[t].cancelled,
                pump'.pc \in Picked => entry[pump'.cur].known
         PROVE  InvRunning'
  BY <1>walk, <1>t DEF InvRunning, State, Present
<1>flag. ASSUME UNCHANGED <<queue, inflight, work>>,
                \A u \in Tasks : entry[u].known => entry'[u].known,
                pump'.pc \in Picked => pump' = pump
         PROVE  InvRunning'
  BY <1>flag, <1>t, <1>cur DEF InvRunning, State, Present, Naming
<1> HIDE DEF Picked
<1>kept. \A e \in EntryType : \A b, c :
             /\ [e EXCEPT !.preempted = b].known = e.known
             /\ [e EXCEPT !.refused = b].known = e.known
             /\ [e EXCEPT !.override = b].known = e.known
             /\ [e EXCEPT !.history = b].known = e.known
             /\ [e EXCEPT !.retry = b].known = e.known
             /\ [e EXCEPT !.retry = b, !.history = c].known = e.known
             /\ [e EXCEPT !.override = b, !.refused = c].known = e.known
             /\ [e EXCEPT !.refused = b, !.override = c].known = e.known
             /\ [e EXCEPT !.override = b, !.retry = c].known = e.known
  BY DEF EntryType
<1>end. \A u \in Tasks :
            EndWork(work[u]).cancelled = (work[u].cancelled \/ ~work[u].committed)
  BY <1>t, StopFacts
<1>1. ASSUME NEW l \in Levels, Observe(l) PROVE InvRunning'
  <2>1. /\ \A t \in Tasks : /\ queue'[t].state = "running" => State(t) = "running"
                            /\ t \in inflight => queue'[t] = queue[t]
    BY <1>1, <1>t DEF Observe, AfterForgetting, ForgottenFrom, State, TaskType
  <2>2. \A t \in inflight : entry'[t] = entry[t]
    BY <1>1, <1>t DEF Observe, Stale
  <2>3. pump'.pc \notin Picked
    BY <1>1, <1>t, PumpMoves DEF Picked
  <2> QED
    BY <1>1, <1>t, <2>1, <2>2, <2>3, <1>gen DEF Observe, InvRunning, State, Present
<1>2. ASSUME NEW z \in Zones, Protect(z) PROVE InvRunning'
  BY <1>2, <1>t, PumpMoves, <1>walk DEF Protect, Picked
<1>3. ASSUME NEW t \in Tasks, Attribute(t) PROVE InvRunning'
  <2>1. \A u \in Tasks : entry'[u].known = entry[u].known
    BY <1>3, <1>t DEF Attribute, EntryType
  <2> QED
    BY <1>3, <2>1, <1>t, PumpMoves, <1>flag DEF Attribute, Picked
<1>4. CASE Ask
  <2>1. \A t \in Tasks : work'[t].cancelled = work[t].cancelled
    BY <1>4, <1>t, <1>cur, StopFacts DEF Ask
  <2> QED
    BY <1>4, <2>1, <1>t, PumpMoves, <1>walk DEF Ask, Picked
<1>5. CASE Settle
  <2>1. \A u \in Tasks : entry'[u].known = entry[u].known
    BY <1>5, <1>t, <1>kept DEF Settle, Attribution
  <2> QED
    BY <1>5, <2>1, <1>t, PumpMoves, <1>flag DEF Settle, Picked
<1>6. CASE Gate
  BY <1>6, <1>t, PumpMoves, <1>walk DEF Gate, Picked
<1>7. CASE Scan
  BY <1>7, <1>t, PumpMoves, <1>walk DEF Scan, Picked
<1>8. ASSUME NEW t \in Tasks, NEW z \in Zones, Check(t, z) PROVE InvRunning'
  BY <1>8, <1>t, PumpMoves, <1>walk DEF Check, Picked
<1>9. CASE Decide
  <2>1. /\ inflight' = inflight /\ inflight = {} /\ pump.pc = "decide"
        /\ pump.cur \in Tasks /\ entry[pump.cur].known /\ work' = work
    BY <1>9, <1>cur DEF Decide, At, Naming, InvInflight, Choosing, InvRunning
  <2>2. \A u \in Tasks : entry'[u].known = entry[u].known
    BY <1>9, <1>t, <1>kept DEF Decide
  <2>3. \A u \in Tasks : queue'[u].state = "running" => State(u) = "running"
    BY <1>9, <1>t DEF Decide, Moved, State, TaskType
  <2>4. pump'.pc \in Picked => pump'.cur = pump.cur
    BY <1>9, <1>t, PumpMoves DEF Picked
  <2> QED
    BY <2>1, <2>2, <2>3, <2>4, <1>gen
<1>10. ASSUME NEW p \in BOOLEAN, Request(p) PROVE InvRunning'
  <2>1. entry[pump.cur].known
    BY <1>10 DEF Request, At, InvRunning
  <2> QED
    BY <1>10, <2>1, <1>t, PumpMoves, <1>walk DEF Request, Picked
<1>11. CASE Launch
  <2>1. /\ inflight = {} /\ pump.pc = "launch" /\ UNCHANGED work
        /\ pump.cur \in Tasks /\ entry[pump.cur].known
        /\ \A t \in Tasks : State(t) # "running"
    BY <1>11, <1>cur DEF Launch, At, InvInflight, InvRunning, Choosing, Naming
  <2>2. CASE pump'.pc = "rest" /\ UNCHANGED <<queue, entry, inflight>>
    BY <2>1, <2>2, <1>walk DEF Picked
  <2>3. CASE /\ pump'.pc = "handover" /\ pump'.cur = pump.cur
             /\ inflight' = inflight \cup {pump.cur}
             /\ queue' = Started(queue, pump.cur)
             /\ entry' = [entry EXCEPT ![pump.cur].override = FALSE,
                                       ![pump.cur].retry = 0]
    <3>1. entry'[pump.cur].known
      BY <2>1, <2>3, <1>t, <1>kept
    <3>2. /\ queue'[pump.cur].state = "running"
          /\ \A t \in Tasks \ {pump.cur} : queue'[t].state # "running"
      BY <2>1, <2>3, <1>t DEF Started, State, TaskType
    <3> QED
      BY <2>1, <2>3, <3>1, <3>2 DEF InvRunning, State, Present, Absent
  <2> QED
    BY <1>11, <1>t, <2>2, <2>3, PumpMoves
<1>12. ASSUME NEW p \in BOOLEAN, Handover(p) PROVE InvRunning'
  BY <1>12, <1>t, PumpMoves, <1>walk DEF Handover, Picked
<1>13. CASE Rest
  BY <1>13, <1>t, PumpMoves, <1>walk DEF Rest, Picked
<1>14. CASE WakeUp
  BY <1>14, <1>t, PumpMoves, <1>walk DEF WakeUp, Picked
<1>15. CASE ClearWake
  BY <1>15, <1>t, PumpMoves, <1>walk DEF ClearWake, Picked
<1>16. CASE Exit
  BY <1>16, <1>t, PumpMoves, <1>walk DEF Exit, Picked
<1>17. CASE StartPump
  BY <1>17, <1>t, PumpMoves, <1>walk DEF StartPump, Picked
<1>still. ASSUME UNCHANGED <<queue, entry, inflight, pump>>,
                 \A t \in Tasks : work[t].cancelled => work'[t].cancelled
          PROVE  InvRunning'
  BY <1>still, <1>t DEF InvRunning, State, Present
<1>18. ASSUME NEW t \in Tasks, Begin(t) PROVE InvRunning'
  BY <1>18, <1>t, <1>still DEF Begin, WorkType
<1>19. ASSUME NEW t \in Tasks, Commit(t) PROVE InvRunning'
  BY <1>19, <1>t, <1>still DEF Commit, WorkType
<1>20. ASSUME NEW t \in Tasks, NEW o \in Outcomes, Return(t, o) PROVE InvRunning'
  BY <1>20, <1>t, <1>still DEF Return, WorkType
<1>21. ASSUME NEW t \in Tasks, Report(t) PROVE InvRunning'
  <2>1. /\ inflight' = inflight \ {t} /\ UNCHANGED <<pump, work>>
    BY <1>21 DEF Report
  <2>2. \A u \in Tasks \ {t} : queue'[u] = queue[u] /\ entry'[u] = entry[u]
    BY <1>21, <1>t DEF Report, Reported, Moved, Requeued
  <2>3. t \in inflight /\ entry[t].known
    BY <1>21, <1>t DEF Report, InvInflight, OnMachine, InvRunning
  <2>4. queue'[t].state # "running"
    <3>1. worker[t].outcome \in Outcomes
      BY <1>21, <1>t DEF Report, WorkerType
    <3>2. queue' = Reported(t, worker[t].outcome)
      BY <1>21, <2>3 DEF Report
    <3> QED
      BY <3>1, <3>2, <1>t DEF Reported, Moved, Requeued, State, TaskType, Outcomes
  <2>5. entry'[t].known
    <3>1. \A b \in BOOLEAN : \A o : EntryAfter(entry[t], b, o).known = entry[t].known
      BY <1>t DEF EntryAfter, EntryType
    <3> QED
      BY <1>21, <1>t, <2>3, <3>1 DEF Report, InvRunning
  <2> QED
    BY <2>1, <2>2, <2>3, <2>4, <2>5, <1>t, <1>cur DEF InvRunning, State, Present, Naming
<1>22. ASSUME NEW t \in Tasks, NEW s \in Restorable, NEW n, Enter(t, s, n),
              entry' = [entry EXCEPT ![t] = NewEntry],
              UNCHANGED <<inflight, pump, work>>
       PROVE  InvRunning'
  <2>1. t \notin inflight
    BY <1>22 DEF Enter, InvRunning, Present, Absent
  <2>2. /\ queue'[t].state # "running" /\ entry'[t].known
        /\ \A u \in Tasks \ {t} : queue'[u] = queue[u] /\ entry'[u] = entry[u]
    BY <1>22, <1>t DEF Enter, Restorable, NewEntry, NoEntry
  <2> QED
    BY <1>22, <2>1, <2>2, <1>t, <1>cur DEF InvRunning, State, Present, Naming
<1>23. ASSUME NEW t \in Tasks, Submit(t) PROVE InvRunning'
  BY <1>23, <1>22 DEF Submit, Restorable
<1>24. ASSUME NEW t \in Tasks, NEW s \in Restorable, NEW n, Restore(t, s, n)
       PROVE  InvRunning'
  BY <1>24, <1>22 DEF Restore
<1>25. ASSUME NEW t \in Tasks, PauseTask(t) PROVE InvRunning'
  <2>1. /\ queue'[t].state = "paused" /\ State(t) = "queued"
        /\ \A u \in Tasks \ {t} : queue'[u] = queue[u]
    BY <1>25, <1>t DEF PauseTask, Moved, TaskType
  <2>2. \A u \in Tasks : entry'[u].known = entry[u].known
    BY <1>25, <1>t, <1>kept DEF PauseTask
  <2> QED
    BY <1>25, <2>1, <2>2, <1>t, <1>cur DEF PauseTask, InvRunning, State, Present, Absent, Naming
<1>26. ASSUME NEW t \in Tasks, ResumeTask(t) PROVE InvRunning'
  <2>1. /\ queue'[t].state = "queued" /\ State(t) # "running"
        /\ \A u \in Tasks \ {t} : queue'[u] = queue[u]
    BY <1>26, <1>t DEF ResumeTask, Resumed, TaskType
  <2>2. \A u \in Tasks : entry'[u].known = entry[u].known
    BY <1>26, <1>t, <1>kept DEF ResumeTask
  <2> QED
    BY <1>26, <2>1, <2>2, <1>t, <1>cur DEF ResumeTask, InvRunning, State, Present, Absent, Naming
<1>27. ASSUME NEW z \in Zones, OverrideAnswer(z) PROVE InvRunning'
  <2>1. \A u \in Tasks : entry'[u].known = entry[u].known
    <3>r. reader \in Tasks
      BY <1>27 DEF OverrideAnswer, TypeOK
    <3>1. CASE FloorPasses(reader, z)
      <4>1. entry' = [entry EXCEPT ![reader] =
                        [@ EXCEPT !.override = TRUE, !.refused = FALSE]]
        BY <1>27, <3>1 DEF OverrideAnswer
      <4> QED
        BY <4>1, <3>r, <1>t, <1>kept
    <3>2. CASE ~FloorPasses(reader, z)
      <4>1. entry' = [entry EXCEPT ![reader] = [@ EXCEPT !.refused = TRUE]]
        BY <1>27, <3>2 DEF OverrideAnswer
      <4> QED
        BY <4>1, <3>r, <1>t, <1>kept
    <3> QED
      BY <3>1, <3>2
  <2> QED
    BY <1>27, <2>1, <1>t, <1>cur DEF OverrideAnswer, InvRunning, State, Present, Naming
<1>28. ASSUME NEW t \in Tasks, Cancel(t) PROVE InvRunning'
  <2>1. \A u \in Tasks : entry'[u].known = entry[u].known
    BY <1>28, <1>t DEF Cancel, EntryType
  <2>2. \A u \in Tasks : work[u].cancelled => work'[u].cancelled
    BY <1>28, <1>t, <1>end DEF Cancel
  <2>3. \A u \in Tasks \ {t} : queue'[u] = queue[u]
    BY <1>28, <1>t DEF Cancel, Moved
  <2>4. /\ queue'[t].state \in {State(t), "cancelled"}
        /\ t \in inflight /\ State(t) = "running" /\ queue'[t].state # "running"
              => work'[t].cancelled
    <3>1. CASE CancelLands(t)
      <4>1. queue'[t].state = "cancelled"
        BY <1>28, <3>1, <1>t DEF Cancel, Moved, TaskType
      <4>2. t \in inflight /\ State(t) = "running" => work'[t].cancelled
        BY <1>28, <3>1, <1>t, <1>end DEF Cancel, CancelLands, InvRunning
      <4> QED
        BY <4>1, <4>2
    <3>2. CASE ~CancelLands(t)
      BY <1>28, <3>2 DEF Cancel, State
    <3> QED
      BY <3>1, <3>2
  <2> QED
    BY <1>28, <2>1, <2>2, <2>3, <2>4, <1>t, <1>cur
       DEF Cancel, InvRunning, State, Present, Absent, Naming
<1>29. ASSUME NEW b \in BOOLEAN, SetRuntimePaused(b) \/ SetBusy(b) PROVE InvRunning'
  BY <1>29, <1>t, <1>still, StoppedWork DEF SetRuntimePaused, SetBusy
<1>30. CASE InterruptRunning
  <2>1. \A t \in Tasks : /\ work[t].cancelled => work'[t].cancelled
                         /\ State(t) = "running" /\ ~work[t].committed
                               => work'[t].cancelled
    BY <1>30, <1>t, <1>end DEF InterruptRunning, Running, InvRunning
  <2>2. \A t \in Tasks : \/ queue'[t] = queue[t]
                         \/ /\ State(t) = "running" /\ ~work[t].committed
                            /\ queue'[t].state = "interrupted"
    BY <1>30, <1>t DEF InterruptRunning, Interruptible, Running, InvRunning, TaskType
  <2> QED
    BY <1>30, <2>1, <2>2, <1>t, <1>cur
       DEF InterruptRunning, InvRunning, State, Present, Absent, Naming
<1>31. CASE AdvanceTime
  <2>1. \A u \in Tasks : entry'[u].known = entry[u].known
    BY <1>31, <1>t, ZenonT(60) DEF AdvanceTime, EntryType
  <2> QED
    BY <1>31, <2>1, <1>t, <1>cur DEF AdvanceTime, InvRunning, State, Present, Naming
<1>32. CASE \/ \E t \in Tasks : Release(t) \/ OverrideAsk(t)
            \/ \E b \in BOOLEAN : SetPaused(b)
            \/ Close \/ MediaRequest \/ MediaRelease \/ Ended
            \/ UNCHANGED vars
  <2>1. UNCHANGED <<queue, entry, inflight, pump, work>>
    BY <1>32 DEF Release, OverrideAsk, SetPaused, Close, MediaRequest,
       MediaRelease, Ended, vars
  <2> QED
    BY <2>1, <1>still
<1> QED
  BY <1>1, <1>2, <1>3, <1>4, <1>5, <1>6, <1>7, <1>8, <1>9, <1>10, <1>11,
     <1>12, <1>13, <1>14, <1>15, <1>16, <1>17, <1>18, <1>19, <1>20, <1>21,
     <1>23, <1>24, <1>25, <1>26, <1>27, <1>28, <1>29, <1>30, <1>31, <1>32
     DEF Next, PumpStep, WorkerStep, CommandStep

\* Only a live run commits, and a committed answer is never taken back.
LEMMA CommitStep ==
  ASSUME TypeOK, InvInflight, InvRunning, InvCommit, [Next]_vars
  PROVE  InvCommit'
<1> USE DEF queueVars, entryVars, flagVars, workVars
<1>t. /\ pump \in PumpType /\ inflight \subseteq Tasks
      /\ queue \in [Tasks -> TaskType]
      /\ work \in [Tasks -> WorkType] /\ worker \in [Tasks -> WorkerType]
  BY DEF TypeOK, QueueTypeOK
<1>cur. pump.pc \in Naming => pump.cur \in Tasks
  BY <1>t DEF PumpType
<1>gen. ASSUME UNCHANGED worker,
               \A t \in Tasks : /\ work'[t].committed = work[t].committed
                                /\ work[t].run = "none" => work'[t].run = "none",
               \A t \in Tasks : work[t].committed =>
                    \/ queue'[t].state = State(t)
                    \/ State(t) \in Terminal /\ queue'[t].state = "forgotten"
        PROVE  InvCommit'
  BY <1>gen DEF InvCommit, State
<1>work. ASSUME UNCHANGED worker, UNCHANGED queue,
                \A t \in Tasks : /\ work'[t].committed = work[t].committed
                                 /\ work[t].run = "none" => work'[t].run = "none"
         PROVE  InvCommit'
  BY <1>work, <1>gen DEF State
<1>move. ASSUME UNCHANGED <<worker, work>>, NEW t \in Tasks,
                State(t) \in {"new", "queued", "paused", "interrupted"},
                \A u \in Tasks \ {t} : queue'[u] = queue[u]
         PROVE  InvCommit'
  BY <1>move, <1>gen DEF InvCommit, State
<1>still. ASSUME UNCHANGED <<queue, work, worker>> PROVE InvCommit'
  BY <1>still DEF InvCommit, State
<1>end. \A u \in Tasks : /\ EndWork(work[u]).committed = work[u].committed
                         /\ EndWork(work[u]).run = "none" <=> work[u].run = "none"
                         /\ StopRun(work[u]).committed = work[u].committed
                         /\ StopRun(work[u]).run = "none" <=> work[u].run = "none"
  BY <1>t, StopFacts
<1>1. ASSUME NEW l \in Levels, Observe(l) PROVE InvCommit'
  <2>1. \A t \in Tasks : \/ queue'[t].state = State(t)
                         \/ State(t) \in Terminal /\ queue'[t].state = "forgotten"
    BY <1>1, <1>t DEF Observe, AfterForgetting, ForgottenFrom, State, TaskType
  <2> QED
    BY <1>1, <2>1, <1>gen DEF Observe
<1>2. CASE Ask
  <2>1. pump.cur \in Tasks
    BY <1>2, <1>cur DEF Ask, At, Naming
  <2> QED
    BY <1>2, <2>1, <1>t, <1>end, <1>work DEF Ask
<1>3. CASE Decide
  <2>1. pump.cur \in Tasks
    BY <1>3, <1>cur DEF Decide, At, Naming
  <2>2. CASE UNCHANGED queue
    BY <1>3, <2>2, <1>still DEF Decide
  <2>3. CASE CanMove(pump.cur, "paused") /\ queue' = Moved(queue, pump.cur, "paused")
    <3>1. State(pump.cur) = "queued"
      BY <2>1, <2>3, <1>t DEF CanMove, Allowed, State, TaskType
    <3> QED
      BY <1>3, <2>1, <2>3, <3>1, <1>t, <1>move DEF Decide, Moved
  <2> QED
    BY <1>3, <2>2, <2>3 DEF Decide
<1>4. CASE Launch
  <2>1. pump.cur \in Tasks
    BY <1>4, <1>cur DEF Launch, At, Naming
  <2>2. CASE UNCHANGED queue
    BY <1>4, <2>2, <1>still DEF Launch
  <2>3. CASE CanMove(pump.cur, "running") /\ queue' = Started(queue, pump.cur)
    <3>1. State(pump.cur) = "queued"
      BY <2>1, <2>3, <1>t DEF CanMove, Allowed, State, TaskType
    <3> QED
      BY <1>4, <2>1, <2>3, <3>1, <1>t, <1>move DEF Launch, Started
  <2> QED
    BY <1>4, <2>2, <2>3 DEF Launch
<1>5. ASSUME NEW p \in BOOLEAN, Handover(p) PROVE InvCommit'
  <2>1. pump.cur \in Tasks /\ worker[pump.cur].pc = "none"
    BY <1>5, <1>cur DEF Handover, At, Naming, InvInflight, OnMachine
  <2>2. UNCHANGED <<queue, work>> /\ \A u \in Tasks \ {pump.cur} : worker'[u] = worker[u]
    BY <1>5, <1>t DEF Handover
  <2> QED
    BY <2>1, <2>2 DEF InvCommit, State
<1>6. ASSUME NEW t \in Tasks, Begin(t) PROVE InvCommit'
  <2>1. /\ worker[t].pc = "handed" /\ UNCHANGED queue
        /\ \A u \in Tasks \ {t} : worker'[u] = worker[u] /\ work'[u] = work[u]
    BY <1>6, <1>t DEF Begin
  <2>2. work[t].run = "none" /\ ~(work[t].committed /\ State(t) = "running")
    BY <2>1 DEF InvCommit
  <2>3. CASE UNCHANGED work
    BY <2>1, <2>2, <2>3 DEF InvCommit, State
  <2>4. CASE /\ ~work[t].committed
             /\ worker' = [worker EXCEPT ![t].pc = "running"]
             /\ work' = [work EXCEPT ![t].run = "live"]
    <3>1. worker'[t].pc = "running" /\ work'[t].committed = work[t].committed
      BY <2>4, <1>t DEF WorkType, WorkerType
    <3> QED
      BY <2>1, <2>4, <3>1 DEF InvCommit, State
  <2> QED
    BY <1>6, <2>3, <2>4 DEF Begin
<1>7. ASSUME NEW t \in Tasks, Commit(t) PROVE InvCommit'
  <2>1. worker[t].pc = "running" /\ ~work[t].cancelled
    BY <1>7 DEF Commit, MayCommit
  <2>2. State(t) = "running"
    BY <2>1 DEF InvInflight, InvRunning, OnMachine
  <2>3. /\ UNCHANGED <<queue, worker>>
        /\ \A u \in Tasks \ {t} : work'[u] = work[u]
    BY <1>7, <1>t DEF Commit
  <2> QED
    BY <2>1, <2>2, <2>3 DEF InvCommit, State
<1>8. ASSUME NEW t \in Tasks, NEW o \in Outcomes, Return(t, o) PROVE InvCommit'
  <2>1. /\ UNCHANGED queue
        /\ \A u \in Tasks \ {t} : worker'[u] = worker[u] /\ work'[u] = work[u]
        /\ worker'[t] = [pc |-> "returned", outcome |-> o]
    BY <1>8, <1>t DEF Return
  <2>2. work'[t].run = "none" /\ work'[t].committed = work[t].committed
    BY <1>8, <1>t DEF Return, WorkType
  <2>3. work[t].committed => o \in {"done", "failed"}
    BY <1>8 DEF Return
  <2> QED
    BY <2>1, <2>2, <2>3 DEF InvCommit, State
<1>9. ASSUME NEW t \in Tasks, Report(t) PROVE InvCommit'
  <2>1. /\ worker[t].pc = "returned" /\ UNCHANGED work
        /\ \A u \in Tasks \ {t} : worker'[u] = worker[u]
    BY <1>9, <1>t DEF Report
  <2>2. \A u \in Tasks \ {t} : queue'[u] = queue[u]
    BY <1>9, <1>t DEF Report, Reported, Moved, Requeued
  <2>3. t \in inflight /\ entry[t].known
    BY <2>1 DEF InvInflight, OnMachine, InvRunning
  <2>4. work[t].run = "none"
    BY <2>1 DEF InvCommit
  <2>5. work[t].committed => queue'[t].state \in {"done", "failed", "forgotten"}
    <3> SUFFICES ASSUME work[t].committed
                 PROVE  queue'[t].state \in {"done", "failed", "forgotten"}
      OBVIOUS
    <3>1. queue' = Reported(t, worker[t].outcome)
      BY <1>9, <2>3 DEF Report
    <3>2. CASE State(t) = "running"
      <4>1. worker[t].outcome \in {"done", "failed"}
        BY <2>1, <3>2 DEF InvCommit
      <4> QED
        BY <3>1, <3>2, <4>1, <1>t DEF Reported, Moved, TaskType
    <3>3. CASE State(t) # "running"
      BY <3>1, <3>3 DEF Reported, InvCommit, State
    <3> QED
      BY <3>2, <3>3
  <2> QED
    BY <2>1, <2>2, <2>4, <2>5 DEF InvCommit, State
<1>10. ASSUME NEW t \in Tasks, Submit(t) PROVE InvCommit'
  BY <1>10, <1>t, <1>move DEF Submit, Enter
<1>11. ASSUME NEW t \in Tasks, NEW s, NEW n, Restore(t, s, n) PROVE InvCommit'
  BY <1>11, <1>t, <1>move DEF Restore, Enter
<1>12. ASSUME NEW t \in Tasks, PauseTask(t) PROVE InvCommit'
  BY <1>12, <1>t, <1>move DEF PauseTask, Moved
<1>13. ASSUME NEW t \in Tasks, ResumeTask(t) PROVE InvCommit'
  BY <1>13, <1>t, <1>move DEF ResumeTask, Resumed
<1>14. ASSUME NEW t \in Tasks, Cancel(t) PROVE InvCommit'
  <2>1. \A u \in Tasks : /\ work'[u].committed = work[u].committed
                         /\ work[u].run = "none" => work'[u].run = "none"
    BY <1>14, <1>t, <1>end DEF Cancel
  <2>2. \A u \in Tasks \ {t} : queue'[u] = queue[u]
    BY <1>14, <1>t DEF Cancel, Moved
  <2>3. work[t].committed => queue' = queue
    <3>1. work[t].committed => ~CancelLands(t)
      BY <1>t DEF CancelLands, CanMove, Allowed, InvCommit, TaskStates, Terminal, Absent
    <3> QED
      BY <1>14, <3>1 DEF Cancel
  <2> QED
    BY <1>14, <2>1, <2>2, <2>3, <1>gen DEF Cancel, State
<1>15. ASSUME NEW b \in BOOLEAN, SetRuntimePaused(b) \/ SetBusy(b) PROVE InvCommit'
  BY <1>15, <1>t, <1>work, StoppedWork DEF SetRuntimePaused, SetBusy
<1>16. CASE InterruptRunning
  <2>1. \A t \in Tasks : /\ work'[t].committed = work[t].committed
                         /\ work[t].run = "none" => work'[t].run = "none"
    BY <1>16, <1>t, <1>end DEF InterruptRunning
  <2>2. \A t \in Tasks : work[t].committed => queue'[t] = queue[t]
    BY <1>16, <1>t DEF InterruptRunning, Interruptible, Running, InvRunning
  <2> QED
    BY <1>16, <2>1, <2>2, <1>gen DEF InterruptRunning, State
<1>17. CASE \/ \E z \in Zones : Protect(z) \/ OverrideAnswer(z)
            \/ \E t \in Tasks : Attribute(t) \/ Release(t) \/ OverrideAsk(t)
            \/ \E t \in Tasks, z \in Zones : Check(t, z)
            \/ \E b \in BOOLEAN : Request(b) \/ SetPaused(b)
            \/ Settle \/ Gate \/ Scan \/ Rest \/ WakeUp \/ ClearWake \/ Exit
            \/ StartPump \/ Close \/ AdvanceTime \/ MediaRequest
            \/ MediaRelease \/ Ended \/ UNCHANGED vars
  <2>1. UNCHANGED <<queue, work, worker>>
    BY <1>17 DEF Protect, OverrideAnswer, Attribute, Release, OverrideAsk,
       Check, Request, SetPaused, Settle, Gate, Scan, Rest, WakeUp, ClearWake,
       Exit, StartPump, Close, AdvanceTime, MediaRequest, MediaRelease, Ended,
       vars
  <2> QED
    BY <2>1, <1>still
<1> QED
  BY <1>1, <1>2, <1>3, <1>4, <1>5, <1>6, <1>7, <1>8, <1>9, <1>10, <1>11,
     <1>12, <1>13, <1>14, <1>15, <1>16, <1>17
     DEF Next, PumpStep, WorkerStep, CommandStep

-----------------------------------------------------------------------------
(* Attempts. *)

\* Attempts grow only when a task is admitted, and the pump admits none that
\* has used them up, whatever commands came between its check and the start.
LEMMA AttemptsStep ==
  ASSUME TypeOK, InvAttempts, [Next]_vars
  PROVE  InvAttempts'
<1> USE DEF queueVars, entryVars, flagVars, workVars
<1>t. pump \in PumpType /\ queue \in [Tasks -> TaskType]
  BY DEF TypeOK, QueueTypeOK
<1>n. \A t \in Tasks : queue[t].attempts \in Nat
  BY <1>t DEF TaskType
<1>cur. pump.pc \in Naming => pump.cur \in Tasks
  BY <1>t DEF PumpType
<1> DEFINE Chosen == {"request", "launch"}
<1>gen. ASSUME \A t \in Tasks : /\ queue'[t].attempts \in Nat
                                /\ queue'[t].attempts <= queue[t].attempts,
               phase' = "starting" => phase = "starting" /\ pump' = pump,
               pump'.pc \in Chosen => pump.pc \in Chosen /\ pump'.cur = pump.cur
        PROVE  InvAttempts'
  BY <1>gen, <1>n, <1>cur DEF InvAttempts, AttemptsBounded, Naming
<1>still. ASSUME UNCHANGED <<queue, pump>>,
                 phase' = "starting" => phase = "starting"
          PROVE  InvAttempts'
  BY <1>still DEF InvAttempts, AttemptsBounded
<1>walk. ASSUME UNCHANGED <<queue, phase>>, pump.pc # "unstarted",
                pump'.pc \notin Chosen
         PROVE  InvAttempts'
  BY <1>walk DEF InvAttempts, AttemptsBounded
<1>open. pump.pc # "unstarted" => phase # "starting"
  BY DEF InvAttempts
<1> HIDE DEF Chosen
<1>1. ASSUME NEW l \in Levels, Observe(l) PROVE InvAttempts'
  <2>1. \A t \in Tasks : queue'[t].attempts = queue[t].attempts
    BY <1>1, <1>t DEF Observe, AfterForgetting, ForgottenFrom, TaskType
  <2> QED
    BY <1>1, <2>1, <1>n, <1>t, <1>open, <1>gen, PumpMoves DEF Observe, At, Chosen
<1>2. ASSUME NEW z \in Zones, Protect(z) PROVE InvAttempts'
  BY <1>2, <1>t, <1>walk, PumpMoves DEF Protect, At, Chosen
<1>3. ASSUME NEW t \in Tasks, Attribute(t) PROVE InvAttempts'
  BY <1>3, <1>t, <1>walk, PumpMoves DEF Attribute, At, Chosen
<1>4. CASE Ask
  BY <1>4, <1>t, <1>walk, PumpMoves DEF Ask, At, Chosen
<1>5. CASE Settle
  BY <1>5, <1>t, <1>walk, PumpMoves DEF Settle, At, Chosen
<1>6. CASE Gate
  BY <1>6, <1>t, <1>walk, PumpMoves DEF Gate, At, Chosen
<1>7. CASE Scan
  BY <1>7, <1>t, <1>walk, PumpMoves DEF Scan, At, Chosen
<1>8. ASSUME NEW t \in Tasks, NEW z \in Zones, Check(t, z) PROVE InvAttempts'
  BY <1>8, <1>t, <1>walk, PumpMoves DEF Check, At, Chosen
<1>9. CASE Decide
  <2>1. pump.cur \in Tasks /\ phase # "starting" /\ UNCHANGED phase
    BY <1>9, <1>cur, <1>open DEF Decide, At, Naming
  <2>2. CASE /\ pump'.pc = "request" /\ pump'.cur = pump.cur
             /\ ~TriedTooOften(pump.cur) /\ UNCHANGED queue
    BY <2>1, <2>2, <1>n DEF InvAttempts, AttemptsBounded, TriedTooOften
  <2>3. CASE pump'.pc \in {"rest", "check"}
    <3>1. \A t \in Tasks : queue'[t].attempts = queue[t].attempts
      BY <1>9, <1>t DEF Decide, Moved, TaskType
    <3> QED
      BY <2>1, <2>3, <3>1, <1>n, <1>gen DEF Chosen
  <2> QED
    BY <1>9, <1>t, <2>2, <2>3, PumpMoves
<1>10. ASSUME NEW p \in BOOLEAN, Request(p) PROVE InvAttempts'
  <2>1. UNCHANGED <<queue, phase>> /\ pump.pc = "request"
    BY <1>10 DEF Request, At
  <2>2. pump'.pc \in Chosen => pump'.cur = pump.cur
    BY <1>10, <1>t, PumpMoves DEF Chosen
  <2> QED
    BY <2>1, <2>2, <1>n, <1>open, <1>gen DEF Chosen
<1>11. CASE Launch
  <2>1. pump.cur \in Tasks /\ phase # "starting" /\ UNCHANGED phase
    BY <1>11, <1>cur, <1>open DEF Launch, At, Naming
  <2>2. CASE pump'.pc = "rest" /\ UNCHANGED queue
    BY <2>1, <2>2, <1>n, <1>gen DEF Chosen
  <2>3. CASE pump'.pc = "handover" /\ queue' = Started(queue, pump.cur)
    <3>1. queue[pump.cur].attempts < MaxAttempts
      BY <1>11 DEF Launch, At, InvAttempts
    <3>2. /\ queue'[pump.cur].attempts = queue[pump.cur].attempts + 1
          /\ \A t \in Tasks \ {pump.cur} : queue'[t] = queue[t]
      BY <2>1, <2>3, <1>t DEF Started, TaskType
    <3> QED
      BY <2>1, <2>3, <3>1, <3>2, <1>n DEF InvAttempts, AttemptsBounded
  <2> QED
    BY <1>11, <1>t, <2>2, <2>3, PumpMoves
<1>12. ASSUME NEW p \in BOOLEAN, Handover(p) PROVE InvAttempts'
  BY <1>12, <1>t, <1>walk, PumpMoves DEF Handover, At, Chosen
<1>13. CASE Rest
  BY <1>13, <1>t, <1>walk, PumpMoves DEF Rest, At, Chosen
<1>14. CASE WakeUp
  BY <1>14, <1>t, <1>walk, PumpMoves DEF WakeUp, At, Chosen
<1>15. CASE ClearWake
  BY <1>15, <1>t, <1>walk, PumpMoves DEF ClearWake, At, Chosen
<1>16. CASE Exit
  BY <1>16, <1>t, <1>walk, PumpMoves DEF Exit, At, Chosen
<1>17. CASE StartPump
  <2>1. UNCHANGED queue /\ phase' = "open" /\ pump'.pc = "top"
    BY <1>17, <1>t, PumpMoves DEF StartPump
  <2> QED
    BY <2>1, <1>n, <1>gen DEF Chosen
<1>less. ASSUME NEW t \in Tasks, UNCHANGED <<pump, phase>>,
                \A u \in Tasks \ {t} : queue'[u] = queue[u],
                queue'[t].attempts \in Nat,
                queue'[t].attempts <= queue[t].attempts
         PROVE  InvAttempts'
  BY <1>less, <1>n, <1>gen
<1>18. ASSUME NEW t \in Tasks, Report(t) PROVE InvAttempts'
  <2>1. \A u \in Tasks \ {t} : queue'[u] = queue[u]
    BY <1>18, <1>t DEF Report, Reported, Moved, Requeued
  <2>2. \A b \in BOOLEAN : /\ Requeued(queue, t, b)[t].attempts \in Nat
                           /\ Requeued(queue, t, b)[t].attempts <= queue[t].attempts
    <3>1. \A m \in Nat : [queue EXCEPT ![t].state = "queued", ![t].attempts = m][t].attempts = m
      BY <1>t DEF TaskType
    <3> QED
      BY <1>n, <3>1 DEF Requeued
  <2>3. \A o \in Outcomes : Moved(queue, t, o)[t].attempts = queue[t].attempts
    BY <1>t DEF Moved, TaskType
  <2>4. worker[t].outcome \in Outcomes
    BY <1>18 DEF Report, TypeOK, WorkerType
  <2>5. queue'[t].attempts \in Nat /\ queue'[t].attempts <= queue[t].attempts
    <3> DEFINE b == worker[t].outcome = "deferred" /\ ~entry[t].preempted
    <3>1. b \in BOOLEAN
      OBVIOUS
    <3>2. \/ queue' = queue
          \/ queue' = Requeued(queue, t, b)
          \/ queue' = Moved(queue, t, worker[t].outcome)
      BY <1>18 DEF Report, Reported
    <3> HIDE DEF b
    <3> QED
      BY <1>n, <2>2, <2>3, <2>4, <3>1, <3>2
  <2> QED
    BY <1>18, <2>1, <2>5, <1>less DEF Report
<1>19. ASSUME NEW t \in Tasks, Submit(t) PROVE InvAttempts'
  <2>1. /\ queue'[t].attempts = 0
        /\ \A u \in Tasks \ {t} : queue'[u] = queue[u]
    BY <1>19, <1>t DEF Submit, Enter
  <2> QED
    BY <1>19, <2>1, <1>n, <1>less DEF Submit
<1>20. ASSUME NEW t \in Tasks, NEW s, NEW n \in 0 .. MaxAttempts, Restore(t, s, n)
       PROVE  InvAttempts'
  <2>1. /\ queue'[t].attempts = n
        /\ \A u \in Tasks \ {t} : queue'[u] = queue[u]
    BY <1>20, <1>t DEF Restore, Enter
  <2>2. pump.pc = "unstarted" /\ UNCHANGED <<phase, pump>>
    BY <1>20 DEF Restore, InvAttempts
  <2> QED
    BY <2>1, <2>2, <1>n DEF InvAttempts, AttemptsBounded
<1>21. ASSUME NEW t \in Tasks, PauseTask(t) PROVE InvAttempts'
  <2>1. /\ queue'[t].attempts = queue[t].attempts
        /\ \A u \in Tasks \ {t} : queue'[u] = queue[u]
    BY <1>21, <1>t DEF PauseTask, Moved, TaskType
  <2> QED
    BY <1>21, <2>1, <1>n, <1>less DEF PauseTask
<1>22. ASSUME NEW t \in Tasks, ResumeTask(t) PROVE InvAttempts'
  <2>1. /\ queue'[t].attempts = 0
        /\ \A u \in Tasks \ {t} : queue'[u] = queue[u]
    BY <1>22, <1>t DEF ResumeTask, Resumed, TaskType
  <2> QED
    BY <1>22, <2>1, <1>n, <1>less DEF ResumeTask
<1>23. ASSUME NEW t \in Tasks, Cancel(t) PROVE InvAttempts'
  <2>1. /\ queue'[t].attempts = queue[t].attempts
        /\ \A u \in Tasks \ {t} : queue'[u] = queue[u]
    BY <1>23, <1>t DEF Cancel, Moved, TaskType
  <2> QED
    BY <1>23, <2>1, <1>n, <1>less DEF Cancel
<1>24. CASE InterruptRunning
  <2>1. \A t \in Tasks : queue'[t].attempts = queue[t].attempts
    BY <1>24, <1>t DEF InterruptRunning, TaskType
  <2> QED
    BY <1>24, <2>1, <1>n, <1>gen DEF InterruptRunning
<1>25. CASE \/ \E z \in Zones : OverrideAnswer(z)
            \/ \E t \in Tasks : OverrideAsk(t) \/ Begin(t) \/ Commit(t)
                                 \/ Release(t) \/ \E o \in Outcomes : Return(t, o)
            \/ \E b \in BOOLEAN : SetPaused(b) \/ SetRuntimePaused(b) \/ SetBusy(b)
            \/ Close \/ AdvanceTime \/ MediaRequest
            \/ MediaRelease \/ Ended \/ UNCHANGED vars
  <2>1. UNCHANGED <<queue, pump>> /\ (phase' = phase \/ phase' = "stopping")
    BY <1>25 DEF OverrideAnswer, Begin, Commit, Return, Release, OverrideAsk,
       SetPaused, SetRuntimePaused, SetBusy, Close, AdvanceTime, MediaRequest,
       MediaRelease, Ended, vars
  <2> QED
    BY <2>1, <1>still, SMTT(30)
<1> QED
  BY <1>1, <1>2, <1>3, <1>4, <1>5, <1>6, <1>7, <1>8, <1>9, <1>10, <1>11,
     <1>12, <1>13, <1>14, <1>15, <1>16, <1>17, <1>18, <1>19, <1>20, <1>21,
     <1>22, <1>23, <1>24, <1>25
     DEF Next, PumpStep, WorkerStep, CommandStep

-----------------------------------------------------------------------------
(* Safety stops. *)

\* An attribution is withdrawn or consumed before the run it was made for is
\* over.
LEMMA PreemptedStep ==
  ASSUME TypeOK, InvInflight, InvCommit, InvPreempted, [Next]_vars
  PROVE  InvPreempted'
<1> USE DEF queueVars, entryVars, flagVars, workVars
<1>t. /\ pump \in PumpType /\ inflight \subseteq Tasks
      /\ entry \in [Tasks -> EntryType]
  BY DEF TypeOK
<1>cur. pump.pc \in Naming => pump.cur \in Tasks
  BY <1>t DEF PumpType
<1> DEFINE Asking == {"ask", "settle"}
<1>walk. ASSUME \A t \in Tasks : entry'[t].preempted => entry[t].preempted,
                inflight \subseteq inflight',
                pump.pc \notin Asking, pump'.pc \notin Asking
         PROVE  InvPreempted'
  BY <1>walk DEF InvPreempted, NoStalePreemption
<1>still. ASSUME \A t \in Tasks : entry'[t].preempted => entry[t].preempted,
                 UNCHANGED <<inflight, pump>>
          PROVE  InvPreempted'
  BY <1>still, <1>cur DEF InvPreempted, NoStalePreemption, Naming
<1> HIDE DEF Asking
<1>kept. \A e \in EntryType : \A b, c :
             /\ [e EXCEPT !.refused = b].preempted = e.preempted
             /\ [e EXCEPT !.override = b].preempted = e.preempted
             /\ [e EXCEPT !.history = b].preempted = e.preempted
             /\ [e EXCEPT !.retry = b, !.history = c].preempted = e.preempted
             /\ [e EXCEPT !.override = b, !.refused = c].preempted = e.preempted
             /\ [e EXCEPT !.refused = b, !.override = c].preempted = e.preempted
             /\ [e EXCEPT !.override = b, !.retry = c].preempted = e.preempted
  BY DEF EntryType
<1>1. ASSUME NEW l \in Levels, Observe(l) PROVE InvPreempted'
  <2>1. \A t \in Tasks : entry'[t].preempted => entry[t].preempted
    BY <1>1, <1>t DEF Observe, NoEntry
  <2> QED
    BY <1>1, <2>1, <1>t, <1>walk, PumpMoves DEF Observe, At, Asking
<1>2. ASSUME NEW z \in Zones, Protect(z) PROVE InvPreempted'
  BY <1>2, <1>t, <1>walk, PumpMoves DEF Protect, At, Asking
<1>3. ASSUME NEW t \in Tasks, Attribute(t) PROVE InvPreempted'
  <2>1. CASE entry[t].preempted
    BY <1>3, <2>1, <1>t, <1>walk, PumpMoves DEF Attribute, At, Asking
  <2>2. CASE ~entry[t].preempted
    <3>1. pump'.pc = "ask" /\ pump'.cur = t
      BY <1>3, <2>2, <1>t, PumpMoves
    <3>2. \A u \in Tasks \ {t} : entry'[u] = entry[u]
      BY <1>3, <2>2, <1>t DEF Attribute
    <3>3. UNCHANGED inflight /\ pump.pc = "attribute"
      BY <1>3 DEF Attribute, At
    <3> QED
      BY <3>1, <3>2, <3>3 DEF InvPreempted, NoStalePreemption
  <2> QED
    BY <2>1, <2>2
<1>4. CASE Ask
  <2>1. /\ pump.pc = "ask" /\ pump.cur \in Tasks /\ pump'.cur = pump.cur
        /\ pump'.pc = "settle" /\ UNCHANGED <<entry, inflight>>
        /\ pump'.ok = CanStopRun(work[pump.cur])
    BY <1>4, <1>t, <1>cur, PumpMoves DEF Ask, At, Naming
  <2>2. pump'.ok => pump.cur \in inflight
    BY <2>1 DEF CanStopRun, InvCommit, InvInflight, OnMachine
  <2> QED
    BY <2>1, <2>2 DEF InvPreempted, NoStalePreemption
<1>5. CASE Settle
  <2>1. /\ pump.pc = "settle" /\ pump.cur \in Tasks /\ UNCHANGED inflight
        /\ pump'.pc \in {"gate", "attribute"}
    BY <1>5, <1>t, <1>cur, PumpMoves DEF Settle, At, Naming
  <2>2. CASE pump.ok
    BY <1>5, <2>1, <2>2 DEF Settle, Attribution, InvPreempted, NoStalePreemption
  <2>3. CASE ~pump.ok
    <3>1. /\ entry'[pump.cur].preempted = FALSE
          /\ \A u \in Tasks \ {pump.cur} : entry'[u] = entry[u]
      BY <1>5, <2>1, <2>3, <1>t DEF Settle, Attribution, EntryType
    <3> QED
      BY <2>1, <3>1 DEF InvPreempted, NoStalePreemption
  <2> QED
    BY <2>2, <2>3
<1>6. CASE Gate
  BY <1>6, <1>t, <1>walk, PumpMoves DEF Gate, At, Asking
<1>7. CASE Scan
  BY <1>7, <1>t, <1>walk, PumpMoves DEF Scan, At, Asking
<1>8. ASSUME NEW t \in Tasks, NEW z \in Zones, Check(t, z) PROVE InvPreempted'
  BY <1>8, <1>t, <1>walk, PumpMoves DEF Check, At, Asking
<1>9. CASE Decide
  <2>1. \A u \in Tasks : entry'[u].preempted = entry[u].preempted
    BY <1>9, <1>t, <1>kept DEF Decide
  <2> QED
    BY <1>9, <2>1, <1>t, <1>walk, PumpMoves DEF Decide, At, Asking
<1>10. ASSUME NEW p \in BOOLEAN, Request(p) PROVE InvPreempted'
  BY <1>10, <1>t, <1>walk, PumpMoves DEF Request, At, Asking
<1>11. CASE Launch
  <2>1. /\ \A u \in Tasks : entry'[u].preempted = entry[u].preempted
        /\ inflight \subseteq inflight'
    BY <1>11, <1>t DEF Launch, EntryType
  <2> QED
    BY <1>11, <2>1, <1>t, <1>walk, PumpMoves DEF Launch, At, Asking
<1>12. ASSUME NEW p \in BOOLEAN, Handover(p) PROVE InvPreempted'
  BY <1>12, <1>t, <1>walk, PumpMoves DEF Handover, At, Asking
<1>13. CASE Rest
  BY <1>13, <1>t, <1>walk, PumpMoves DEF Rest, At, Asking
<1>14. CASE WakeUp
  BY <1>14, <1>t, <1>walk, PumpMoves DEF WakeUp, At, Asking
<1>15. CASE ClearWake
  BY <1>15, <1>t, <1>walk, PumpMoves DEF ClearWake, At, Asking
<1>16. CASE Exit
  BY <1>16, <1>t, <1>walk, PumpMoves DEF Exit, At, Asking
<1>17. CASE StartPump
  BY <1>17, <1>t, <1>walk, PumpMoves DEF StartPump, At, Asking
<1>18. ASSUME NEW t \in Tasks, Report(t) PROVE InvPreempted'
  <2>1. /\ inflight' = inflight \ {t} /\ UNCHANGED pump
        /\ \A u \in Tasks \ {t} : entry'[u] = entry[u]
    BY <1>18, <1>t DEF Report
  <2>2. \A b \in BOOLEAN : \A o : ~EntryAfter(entry[t], b, o).preempted
    BY <1>t DEF EntryAfter, EntryType
  <2>3. ~[entry[t] EXCEPT !.preempted = FALSE].preempted
    BY <1>t DEF EntryType
  <2>4. ~entry'[t].preempted
    <3> DEFINE b == State(t) = "running"
    <3>1. b \in BOOLEAN
      OBVIOUS
    <3>2. \/ entry'[t] = EntryAfter(entry[t], b, worker[t].outcome)
          \/ entry'[t] = [entry[t] EXCEPT !.preempted = FALSE]
      BY <1>18, <1>t DEF Report
    <3> HIDE DEF b
    <3> QED
      BY <2>2, <2>3, <3>1, <3>2
  <2> QED
    BY <2>1, <2>4, <1>cur DEF InvPreempted, NoStalePreemption, Naming
<1>19. ASSUME NEW t \in Tasks, entry' = [entry EXCEPT ![t] = NewEntry],
              UNCHANGED <<inflight, pump>>
       PROVE  InvPreempted'
  <2>1. \A u \in Tasks : entry'[u].preempted => entry[u].preempted
    BY <1>19, <1>t DEF NewEntry, NoEntry
  <2> QED
    BY <1>19, <2>1, <1>still
<1>20. ASSUME NEW t \in Tasks, Submit(t) PROVE InvPreempted'
  BY <1>20, <1>19 DEF Submit
<1>21. ASSUME NEW t \in Tasks, NEW s, NEW n, Restore(t, s, n) PROVE InvPreempted'
  BY <1>21, <1>19 DEF Restore
<1>22. ASSUME NEW t \in Tasks, PauseTask(t) PROVE InvPreempted'
  BY <1>22, <1>t, <1>kept, <1>still DEF PauseTask
<1>23. ASSUME NEW t \in Tasks, ResumeTask(t) PROVE InvPreempted'
  BY <1>23, <1>t, <1>kept, <1>still DEF ResumeTask
<1>24. ASSUME NEW t \in Tasks, Cancel(t) PROVE InvPreempted'
  <2>1. \A u \in Tasks : entry'[u].preempted => entry[u].preempted
    BY <1>24, <1>t DEF Cancel, EntryType
  <2> QED
    BY <1>24, <2>1, <1>still DEF Cancel
<1>25. ASSUME NEW z \in Zones, OverrideAnswer(z) PROVE InvPreempted'
  <2>1. \A u \in Tasks : entry'[u].preempted => entry[u].preempted
    <3>r. reader \in Tasks
      BY <1>25 DEF OverrideAnswer, TypeOK
    <3>1. CASE FloorPasses(reader, z)
      <4>1. entry' = [entry EXCEPT ![reader] =
                        [@ EXCEPT !.override = TRUE, !.refused = FALSE]]
        BY <1>25, <3>1 DEF OverrideAnswer
      <4> QED
        BY <4>1, <3>r, <1>t, <1>kept
    <3>2. CASE ~FloorPasses(reader, z)
      <4>1. entry' = [entry EXCEPT ![reader] = [@ EXCEPT !.refused = TRUE]]
        BY <1>25, <3>2 DEF OverrideAnswer
      <4> QED
        BY <4>1, <3>r, <1>t, <1>kept
    <3> QED
      BY <3>1, <3>2
  <2> QED
    BY <1>25, <2>1, <1>still DEF OverrideAnswer
<1>26. CASE AdvanceTime
  <2>1. \A u \in Tasks : entry'[u].preempted = entry[u].preempted
    BY <1>26, <1>t DEF AdvanceTime, EntryType
  <2> QED
    BY <1>26, <2>1, <1>still DEF AdvanceTime
<1>27. CASE \/ \E t \in Tasks : OverrideAsk(t) \/ Begin(t) \/ Commit(t)
                                 \/ Release(t) \/ \E o \in Outcomes : Return(t, o)
            \/ \E b \in BOOLEAN : SetPaused(b) \/ SetRuntimePaused(b) \/ SetBusy(b)
            \/ Close \/ InterruptRunning \/ MediaRequest
            \/ MediaRelease \/ Ended \/ UNCHANGED vars
  <2>1. UNCHANGED <<entry, inflight, pump>>
    BY <1>27 DEF Begin, Commit, Return, Release, OverrideAsk,
       SetPaused, SetRuntimePaused, SetBusy, Close, InterruptRunning,
       MediaRequest, MediaRelease, Ended, vars
  <2> QED
    BY <2>1, <1>still
<1> QED
  BY <1>1, <1>2, <1>3, <1>4, <1>5, <1>6, <1>7, <1>8, <1>9, <1>10, <1>11,
     <1>12, <1>13, <1>14, <1>15, <1>16, <1>17, <1>18, <1>20, <1>21,
     <1>22, <1>23, <1>24, <1>25, <1>26, <1>27
     DEF Next, PumpStep, WorkerStep, CommandStep

-----------------------------------------------------------------------------
(* The heavy claim. *)

\* The lease of heavy work in flight is live and the only heavy one: time
\* takes one unit between renewals, and no release can hit a later run.
LEMMA LeaseStep ==
  ASSUME TypeOK, InvInflight, InvLease, [Next]_vars
  PROVE  InvLease'
<1> USE DEF queueVars, entryVars, flagVars, workVars
<1>t. /\ pump \in PumpType /\ inflight \subseteq Tasks /\ releasing \subseteq Tasks
      /\ lease \in [Owners -> 0 .. LeaseTicks]
  BY DEF TypeOK, GovernorTypeOK
<1>n. \A o \in Owners : lease[o] \in 0 .. LeaseTicks
  BY <1>t
<1>own. Tasks \subseteq Owners /\ Media \in Owners /\ Media \notin Tasks
  BY DEF Owners
<1>cur. pump.pc \in Naming => pump.cur \in Tasks
  BY <1>t DEF PumpType
<1>still. ASSUME UNCHANGED <<lease, inflight, unrenewed, releasing>>,
                 pump'.pc = "launch" => pump.pc = "launch" /\ pump'.cur = pump.cur
          PROVE  InvLease'
  BY <1>still DEF InvLease, HeavyUser
<1>1. ASSUME NEW l \in Levels, Observe(l) PROVE InvLease'
  <2>1. /\ UNCHANGED <<inflight, releasing>> /\ unrenewed' = FALSE
        /\ pump'.pc = "protect"
    BY <1>1, <1>t, PumpMoves DEF Observe
  <2>2. \A o \in Owners : /\ lease'[o] > 0 <=> lease[o] > 0
                          /\ o \in inflight /\ lease[o] > 0 => lease'[o] = LeaseTicks
    BY <1>1, <1>n DEF Observe, Renewed
  <2>3. \A t \in Tasks : HeavyUser(t)' => HeavyUser(t) /\ t \in inflight
    BY <2>1 DEF HeavyUser
  <2> QED
    BY <2>1, <2>2, <2>3, <1>own, <1>n, <1>t DEF InvLease
<1>2. ASSUME NEW z \in Zones, Protect(z) PROVE InvLease'
  BY <1>2, <1>t, <1>still, PumpMoves, SMTT(30) DEF Protect
<1>3. ASSUME NEW t \in Tasks, Attribute(t) PROVE InvLease'
  BY <1>3, <1>t, <1>still, PumpMoves DEF Attribute
<1>4. CASE Ask
  BY <1>4, <1>t, <1>still, PumpMoves DEF Ask
<1>5. CASE Settle
  BY <1>5, <1>t, <1>still, PumpMoves DEF Settle
<1>6. CASE Gate
  BY <1>6, <1>t, <1>still, PumpMoves DEF Gate
<1>7. CASE Scan
  BY <1>7, <1>t, <1>still, PumpMoves DEF Scan
<1>8. ASSUME NEW t \in Tasks, NEW z \in Zones, Check(t, z) PROVE InvLease'
  BY <1>8, <1>t, <1>still, PumpMoves DEF Check
<1>9. CASE Decide
  BY <1>9, <1>t, <1>still, PumpMoves DEF Decide
<1>10. ASSUME NEW p \in BOOLEAN, Request(p) PROVE InvLease'
  <2>1. /\ pump.pc = "request" /\ pump.cur \in Tasks /\ inflight = {}
        /\ UNCHANGED <<inflight, releasing, unrenewed>>
    BY <1>10, <1>cur DEF Request, At, Naming, InvInflight, Choosing
  <2>2. CASE pump'.pc = "rest" /\ UNCHANGED lease
    BY <2>1, <2>2, <1>still
  <2>3. CASE /\ pump'.pc = "launch" /\ pump'.cur = pump.cur
             /\ Granted(pump.cur, p) /\ lease' = Reserved(pump.cur)
    <3>1. /\ lease'[pump.cur] = LeaseTicks
          /\ \A o \in Owners \ {pump.cur} : lease'[o] = lease[o]
      BY <2>1, <2>3, <1>t, <1>own DEF Reserved
    <3>2. CASE pump.cur \in Heavy
      <4>1. \A o \in Owners : IsHeavy(o) => ~(lease[o] > 0)
        BY <2>3, <3>2 DEF Granted, HeavyOwned, IsHeavy
      <4>2. pump.cur \notin releasing
        BY <2>1, <3>2, <4>1, <1>own DEF InvLease, IsHeavy
      <4>3. \A t \in Tasks : HeavyUser(t)' => t = pump.cur
        BY <2>1, <2>3 DEF HeavyUser
      <4>4. \A t \in releasing \cap Heavy : lease[t] > 0 /\ t \in Owners /\ IsHeavy(t)
        BY <1>t, <1>own DEF InvLease, IsHeavy
      <4> QED
        BY <2>1, <3>1, <4>1, <4>2, <4>3, <4>4 DEF InvLease
    <3>3. CASE pump.cur \notin Heavy
      <4>1. \A t \in Tasks : ~HeavyUser(t)'
        BY <2>1, <2>3, <3>3 DEF HeavyUser
      <4>2. ~IsHeavy(pump.cur)
        BY <2>1, <3>3, <1>own DEF IsHeavy
      <4>3. \A t \in Heavy : lease'[t] = lease[t]
        BY <3>1, <3>3, <1>own
      <4> QED
        BY <2>1, <3>1, <4>1, <4>2, <4>3 DEF InvLease
    <3> QED
      BY <3>2, <3>3
  <2> QED
    BY <1>10, <1>t, <2>2, <2>3, PumpMoves
<1>11. CASE Launch
  <2>1. /\ pump.pc = "launch" /\ inflight = {}
        /\ UNCHANGED <<lease, releasing, unrenewed>>
    BY <1>11 DEF Launch, At, InvInflight, Choosing
  <2>2. CASE pump'.pc = "rest" /\ UNCHANGED inflight
    BY <2>1, <2>2, <1>still
  <2>3. CASE pump'.pc = "handover" /\ inflight' = inflight \cup {pump.cur}
    <3>1. \A t \in Tasks : HeavyUser(t)' => HeavyUser(t)
      BY <2>1, <2>3 DEF HeavyUser
    <3> QED
      BY <2>1, <3>1 DEF InvLease
  <2> QED
    BY <1>11, <1>t, <2>2, <2>3, PumpMoves
<1>12. ASSUME NEW p \in BOOLEAN, Handover(p) PROVE InvLease'
  BY <1>12, <1>t, <1>still, PumpMoves DEF Handover
<1>13. CASE Rest
  BY <1>13, <1>t, <1>still, PumpMoves DEF Rest
<1>14. CASE WakeUp
  BY <1>14, <1>t, <1>still, PumpMoves DEF WakeUp
<1>15. CASE ClearWake
  BY <1>15, <1>t, <1>still, PumpMoves DEF ClearWake
<1>16. CASE Exit
  BY <1>16, <1>t, <1>still, PumpMoves DEF Exit
<1>17. CASE StartPump
  BY <1>17, <1>t, <1>still, PumpMoves DEF StartPump
<1>18. ASSUME NEW t \in Tasks, Report(t) PROVE InvLease'
  <2>1. /\ inflight' = inflight \ {t} /\ releasing' = releasing \cup {t}
        /\ UNCHANGED <<pump, lease, unrenewed>>
    BY <1>18 DEF Report
  <2>2. t \in inflight
    BY <1>18 DEF Report, InvInflight, OnMachine
  <2>3. pump.pc # "launch"
    BY <2>2 DEF InvInflight, Choosing
  <2>4. \A u \in Tasks : HeavyUser(u)' => HeavyUser(u) /\ u # t
    BY <2>1, <2>3 DEF HeavyUser
  <2>5. t \in Heavy => lease[t] > 0
    BY <2>2, <1>own, <1>n DEF InvLease, HeavyUser
  <2> QED
    BY <2>1, <2>4, <2>5 DEF InvLease
<1>19. ASSUME NEW t \in Tasks, Release(t) PROVE InvLease'
  <2>1. /\ t \in releasing /\ releasing' = releasing \ {t}
        /\ UNCHANGED <<pump, inflight, unrenewed>>
        /\ lease'[t] = 0 /\ \A o \in Owners \ {t} : lease'[o] = lease[o]
    BY <1>19, <1>t, <1>own DEF Release, Released
  <2>2. \A u \in Tasks : HeavyUser(u)' => HeavyUser(u) /\ u # t
    BY <2>1 DEF HeavyUser, InvLease
  <2> QED
    BY <2>1, <2>2, <1>own, <1>t DEF InvLease
<1>20. CASE AdvanceTime
  <2>1. /\ UNCHANGED <<pump, inflight, releasing>> /\ unrenewed' = TRUE
        /\ releasing = {} /\ (pump.pc = "asleep" \/ ~unrenewed)
    BY <1>20 DEF AdvanceTime, At
  <2>2. \A o \in Owners : /\ lease'[o] > 0 => lease[o] > 0
                          /\ lease'[o] >= lease[o] - 1
    <3> TAKE o \in Owners
    <3>1. lease'[o] = IF o = Media \/ lease[o] = 0 THEN lease[o] ELSE lease[o] - 1
      BY <1>20 DEF AdvanceTime, Aged
    <3>2. lease[o] \in Nat
      BY <1>n
    <3> QED
      BY <3>1, <3>2
  <2>3. \A t \in Tasks : HeavyUser(t)' => HeavyUser(t) /\ ~unrenewed
    BY <2>1 DEF HeavyUser, InvInflight
  <2>4. \A t \in Tasks : HeavyUser(t)' => lease'[t] >= LeaseTicks - 1
    BY <2>2, <2>3, <1>own DEF InvLease
  <2> QED
    BY <2>1, <2>2, <2>4, <1>own DEF InvLease
<1>21. CASE MediaRequest
  <2>1. /\ UNCHANGED <<pump, inflight, releasing, unrenewed>>
        /\ \A o \in Owners \ {Media} : lease'[o] = lease[o]
    BY <1>21, <1>t DEF MediaRequest, Reserved
  <2>2. \A o \in Owners : IsHeavy(o) => ~(lease[o] > 0)
    BY <1>21 DEF MediaRequest, Granted, HeavyOwned, IsHeavy
  <2>3. \A t \in Heavy : t \in Owners /\ t # Media /\ IsHeavy(t) /\ t \in Tasks
    BY <1>own DEF IsHeavy
  <2>4. \A t \in Tasks : HeavyUser(t)' => HeavyUser(t) /\ t \in Heavy
    BY <2>1 DEF HeavyUser
  <2> QED
    BY <2>1, <2>2, <2>3, <2>4 DEF InvLease
<1>22. CASE MediaRelease
  <2>1. /\ UNCHANGED <<pump, inflight, releasing, unrenewed>>
        /\ lease'[Media] = 0 /\ \A o \in Owners \ {Media} : lease'[o] = lease[o]
    BY <1>22, <1>t, <1>own DEF MediaRelease, Released
  <2>2. \A t \in Tasks : HeavyUser(t)' => HeavyUser(t)
    BY <2>1 DEF HeavyUser
  <2> QED
    BY <2>1, <2>2, <1>own, <1>t DEF InvLease
<1>23. CASE \/ \E t \in Tasks : Begin(t) \/ Commit(t) \/ \E o \in Outcomes : Return(t, o)
            \/ CommandStep /\ ~StartPump
            \/ Ended \/ UNCHANGED vars
  <2>1. UNCHANGED <<pump, inflight, lease, releasing, unrenewed>>
    BY <1>23 DEF Begin, Commit, Return, CommandStep, Submit, Restore, PauseTask,
       ResumeTask, OverrideAsk, OverrideAnswer, Cancel, SetPaused,
       SetRuntimePaused, SetBusy, Close, InterruptRunning, Ended, vars
  <2> QED
    BY <2>1, <1>still
<1> QED
  BY <1>1, <1>2, <1>3, <1>4, <1>5, <1>6, <1>7, <1>8, <1>9, <1>10, <1>11,
     <1>12, <1>13, <1>14, <1>15, <1>16, <1>17, <1>18, <1>19, <1>20, <1>21,
     <1>22, <1>23
     DEF Next, PumpStep, WorkerStep

-----------------------------------------------------------------------------
(* The theorems. *)

\* The inductive invariant holds at the start ...
LEMMA InitInvariant == Init => IInv
<1> SUFFICES ASSUME Init PROVE IInv
  OBVIOUS
<1>1. TypeOK
  <2>1. queue \in [Tasks -> TaskType] /\ nextSeq \in Nat
    BY DEF Init, QueueInit, TaskType, Absent
  <2>2. lease \in [Owners -> 0 .. LeaseTicks]
    BY DEF Init, GovernorInit
  <2>3. entry \in [Tasks -> EntryType]
    BY NoEntryType DEF Init
  <2>4. pump \in PumpType
    BY DEF Init, PumpType, Labels, Naming
  <2>5. work \in [Tasks -> WorkType] /\ worker \in [Tasks -> WorkerType]
    BY DEF Init, NewWork, NoWorker, WorkType, WorkerType
  <2> QED
    BY <2>1, <2>2, <2>3, <2>4, <2>5 DEF Init, TypeOK, QueueTypeOK, GovernorTypeOK
<1>2. pump.pc = "unstarted" /\ inflight = {} /\ releasing = {}
  BY DEF Init
<1>3. \A t \in Tasks : /\ State(t) = "new" /\ queue[t].attempts = 0
                       /\ worker[t].pc = "none" /\ ~entry[t].preempted
                       /\ ~work[t].committed /\ work[t].run = "none"
  BY DEF Init, QueueInit, State, NoWorker, NoEntry, NewWork
<1>4. \A o \in Owners : ~(lease[o] > 0)
  BY DEF Init, GovernorInit
<1>5. InvInflight /\ InvRunning /\ InvCommit
  BY <1>2, <1>3 DEF InvInflight, InvRunning, InvCommit, OnMachine, Choosing
<1>6. InvAttempts /\ InvPreempted
  BY <1>2, <1>3 DEF InvAttempts, AttemptsBounded, InvPreempted, NoStalePreemption
<1>7. InvLease
  BY <1>2, <1>4 DEF InvLease, HeavyUser
<1> QED
  BY <1>1, <1>5, <1>6, <1>7 DEF IInv

\* ... and every step keeps it.
LEMMA StepInvariant == IInv /\ [Next]_vars => IInv'
  BY TypingStep, InflightStep, RunningStep, CommitStep, AttemptsStep,
     PreemptedStep, LeaseStep DEF IInv

\* Every reachable state satisfies the inductive invariant.
THEOREM Invariant == Spec => []IInv
  BY InitInvariant, StepInvariant, PTL DEF Spec

\* The scheduler's records, the pump's locals and the workers' keep their
\* types, with every lease, timer and breach count within its limit.
THEOREM TypeCorrect == Spec => []TypeOK
<1>1. IInv => TypeOK
  BY DEF IInv
<1> QED
  BY <1>1, Invariant, PTL

\* The machine never carries two pieces of work, cancelled ones included.
THEOREM MachineExclusive == Spec => []OneAtATime
<1>1. IInv => OneAtATime
  BY DEF IInv, InvInflight, OneAtATime
<1> QED
  BY <1>1, Invariant, PTL

\* Heavy work on the machine owns the governor's only heavy claim.
THEOREM HeavyClaimExclusive == Spec => []HeavyExclusive
<1>1. IInv => HeavyExclusive
  <2> SUFFICES ASSUME IInv, NEW t \in Heavy, OnMachine(t), NEW o \in Owners
               PROVE  (IsHeavy(o) /\ lease[o] > 0) <=> o = t
    BY DEF HeavyExclusive
  <2>1. t \in Tasks /\ t \in Owners /\ IsHeavy(t)
    BY DEF Owners, IsHeavy
  <2>2. t \in inflight
    BY <2>1 DEF IInv, InvInflight
  <2>3. lease[t] \in 0 .. LeaseTicks /\ lease[t] >= LeaseTicks - 1
    BY <2>1, <2>2 DEF IInv, TypeOK, GovernorTypeOK, InvLease, HeavyUser
  <2> QED
    BY <2>1, <2>3 DEF IInv, InvLease
<1> QED
  BY <1>1, Invariant, PTL

\* A committed answer is never contradicted by the state of its task.
THEOREM AnswerFinal == Spec => []AnswerOrStop
<1>1. IInv => AnswerOrStop
  BY DEF IInv, InvCommit, AnswerOrStop
<1> QED
  BY <1>1, Invariant, PTL

\* No task is admitted more often than max_attempts without the user.
THEOREM AttemptLimit == Spec => []AttemptsBounded
<1>1. IInv => AttemptsBounded
  BY DEF IInv, InvAttempts
<1> QED
  BY <1>1, Invariant, PTL

\* A safety stop is never attributed to a later run.
THEOREM PreemptionCurrent == Spec => []NoStalePreemption
<1>1. IInv => NoStalePreemption
  BY DEF IInv, InvPreempted
<1> QED
  BY <1>1, Invariant, PTL

\* Work in flight is never forgotten.
THEOREM InFlightRemembered == Spec => []InFlightVisible
<1>1. IInv => InFlightVisible
  BY DEF IInv, InvRunning, InFlightVisible
<1> QED
  BY <1>1, Invariant, PTL
=============================================================================
