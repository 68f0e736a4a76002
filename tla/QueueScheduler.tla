---------------------------- MODULE QueueScheduler ----------------------------
(***************************************************************************)
(* core/queue_scheduler.py: the pump that starts queued work, the commands *)
(* of the thread reading the desktop's requests, and the worker threads    *)
(* that run the work and report back.                                      *)
(*                                                                         *)
(* The three kinds of thread meet in one re-entrant lock, but a pass of    *)
(* the pump (`tick`) is many lock sections, not one.  Each action below is *)
(* one lock section, or one unlocked read whose value is used later; a     *)
(* local variable of the code that survives from one to the next is a      *)
(* field of `pump` or `reader`.                                            *)
(*                                                                         *)
(* Left out because no decision reads them: hold reasons and their wording *)
(* (`_hold`), revision numbers, and the events (their effect on the saved  *)
(* queue is modelled in DurableQueue).                                     *)
(***************************************************************************)
EXTENDS ResourceGovernor

CONSTANTS
    NoTask,             \* no candidate
    MaxAttempts,        \* SchedulerConfig.max_attempts
    PreemptAfter,       \* SchedulerConfig.preempt_after_samples
    RetryTicks,         \* retry_after_deferral_seconds, in units of time
    HistoryTicks,       \* history_seconds, in units of time
    Levels,             \* what SustainedLoadMonitor may say: "free", "busy"
    Zones,              \* what the hard floor may say: "clear", "between",
                        \* "breach" ("between" refuses only what is refused)
    Commands            \* which requests the environment makes in this model

ASSUME SchedulerAssumption ==
    /\ NoTask \notin Tasks
    /\ MaxAttempts \in Nat \ {0}
    /\ PreemptAfter \in Nat \ {0}
    /\ RetryTicks \in Nat
    /\ HistoryTicks \in Nat

VARIABLES
    entry,          \* _entries: the scheduler's own record of each task
    inflight,       \* _inflight: handed out and not yet reported back
    paused,         \* _paused: the user's hold on the queue
    runtimePaused,  \* _runtime_paused: Qronos as a whole is paused
    foreground,     \* foreground_busy(): the user's own turn is running
    wake,           \* _wake: the event an idle pump sleeps on
    pump,           \* the pump thread: its place in tick() and its locals
    reader,         \* the task an override is being decided for, or NoTask
    work,           \* each task's Runnable: cancelled, committed, its run
    worker,         \* each task's worker thread: its place and its outcome
    releasing,      \* outcomes recorded whose reservation is not yet given back
    phase,          \* "starting", "open", "stopping", "closed"
    unrenewed       \* a unit of time has passed since leases were renewed

entryVars == <<entry, inflight>>
flagVars == <<paused, runtimePaused, foreground>>
workVars == <<work, worker, releasing>>
vars == <<queue, nextSeq, lease, entry, inflight, paused, runtimePaused,
          foreground, wake, pump, reader, work, worker, releasing, phase,
          unrenewed>>

-----------------------------------------------------------------------------
(* Records *)

Never == -1     \* finished_at is None

NoEntry == [known |-> FALSE, override |-> FALSE, refused |-> FALSE,
            preempted |-> FALSE, retry |-> 0, history |-> Never]

NewEntry == [NoEntry EXCEPT !.known = TRUE]

NewWork == [cancelled |-> FALSE, committed |-> FALSE, run |-> "none"]
NoWorker == [pc |-> "none", outcome |-> "none"]

Labels == {"unstarted", "top", "protect", "attribute", "ask", "settle",
           "gate", "scan", "check", "decide", "request", "launch",
           "handover", "rest", "asleep", "clear", "exited"}
\* Both "deferred" and "yielded" are WorkOutcome.DEFERRED; "yielded" has
\* count_attempt=False.
Outcomes == {"done", "failed", "cancelled", "deferred", "yielded"}

\* The pump between passes: every local of tick() is gone; the breach count
\* and the resume lines of the running check belong to the scheduler.
Rested(p, label) == [p EXCEPT !.pc = label, !.level = "none", !.todo = {},
                              !.cur = NoTask, !.ok = FALSE]

Init ==
    /\ QueueInit
    /\ GovernorInit
    /\ entry = [t \in Tasks |-> NoEntry]
    /\ inflight = {}
    /\ paused = FALSE
    /\ runtimePaused = FALSE
    /\ foreground = FALSE
    /\ wake = FALSE
    /\ pump = [pc |-> "unstarted", level |-> "none", todo |-> {},
               cur |-> NoTask, ok |-> FALSE, breaches |-> 0,
               refusing |-> FALSE]
    /\ reader = NoTask
    /\ work = [t \in Tasks |-> NewWork]
    /\ worker = [t \in Tasks |-> NoWorker]
    /\ releasing = {}
    /\ phase = "starting"
    /\ unrenewed = FALSE

-----------------------------------------------------------------------------
(* What the scheduler asks of a Runnable (core/queued_conversation.py).    *)

\* pause() and preempt(): end the current run only.  Refused when the answer
\* is committed, nothing runs, or the run was already stopped.
CanStopRun(w) == ~w.committed /\ w.run = "live"
StopRun(w) == IF CanStopRun(w) THEN [w EXCEPT !.run = "stopped"] ELSE w

\* cancel() and interrupt(): end the request.  Refused once committed.
\* Mutant: the flag is set and the model request left open.
EndWorkQuietly(w) == IF w.committed THEN w ELSE [w EXCEPT !.cancelled = TRUE]

EndWork(w) ==
    IF w.committed THEN w
    ELSE [w EXCEPT !.cancelled = TRUE,
                   !.run = IF @ = "live" THEN "stopped" ELSE @]

-----------------------------------------------------------------------------
(* Commands.  The reader thread handles one at a time; requests are also   *)
(* submitted by the user's own turn, on its own thread.                    *)

Open == phase = "open"
ReaderFree == Open /\ reader = NoTask

Submit(t) ==
    /\ Open
    /\ Enter(t, "queued", 0)
    /\ entry' = [entry EXCEPT ![t] = NewEntry]
    /\ wake' = TRUE
    /\ UNCHANGED <<lease, inflight, flagVars, pump, reader, workVars, phase,
                   unrenewed>>

\* Recovery puts saved tasks back before the pump is started.
Restore(t, s, n) ==
    /\ phase = "starting"
    /\ Enter(t, s, n)
    /\ entry' = [entry EXCEPT ![t] = NewEntry]
    /\ wake' = TRUE
    /\ UNCHANGED <<lease, inflight, flagVars, pump, reader, workVars, phase,
                   unrenewed>>

PauseTask(t) ==
    /\ "pause_task" \in Commands
    /\ ReaderFree
    /\ State(t) = "queued"
    /\ queue' = Moved(queue, t, "paused")
    /\ entry' = [entry EXCEPT ![t].override = FALSE]
    /\ UNCHANGED <<nextSeq, lease, inflight, flagVars, wake, pump, reader,
                   workVars, phase, unrenewed>>

ResumeTask(t) ==
    /\ "resume_task" \in Commands
    /\ ReaderFree
    /\ ~runtimePaused
    /\ State(t) \in {"paused", "interrupted"}
    /\ queue' = Resumed(queue, t)
    /\ entry' = [entry EXCEPT ![t].retry = 0, ![t].history = Never]
    /\ wake' = TRUE
    /\ UNCHANGED <<nextSeq, lease, inflight, flagVars, pump, reader, workVars,
                   phase, unrenewed>>

\* override() checks under the lock that the task is waiting ...
OverrideAsk(t) ==
    /\ "override" \in Commands
    /\ ReaderFree
    /\ ~runtimePaused
    /\ entry[t].known
    /\ State(t) = "queued"
    /\ reader' = t
    /\ UNCHANGED <<queueVars, lease, entryVars, flagVars, wake, pump,
                   workVars, phase, unrenewed>>

FloorPasses(t, zone) ==
    zone = "clear" \/ (zone = "between" /\ ~entry[t].refused)

\* ... lets the lock go to take a reading, and then records the answer
\* whatever the task has become meanwhile.
OverrideAnswer(zone) ==
    /\ reader # NoTask
    /\ IF FloorPasses(reader, zone)
       THEN /\ entry' = [entry EXCEPT ![reader].override = TRUE,
                                      ![reader].refused = FALSE]
            /\ wake' = TRUE
       ELSE /\ entry' = [entry EXCEPT ![reader].refused = TRUE]
            /\ UNCHANGED wake
    /\ reader' = NoTask
    /\ UNCHANGED <<queueVars, lease, inflight, flagVars, pump, workVars,
                   phase, unrenewed>>

\* Mutant: only the table is asked, as if nothing could have been committed.
CancelByTable(t) == CanMove(t, "cancelled")

\* cancel(): the work is told first, whatever the task's state.  Refused when
\* the running work has committed; raises, after telling the work, when the
\* table has no such move.
CancelLands(t) ==
    /\ CanMove(t, "cancelled")
    /\ ~(work[t].committed /\ State(t) = "running")

Cancel(t) ==
    /\ "cancel" \in Commands
    /\ ReaderFree
    /\ Present(t)
    /\ work' = [work EXCEPT ![t] = IF entry[t].known THEN EndWork(@) ELSE @]
    /\ IF CancelLands(t)
       THEN /\ queue' = Moved(queue, t, "cancelled")
            /\ entry' = [entry EXCEPT ![t].history =
                            IF t \in inflight THEN @ ELSE HistoryTicks]
       ELSE UNCHANGED <<queue, entry>>
    /\ UNCHANGED <<nextSeq, lease, inflight, flagVars, wake, pump, reader,
                   worker, releasing, phase, unrenewed>>

\* The user's hold; recovery puts back a remembered one before the pump runs.
SetPaused(b) ==
    /\ "set_paused" \in Commands
    /\ ReaderFree \/ (phase = "starting" /\ b)
    /\ runtimePaused => b
    /\ paused' = b
    /\ wake' = (wake \/ ~b)
    /\ UNCHANGED <<queueVars, lease, entryVars, runtimePaused, foreground,
                   pump, reader, workVars, phase, unrenewed>>

\* The work in flight, as running_work() and set_runtime_paused collect it.
InflightStopped ==
    [t \in Tasks |-> IF t \in inflight /\ entry[t].known
                     THEN StopRun(work[t]) ELSE work[t]]

SetRuntimePaused(b) ==
    /\ "set_runtime_paused" \in Commands
    /\ ReaderFree \/ (phase = "starting" /\ b)
    /\ runtimePaused' = b
    /\ work' = IF b THEN InflightStopped ELSE work
    /\ wake' = (wake \/ ~b)
    /\ UNCHANGED <<queueVars, lease, entryVars, paused, foreground, pump,
                   reader, worker, releasing, phase, unrenewed>>

\* RuntimeBridge._set_busy: the user's turn begins or ends, on any thread.
SetBusy(b) ==
    /\ "set_busy" \in Commands
    /\ Open
    /\ foreground # b
    /\ foreground' = b
    /\ work' = IF b THEN InflightStopped ELSE work
    /\ wake' = (wake \/ ~b)
    /\ UNCHANGED <<queueVars, lease, entryVars, paused, runtimePaused, pump,
                   reader, worker, releasing, phase, unrenewed>>

-----------------------------------------------------------------------------
(* The pump: one pass of tick().                                           *)

At(label) == pump.pc = label
Goto(label) == pump' = [pump EXCEPT !.pc = label]

StartPump ==
    /\ phase = "starting"
    /\ At("unstarted")
    /\ phase' = "open"
    /\ Goto("top")
    /\ UNCHANGED <<queueVars, lease, entryVars, flagVars, wake, reader,
                   workVars, unrenewed>>

\* _forget_old_entries drops the entries that finished history_seconds ago ...
Stale == {t \in Tasks : /\ entry[t].known
                        /\ entry[t].history = 0
                        /\ t \notin inflight}
\* ... and, if there is one, every finished task that is not in flight.
\* Mutant: forget_finished called without its keep set.
AfterForgettingAll(stale) ==
    IF stale = {} THEN queue ELSE ForgottenFrom(queue, {})

AfterForgetting(stale) ==
    IF stale = {} THEN queue ELSE ForgottenFrom(queue, inflight)

\* A reading, then _forget_old_entries and _renew_inflight_leases.
Observe(level) ==
    /\ At("top")
    /\ phase = "open"
    /\ entry' = [t \in Tasks |-> IF t \in Stale THEN NoEntry ELSE entry[t]]
    /\ queue' = AfterForgetting(Stale)
    /\ lease' = Renewed(inflight)
    /\ unrenewed' = FALSE
    /\ pump' = [pump EXCEPT !.pc = "protect", !.level = level]
    /\ UNCHANGED <<nextSeq, inflight, flagVars, wake, reader, workVars, phase>>

\* _protect_running collects what is in flight and asks check_running.  A
\* breach must last PreemptAfter readings (the count is capped there).
Protect(zone) ==
    LET running == {t \in inflight : entry[t].known}
        passes == zone = "clear" \/ (zone = "between" /\ ~pump.refusing)
        count == IF pump.breaches < PreemptAfter THEN pump.breaches + 1
                                                 ELSE PreemptAfter
    IN  /\ At("protect")
        /\ pump' =
             IF running = {} \/ passes
             THEN [pump EXCEPT !.pc = "gate", !.breaches = 0,
                               !.refusing = FALSE]
             ELSE IF count < PreemptAfter
             THEN [pump EXCEPT !.pc = "gate", !.breaches = count]
             ELSE [pump EXCEPT !.pc = "attribute", !.breaches = count,
                               !.refusing = TRUE, !.todo = running]
        /\ UNCHANGED <<queueVars, lease, entryVars, flagVars, wake, reader,
                       workVars, phase, unrenewed>>

\* The next piece of running work, or the end of _protect_running.
NextVictim(t) ==
    [pump EXCEPT !.pc = IF pump.todo \subseteq {t} THEN "gate"
                                                   ELSE "attribute",
                 !.todo = @ \ {t}, !.cur = NoTask, !.ok = FALSE]

\* The stop is attributed to the safety floor before it is asked for.
Attribute(t) ==
    /\ At("attribute")
    /\ t \in pump.todo
    /\ IF entry[t].preempted
       THEN /\ pump' = NextVictim(t)
            /\ UNCHANGED entry
       ELSE /\ pump' = [pump EXCEPT !.pc = "ask", !.cur = t]
            /\ entry' = [entry EXCEPT ![t].preempted = TRUE]
    /\ UNCHANGED <<queueVars, lease, inflight, flagVars, wake, reader,
                   workVars, phase, unrenewed>>

\* The work's own pause(), outside the lock.
Ask ==
    /\ At("ask")
    /\ pump' = [pump EXCEPT !.pc = "settle", !.ok = CanStopRun(work[pump.cur])]
    /\ work' = [work EXCEPT ![pump.cur] = StopRun(@)]
    /\ UNCHANGED <<queueVars, lease, entryVars, flagVars, wake, reader,
                   worker, releasing, phase, unrenewed>>

\* Mutant: the attribution of a refused stop is left in place.
KeptAttribution(t, accepted) == entry

\* A refused stop is withdrawn, unless the outcome already consumed it.
Attribution(t, accepted) ==
    IF accepted THEN entry ELSE [entry EXCEPT ![t].preempted = FALSE]

Settle ==
    /\ At("settle")
    /\ entry' = Attribution(pump.cur, pump.ok)
    /\ pump' = NextVictim(pump.cur)
    /\ UNCHANGED <<queueVars, lease, inflight, flagVars, wake, reader,
                   workVars, phase, unrenewed>>

\* Paused, or the user's own turn owns the model: everything waits.
Held == paused \/ runtimePaused \/ foreground

Gate ==
    /\ At("gate")
    /\ pump' = IF Held THEN Rested(pump, "rest")
                       ELSE [pump EXCEPT !.pc = "scan"]
    /\ UNCHANGED <<queueVars, lease, entryVars, flagVars, wake, reader,
                   workVars, phase, unrenewed>>

\* Mutant: a cancelled task no longer counts, though its call is still open.
NothingRunning == Running = {}

\* _next_admissible: one at a time, counting work cancelled but not returned.
MachineFree == Running = {} /\ inflight = {}

Candidates == {t \in Waiting : HeavyOwned => t \notin Heavy}

Scan ==
    /\ At("scan")
    /\ pump' = IF ~MachineFree \/ Candidates = {}
               THEN Rested(pump, "rest")
               ELSE [pump EXCEPT !.pc = "check", !.todo = Candidates]
    /\ UNCHANGED <<queueVars, lease, entryVars, flagVars, wake, reader,
                   workVars, phase, unrenewed>>

NextCandidate(t) ==
    IF pump.todo \subseteq {t} THEN Rested(pump, "rest")
    ELSE [pump EXCEPT !.pc = "check", !.todo = @ \ {t}, !.cur = NoTask,
                      !.ok = FALSE]

\* Each candidate in arrival order: not yet due again, or not remembered, is
\* passed over; otherwise the floor is asked, without the lock.
Check(t, zone) ==
    /\ At("check")
    /\ FirstIn(t, pump.todo)
    /\ pump' = IF ~entry[t].known \/ entry[t].retry > 0
               THEN NextCandidate(t)
               ELSE [pump EXCEPT !.pc = "decide", !.cur = t,
                                 !.ok = FloorPasses(t, zone)]
    /\ UNCHANGED <<queueVars, lease, entryVars, flagVars, wake, reader,
                   workVars, phase, unrenewed>>

\* Mutant: one attempt too many.
TriedOnceTooOften(t) == queue[t].attempts > MaxAttempts

TriedTooOften(t) == queue[t].attempts >= MaxAttempts

\* The candidate's locked section.  Pausing a task tried too often raises when
\* it stopped waiting meanwhile, which ends the pass.
Decide ==
    LET t == pump.cur
    IN  /\ At("decide")
        /\ entry' = [entry EXCEPT ![t].refused = ~pump.ok,
                                  ![t].override = @ /\ pump.ok]
        /\ IF ~pump.ok \/ (pump.level # "free" /\ ~entry[t].override)
           THEN pump' = NextCandidate(t) /\ UNCHANGED queue
           ELSE IF ~TriedTooOften(t)
           THEN Goto("request") /\ UNCHANGED queue
           ELSE IF CanMove(t, "paused")
           THEN pump' = NextCandidate(t) /\ queue' = Moved(queue, t, "paused")
           ELSE pump' = Rested(pump, "rest") /\ UNCHANGED queue
        /\ UNCHANGED <<nextSeq, lease, inflight, flagVars, wake, reader,
                       workVars, phase, unrenewed>>

\* _start asks the governor, without the scheduler's lock ...
Request(performanceMode) ==
    /\ At("request")
    /\ IF Granted(pump.cur, performanceMode)
       THEN lease' = Reserved(pump.cur) /\ Goto("launch")
       ELSE pump' = Rested(pump, "rest") /\ UNCHANGED lease
    /\ UNCHANGED <<queueVars, entryVars, flagVars, wake, reader, workVars,
                   phase, unrenewed>>

\* ... and starts the task.  If it was cancelled or paused meanwhile the move
\* is illegal, the pass ends, and nobody gives the reservation back.
Launch ==
    LET t == pump.cur
    IN  /\ At("launch")
        /\ IF CanMove(t, "running")
           THEN /\ queue' = Started(queue, t)
                /\ entry' = [entry EXCEPT ![t].override = FALSE,
                                          ![t].retry = 0]
                /\ inflight' = inflight \cup {t}
                /\ Goto("handover")
           ELSE /\ pump' = Rested(pump, "rest")
                /\ UNCHANGED <<queue, entry, inflight>>
        /\ UNCHANGED <<nextSeq, lease, flagVars, wake, reader, workVars,
                       phase, unrenewed>>

\* The runner starts a thread for the work; if it cannot, the work failed.
Handover(started) ==
    LET t == pump.cur
    IN  /\ At("handover")
        /\ worker' = [worker EXCEPT ![t] =
              IF started THEN [pc |-> "handed", outcome |-> "none"]
                         ELSE [pc |-> "returned", outcome |-> "failed"]]
        /\ pump' = Rested(pump, "rest")
        /\ UNCHANGED <<queueVars, lease, entryVars, flagVars, wake, reader,
                       work, releasing, phase, unrenewed>>

\* Between passes: sleep on the event when there is nothing to watch.
Idle == Waiting = {} /\ MachineFree

Rest ==
    /\ At("rest")
    /\ Goto(IF Idle THEN "asleep" ELSE "top")
    /\ UNCHANGED <<queueVars, lease, entryVars, flagVars, wake, reader,
                   workVars, phase, unrenewed>>

WakeUp ==
    /\ At("asleep")
    /\ wake
    /\ Goto("clear")
    /\ UNCHANGED <<queueVars, lease, entryVars, flagVars, wake, reader,
                   workVars, phase, unrenewed>>

ClearWake ==
    /\ At("clear")
    /\ wake' = FALSE
    /\ Goto("top")
    /\ UNCHANGED <<queueVars, lease, entryVars, flagVars, reader, workVars,
                   phase, unrenewed>>

Exit ==
    /\ At("top")
    /\ phase \in {"stopping", "closed"}
    /\ Goto("exited")
    /\ UNCHANGED <<queueVars, lease, entryVars, flagVars, wake, reader,
                   workVars, phase, unrenewed>>

-----------------------------------------------------------------------------
(* The worker threads: RuntimeBridge._run_queue_work_in_thread.            *)

\* begin_run(): a fresh run, or none when the request has ended.
Begin(t) ==
    /\ worker[t].pc = "handed"
    /\ IF work[t].cancelled \/ work[t].committed
       THEN /\ worker' = [worker EXCEPT ![t] = [pc |-> "returned",
                                                outcome |-> "cancelled"]]
            /\ UNCHANGED work
       ELSE /\ worker' = [worker EXCEPT ![t].pc = "running"]
            /\ work' = [work EXCEPT ![t].run = "live"]
    /\ UNCHANGED <<queueVars, lease, entryVars, flagVars, wake, pump, reader,
                   releasing, phase, unrenewed>>

\* Mutant: the claim to deliver ignores a stop that came first.
MayCommitLate(w) == w.run # "none"

\* commit(): the answer may be delivered only if no stop came first.
MayCommit(w) == ~w.cancelled /\ w.run = "live"

Commit(t) ==
    /\ worker[t].pc = "running"
    /\ ~work[t].committed
    /\ MayCommit(work[t])
    /\ work' = [work EXCEPT ![t].committed = TRUE]
    /\ UNCHANGED <<queueVars, lease, entryVars, flagVars, wake, pump, reader,
                   worker, releasing, phase, unrenewed>>

\* end_run() and the verdict.  A committed answer is done, or failed when the
\* announcement of it raises.  Otherwise the run may find the request already
\* answered, fail, or go back in line; it is cancelled only if it was told so.
Return(t, outcome) ==
    /\ worker[t].pc = "running"
    /\ work[t].committed => outcome \in {"done", "failed"}
    /\ outcome = "cancelled" => work[t].cancelled
    /\ worker' = [worker EXCEPT ![t] = [pc |-> "returned",
                                        outcome |-> outcome]]
    /\ work' = [work EXCEPT ![t].run = "none"]
    /\ UNCHANGED <<queueVars, lease, entryVars, flagVars, wake, pump, reader,
                   releasing, phase, unrenewed>>

\* report_outcome, under the lock.  Whatever the work says, a task that is no
\* longer running keeps the state it was given.
Reported(t, outcome) ==
    IF State(t) # "running" THEN queue
    ELSE IF outcome \in {"deferred", "yielded"}
    THEN Requeued(queue, t, outcome = "deferred" /\ ~entry[t].preempted)
    ELSE Moved(queue, t, outcome)

EntryAfter(e, wasRunning, outcome) ==
    IF ~wasRunning \/ outcome \notin {"deferred", "yielded"}
    THEN [e EXCEPT !.preempted = FALSE, !.history = HistoryTicks]
    ELSE IF e.preempted
    THEN [e EXCEPT !.preempted = FALSE, !.retry = 0, !.refused = TRUE,
                   !.override = FALSE]
    ELSE [e EXCEPT !.retry = RetryTicks]

Report(t) ==
    LET outcome == worker[t].outcome
    IN  /\ worker[t].pc = "returned"
        /\ inflight' = inflight \ {t}
        /\ queue' = IF entry[t].known THEN Reported(t, outcome) ELSE queue
        /\ entry' = [entry EXCEPT ![t] =
              IF @.known /\ Present(t)
              THEN EntryAfter(@, State(t) = "running", outcome)
              ELSE [@ EXCEPT !.preempted = FALSE]]
        /\ worker' = [worker EXCEPT ![t] = NoWorker]
        /\ releasing' = releasing \cup {t}
        /\ UNCHANGED <<nextSeq, lease, flagVars, wake, pump, reader, work,
                       phase, unrenewed>>

\* The reservation is given back after the lock was let go, so the same task
\* may already have been started again; then the pump is woken.
Release(t) ==
    /\ t \in releasing
    /\ lease' = Released(t)
    /\ wake' = TRUE
    /\ releasing' = releasing \ {t}
    /\ UNCHANGED <<queueVars, entryVars, flagVars, pump, reader, work, worker,
                   phase, unrenewed>>

-----------------------------------------------------------------------------
(* Closing, time, and the media host.                                      *)

\* RuntimeBridge._close: stop() sets the flag and waits a bounded time for the
\* pump, which may still be inside a pass when the wait ends.
Close ==
    /\ "close" \in Commands
    /\ ReaderFree
    /\ phase' = "stopping"
    /\ wake' = TRUE
    /\ UNCHANGED <<queueVars, lease, entryVars, flagVars, pump, reader,
                   workVars, unrenewed>>

\* interrupt_running: running work that has not committed is ended.
Interruptible == {t \in Running : entry[t].known => ~work[t].committed}

InterruptRunning ==
    /\ phase = "stopping"
    /\ queue' = [t \in Tasks |-> IF t \in Interruptible
                                 THEN [queue[t] EXCEPT !.state = "interrupted"]
                                 ELSE queue[t]]
    /\ work' = [t \in Tasks |-> IF t \in Running /\ entry[t].known
                                THEN EndWork(work[t]) ELSE work[t]]
    /\ phase' = "closed"
    /\ UNCHANGED <<nextSeq, lease, entryVars, flagVars, wake, pump, reader,
                   worker, releasing, unrenewed>>

Down(n) == IF n > 0 THEN n - 1 ELSE n

\* A unit of time passes.  It is long against a pass and against the moment
\* between a report and its release, so it holds at most one pass without a
\* renewal and never separates those two.
AdvanceTime ==
    /\ At("asleep") \/ ~unrenewed
    /\ releasing = {}
    /\ lease' = Aged
    /\ entry' = [t \in Tasks |-> [entry[t] EXCEPT !.retry = Down(@),
                                                  !.history = Down(@)]]
    /\ unrenewed' = TRUE
    /\ UNCHANGED <<queueVars, inflight, flagVars, wake, pump, reader,
                   workVars, phase>>

MediaRequest ==
    /\ "media" \in Commands
    /\ Open
    /\ lease[Media] = 0
    /\ Granted(Media, FALSE)
    /\ lease' = Reserved(Media)
    /\ UNCHANGED <<queueVars, entryVars, flagVars, wake, pump, reader,
                   workVars, phase, unrenewed>>

MediaRelease ==
    /\ lease[Media] > 0
    /\ lease' = Released(Media)
    /\ UNCHANGED <<queueVars, entryVars, flagVars, wake, pump, reader,
                   workVars, phase, unrenewed>>

\* After a close everything has come to rest: the process ends.
Ended ==
    /\ phase = "closed"
    /\ At("exited")
    /\ UNCHANGED vars

-----------------------------------------------------------------------------
PumpStep ==
    \/ \E l \in Levels : Observe(l)
    \/ \E z \in Zones : Protect(z)
    \/ \E t \in Tasks : Attribute(t)
    \/ Ask
    \/ Settle
    \/ Gate
    \/ Scan
    \/ \E t \in Tasks, z \in Zones : Check(t, z)
    \/ Decide
    \/ Request(FALSE)
    \/ "performance" \in Commands /\ Request(TRUE)
    \/ Launch
    \/ Handover(TRUE)
    \/ "thread_fails" \in Commands /\ Handover(FALSE)
    \/ Rest
    \/ WakeUp
    \/ ClearWake
    \/ Exit

WorkerStep(t) ==
    \/ Begin(t)
    \/ Commit(t)
    \/ \E o \in Outcomes : Return(t, o)
    \/ Report(t)
    \/ Release(t)

CommandStep ==
    \/ \E t \in Tasks : Submit(t)
    \/ \E t \in Tasks, s \in Restorable, n \in 0 .. MaxAttempts :
          "restore" \in Commands /\ Restore(t, s, n)
    \/ \E t \in Tasks : PauseTask(t)
    \/ \E t \in Tasks : ResumeTask(t)
    \/ \E t \in Tasks : OverrideAsk(t)
    \/ \E z \in Zones : OverrideAnswer(z)
    \/ \E t \in Tasks : Cancel(t)
    \/ \E b \in BOOLEAN : SetPaused(b)
    \/ \E b \in BOOLEAN : SetRuntimePaused(b)
    \/ \E b \in BOOLEAN : SetBusy(b)
    \/ StartPump
    \/ Close
    \/ InterruptRunning

Next ==
    \/ PumpStep
    \/ \E t \in Tasks : WorkerStep(t)
    \/ CommandStep
    \/ AdvanceTime
    \/ MediaRequest
    \/ MediaRelease
    \/ Ended

Spec == Init /\ [][Next]_vars

-----------------------------------------------------------------------------
EntryType == [known : BOOLEAN, override : BOOLEAN, refused : BOOLEAN,
              preempted : BOOLEAN, retry : 0 .. RetryTicks,
              history : -1 .. HistoryTicks]

\* The labels at which the pump has a candidate or a victim in `cur`.
Naming == {"ask", "settle", "decide", "request", "launch", "handover"}

PumpType == {p \in [pc : Labels, level : Levels \cup {"none"},
                    todo : SUBSET Tasks, cur : Tasks \cup {NoTask},
                    ok : BOOLEAN, breaches : 0 .. PreemptAfter,
                    refusing : BOOLEAN] :
                p.pc \in Naming => p.cur \in Tasks}

WorkType == [cancelled : BOOLEAN, committed : BOOLEAN,
             run : {"none", "live", "stopped"}]

WorkerType == {w \in [pc : {"none", "handed", "running", "returned"},
                      outcome : Outcomes \cup {"none"}] :
                  w.pc = "returned" => w.outcome \in Outcomes}

\* Every variable keeps its type; a lease, a timer or a breach count in
\* particular stays within its limit.
TypeOK ==
    /\ QueueTypeOK
    /\ GovernorTypeOK
    /\ entry \in [Tasks -> EntryType]
    /\ inflight \subseteq Tasks
    /\ paused \in BOOLEAN /\ runtimePaused \in BOOLEAN
    /\ foreground \in BOOLEAN /\ wake \in BOOLEAN /\ unrenewed \in BOOLEAN
    /\ pump \in PumpType
    /\ reader \in Tasks \cup {NoTask}
    /\ work \in [Tasks -> WorkType]
    /\ worker \in [Tasks -> WorkerType]
    /\ releasing \subseteq Tasks
    /\ phase \in {"starting", "open", "stopping", "closed"}

-----------------------------------------------------------------------------
(* Safety *)

\* A task whose work still occupies the machine.
OnMachine(t) == worker[t].pc # "none"

\* Never two pieces of work on the machine: not even when the first was
\* cancelled or interrupted and its model call has not returned yet.
OneAtATime == \A t, u \in Tasks : OnMachine(t) /\ OnMachine(u) => t = u

\* While heavy work is on the machine it owns the governor's one heavy claim:
\* its lease has not run out under it, the report of an earlier run has not
\* given it back, and neither another task nor the media host holds one.
HeavyExclusive ==
    \A t \in Heavy : OnMachine(t) =>
        \A o \in Owners : (IsHeavy(o) /\ lease[o] > 0) <=> o = t

\* The commit point orders stops and the answer: a request whose answer was
\* committed is never cancelled, interrupted or put back in line, and one whose
\* cancel or interruption was accepted never commits.
AnswerOrStop ==
    \A t \in Tasks : work[t].committed =>
        State(t) \in {"running", "done", "failed", "forgotten"}

\* A task is admitted at most max_attempts times before the user is asked,
\* however its runs are requeued, preempted, paused and restored.
AttemptsBounded == \A t \in Tasks : queue[t].attempts <= MaxAttempts

\* A safety stop is never left behind for a later run to be blamed on: it is
\* pending only for work in flight, or while the pump is asking.
NoStalePreemption ==
    \A t \in Tasks : entry[t].preempted =>
        t \in inflight \/ (pump.pc \in {"ask", "settle"} /\ pump.cur = t)

\* Work in flight stays in the queue and keeps its entry, so that its outcome
\* finds both: cancelled work is not forgotten before it has let go.
InFlightVisible == \A t \in inflight : Present(t) /\ entry[t].known

\* "An override is not remembered.  It applies to the attempt it was pressed
\* for": work that goes back in line does so without one.
OverrideNotRemembered ==
    [][\A t \in Tasks : State(t) = "running" /\ State(t)' = "queued"
                            => ~entry'[t].override]_vars

\* What the user is shown of a task in each of its states.
Shown == [s \in TaskStates \cup Absent |->
    CASE s = "new"                      -> "unknown"
      [] s = "queued"                   -> "waiting"
      [] s \in {"paused", "interrupted"} -> "held"
      [] s \in {"done", "failed"}       -> "settled"
      [] s = "cancelled"                -> "withdrawn"
      [] OTHER                          -> s]

Committed == {t \in Tasks : work[t].committed}

Promise == INSTANCE RequestPromise
              WITH stage <- [t \in Tasks |-> Shown[State(t)]],
                   machine <- inflight,
                   answered <- Committed

\* The scheduler, its pump, the reader's commands and the worker threads keep
\* what the queue promises of a request, step by step: no order of their lock
\* sections runs two requests, answers one twice or after its stop was
\* accepted, or lets a request that is over come back.
KeepsPromise == Promise!Spec

-----------------------------------------------------------------------------
(* Liveness *)

\* Threads keep running and time keeps passing.
Fairness ==
    /\ WF_vars(PumpStep)
    /\ WF_vars(StartPump)
    /\ SF_vars(AdvanceTime)
    /\ \A t \in Tasks : WF_vars(Begin(t)) /\ WF_vars(Report(t))
                                          /\ WF_vars(Release(t))

\* A model call ends by itself.
CallsEnd == \A t \in Tasks : WF_vars(\E o \in Outcomes : Return(t, o))

\* A model call ends only when its answer is there or its request was closed;
\* left alone it may hang.
StoppedCallsEnd ==
    \A t \in Tasks : WF_vars(/\ work[t].run # "live" \/ work[t].committed
                             /\ \E o \in Outcomes : Return(t, o))

FairSpec == Spec /\ Fairness /\ CallsEnd
HangingSpec == Spec /\ Fairness /\ StoppedCallsEnd

\* A waiting task is eventually started, paused or cancelled once nothing holds
\* the queue, even after a reservation was left behind (Launch) and when the
\* pump was asleep as the task arrived.  A user who keeps resuming another
\* task may keep it waiting.
QueuedIsServed ==
    /\ <>[]~Held
    /\ <>[][\A t \in Tasks : ~ResumeTask(t)]_vars
    => \A t \in Tasks : State(t) = "queued" ~> State(t) # "queued"

\* Cancelling running work frees the machine although a model call may hang.
CancelFreesMachine ==
    \A t \in Tasks : State(t) = "cancelled" ~> t \notin inflight

\* While the safety floor keeps refusing, a run that would hang is stopped, in
\* whatever place of its start the first request to stop found it.
SafetyStopWorks ==
    \A t \in Tasks : pump.refusing /\ work[t].run = "live"
                        ~> ~pump.refusing \/ work[t].run # "live"
=============================================================================
