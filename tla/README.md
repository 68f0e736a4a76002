# Formal model of Qronos

Qronos is a desktop assistant that runs language models on the user's own
machine.  This directory holds TLA+ modules that model four of its parts from
their Python source, TLC configurations that check them on small instances, and
TLAPS proofs about each of the four for every value of their constants:

* the **Smart Queue**, which answers requests in the background when the machine
  can spare the time;
* the **foreground turn**, with Stop, Pause, Resume, close and approvals;
* the **device link**, over which paired phones send commands;
* the **updates**, from the request to the first start of the new build.

`PROJECT.json` lists, in a form tools can read, the components, the runs, the
mutants, the lines every definition models, the findings, the hazards and the
theorems.

## 1. Inventory

### What is modelled

| Part | Source (`src/core/`) | State | Operations |
|---|---|---|---|
| The line | `safe_queue.py` | each task's state, attempts, place | submit, restore, start, transition, resume, requeue, forget_finished |
| The governor | `resource_governor.py` | reservations with leases | request, release, renew, expiry |
| The scheduler | `queue_scheduler.py` | an entry per task, work in flight, holds, the wake event | the pump's `tick`, submit, restore, pause, resume, override, cancel, the holds, report_outcome, stop, interrupt_running |
| The work | `queued_conversation.py`, `inference_cancellation.py` | cancelled, committed, the current run | begin_run, pause, preempt, cancel, interrupt, commit, execute |
| The journal | `queue_journal.py`, `json_store.py` | records, storage status, one file | open, add, update, set_paused, save, prune |
| The foreground gate | `foreground_lifecycle.py` | the active turn, the transition, cancelled turns | begin, end, publication, transition, report |
| Computer actions | `action_cancellation.py` | an epoch, the actions in flight, each turn's mark | mark_turn_start, begin, cancel_all, the checks |
| Prompts | `approval_ledger.py` | an identity per prompt and its state | issue, take, revoke, resolve, expiry, close |
| The bridge | `runtime_bridge.py` | paused, busy, the approval lease, threads | turns, decisions, Stop, Pause, Resume, close; the queue's recovery, announcements and handlers |
| Devices | `link_devices.py` | the device file and each process's copy | get, create, activate, touch, revoke, remove, refresh |
| Pairing | `link_pairing.py` | the one window | open, complete, cancel, expire_if_due |
| Commands | `link_commands.py` | what became of each command, the account of kept answers | begin, finish, forget_device, expiry, eviction |
| The link server | `link_server.py`, `link_runtime.py` | connections, sessions told to end | handshake, request, validity check, dispatch, answer, revoke, restart |
| Update store | `local_update.py` | the staged package and its phase | stage, handoff, confirm, discard |
| Admission | `store_admission.py`, `update_service.py` | the shared lock and the fence | admit_writer, admit_exclusive, the launch's hold |
| Updates | `update_service.py`, `startup_admission.py` | request, grant, claim, handoff, outcome, copies of the data | request, approve, discard, launch, the start-up barrier, pending_on |

How they interact.  *Queue*: the reader thread handles the desktop's commands one
at a time; the user's own turn submits requests and sets the busy flag; the pump
thread looks at the machine every two seconds and starts at most one task; each
task has a worker thread.  They share the scheduler's lock, but a pass of the
pump and an override are several lock sections with unlocked reads between them;
announcements take a view under that lock and write it to the journal under
another.  *Turns*: each request has a thread of its own; commands come on the
reader; both pass the foreground gate, but the registry of actions and the
ledger of prompts have their own locks.  *Link*: each connection is served by a
thread; pairing has no lock, the device file is shared between processes, and
the person revokes in three steps.  *Updates*: processes agree through files, a
byte-range lock and a mutex that outlives its creator.

What is hard there: stops from several sides racing an answer; values read under
a lock and used after it; leases, prompts and windows that run out as they are
used; commands that are repeated because an answer was lost; crashes, refused
writes and power cuts between any two durable writes; calls that hang.  The
`hazards` of `PROJECT.json` name the lines.

### The rest of the program

| Component | Main sources | Hard behaviour | Here |
|---|---|---|---|
| Hard floor, load signal | `hard_floor.py`, `load_signal.py` | hysteresis and dwell at their edges | nondeterministic inputs of the scheduler |
| Media host | `qronos_media/` | child processes that do not die | its claim on the governor |
| Supervisor | `supervisor.py`, `supervisor_ipc.py`, `supervisor_relay.py` | a lost runtime is replaced once | not modelled |
| Undo, audit, history | `undo_journal.py`, `append_only_log.py`, `activity_history.py` | a crash between an action and its record | not modelled |
| Permissions, watching | `permission_control.py`, `protection_engine.py`, `watching_eyes.py` | decision tables | not modelled |
| Conversations, memory | `conversation_history.py`, `user_memory.py` | | "is this request answered?" |
| Turns' content, workflows, executors, drawing, vision, voice, web, settings, storage, the desktop and phone applications | | text, images, devices, other programs | not modelled (section 6) |

## 2. Modules

| Module | Models | Reaches |
|---|---|---|
| `SafeQueue` | the line and its table of moves, as operators on `queue` | |
| `ResourceGovernor` | reservations as remaining lease time | `SafeQueue` |
| `QueueScheduler` | pump, reader, workers, closing, time, the media host's claim | `ResourceGovernor` |
| `MCQueueScheduler` | the sets of commands, zones and levels of each run | `QueueScheduler` |
| `RequestPromise` | abstract: what the queue promises of a request | |
| `QueueSchedulerProofs` | proofs | `QueueScheduler` |
| `QueuePromiseProofs` | proof of the refinement | `QueueSchedulerProofs`, `RequestPromise` |
| `DurableQueue` | the journal, announcements, recovery, crashes, closing | |
| `DurableQueueProofs` | proofs | `DurableQueue` |
| `ForegroundLifecycle` | the gate of the foreground | |
| `ActionCancellation` | the registry of computer actions | |
| `ApprovalLedger` | prompts and their identities | |
| `TurnControl` | turns, decisions and commands over the three | the three |
| `TurnControlProofs` | proofs | `TurnControl` |
| `LinkDevices` | the constants the link's modules share | |
| `DeviceRegistry` | the device file and its copy | `LinkDevices` |
| `PairingService` | the pairing window | `LinkDevices` |
| `CommandLedger` | what became of each command | `LinkDevices` |
| `DeviceLink` | connections, the person, the sweeper, other processes | the three |
| `OnceOnly` | abstract: what a phone is promised of a command | |
| `MCDeviceLink` | the instance of `DeviceLink` | `DeviceLink` |
| `DeviceLinkProofs` | proofs, the refinement among them | `DeviceLink` |
| `Builds` | versions and what installing one would be | |
| `UpdateStore` | the staged package | `Builds` |
| `StoreAdmission` | the lock and the fence | |
| `DataSnapshots` | the data and its copies | `Builds` |
| `UpdateLifecycle` | requests, launches, the installer, starts, crashes | the four |
| `MCUpdateLifecycle` | the instance of `UpdateLifecycle` | `UpdateLifecycle` |
| `UpdateLifecycleProofs` | proofs | `UpdateLifecycle` |
| `UpdateFormatProofs` | proofs about the formats of the data | `UpdateLifecycleProofs` |

**SafeQueue, ResourceGovernor.**  Every method of the two classes runs under a
lock and is one operator.  `"new"` and `"forgotten"` stand for an identifier
that `_tasks` does not hold.  A reservation is the number of units of time it
has left; an expired reservation is dropped before anything looks at it, so 0
is both "expired" and "none".

**QueueScheduler.**  One action per lock section, or per unlocked read whose
value is used later.  A pass of `tick` is `Observe` (reading, forgetting,
renewing), `Protect`, `Attribute`, `Ask`, `Settle` (the running check and the
stop outside the lock), `Gate`, `Scan`, `Check`, `Decide`, `Request`, `Launch`,
`Handover`; `pump.pc` is the place in it and the other fields of `pump` are the
locals that live across sections.  An override is `OverrideAsk` and
`OverrideAnswer`.  A worker is `Begin`, `Commit`, `Return`, `Report` and, after
the lock was let go, `Release`.  The sleep of an idle pump is `Rest`, `WakeUp`
and `ClearWake`.  The floor's verdict is a zone: `"clear"` and `"breach"` decide
alone, `"between"` (between the start line and the resume line) refuses only
what was refused before.  Data left out because no decision reads it: hold
reasons, texts, revisions, events.

**RequestPromise.**  For each request the stage the user is shown (unknown, waiting,
held, running, settled, withdrawn, forgotten), the machine, and the requests that
were answered.  `QueueScheduler` maps to it by the table `Shown`, `inflight` and
the committed flags: threads, labels, leases, attempts and timers disappear.  Each
abstract step is one user-visible event (taken, answered, stopped, let go of the
machine, forgotten) with the condition under which it may happen at all; the
scheduler's steps between its locks either are such an event or stutter.

**DurableQueue.**  The other half of the queue's life: what the disk knows.  The
scheduler is reduced to the moves it may make; each move leaves its thread at
`"view"`, and `View`, `Apply` (one journal update per task) and `Announced`
follow.  `Save` is the whole file or nothing (the rename in `json_store.py`), and
each save may be refused.  `Crash` is possible wherever the process is up, during
recovery too.  `Damage` makes the file unreadable, and readable again, between
two starts.  A start opens the journal (`Open`), or fails to (`OpenFails`): the
conversation, which is asked about every unfinished record, cannot be read, or
the file's bytes are no text.  The journal then counts as opened with the records
it had read, and its status, `"unopened"`, keeps it from no write; the bridge
reports the failure and starts the queue.  `unread` records what such a start
left behind in the file.  The same question before a run (`Begin`) may fail too,
and then counts as "no answer yet".  `Close`, `CloseTask` and `Exit` are
`_interrupt_queued_conversations` and the rest of `_close`.  Three history
variables record what the user could see: `lost` (told that it will not come
back), `cutOff` (its run ended with the process) and `settled` (it has finished
at some time, so its record may be pruned).  Requests in `Earlier` were answered
and saved before the model begins, so that pruning and the final records are
reached with two tasks.

The two specifications are not composed: their product is too large for TLC.
Instead each leaves the other's part open.  `DurableQueue` may start, pause,
requeue and forget whenever the table of moves allows, and `QueueScheduler`
assumes nothing of the journal.  Two interleavings of the whole are narrower in
`DurableQueue`: requests are submitted by the reader only (in the program the
user's own turn submits too, on its thread), and work whose thread could not be
started is reported by a worker (in the program by the pump).

**TurnControl.**  A worker is the thread of one request; its actions are the
places where the code looks at something shared: admission, counting itself
busy, marking the epoch, the check before and the registration of a computer
action, its native step, the two checks of a file action, the lease, the prompt,
the publication, the report, and the end.  A command is the list of calls it
makes (`Calls`), in the order of the source, under the gate's transition; `epoch`
and `tokens` are the two halves of cancelling the actions.  A decision on a file
prompt is read, taken, carried out, may grant the lease, and is told.  A prompt
is a ticket with the request that owns it.  History variables hold what nobody
in the program knows: `words` (last words said to each request), `answered`,
`takes`, and what each action's checks saw (`passed`, `joined`, `stopped`).

**DeviceLink.**  The place of every thread is `job`.  The registry has the file,
the copy of the link's process and whether that copy is up to date; another
process can change the file at any moment.  `PairingService` has no lock in the
code and so each of its reads and writes is a step of its own, but for the two
statements in which a cancel reads the window and clears it: CPython switches
threads at neither (`CancelDrop`).  A device to be removed that is gone already
raises out of the cancel, and on the accept loop would end the loop; only another
process that removes devices could bring that about, and none is modelled
(`CancelRemove`).  A phone holds one connection, may lose it, and asks again
under the same id on the next one; `asks` is a budget.  An entry of the ledger
says whether the command is running or done, what it was for, whether its answer
is kept and whether its time has passed.

**OnceOnly.**  For each command of a device: unknown, running, done; for a device:
new or struck off.  `DeviceLink` maps to it by `Fate`, which looks at the
handlers that are at work and not at the ledger's word for it: two handlers of
one command would be `"twice"`, which the abstract specification does not have.

**UpdateLifecycle.**  A step is what lies between two durable writes, so that
`Kill`, `KillLauncher` and `PowerCut` fall between any two.  `data` is the format
and content of the stores; replacing them file by file makes them `Torn` in
between; `truth` is what the build that is installed should find.  The installer
is outside this source: it installs or fails, with or without a receipt, and
replaces the program only while no process runs from it.  Every version changes
the format of the stores and reads the older ones.  The store lock is waited
for ten seconds, longer than a barrier takes.  The copies of the data are a set;
their numbers are the order of the list in the file.  A copy is an entry of that
list and a folder of files, and the two go at different times: taking a copy
deletes the folders of those it pushes out, the oldest first (`DropCopy`), and
saves the list without them afterwards (`TakeSnapshot`).  A launch that dies in
between, or cannot save, leaves entries whose files are gone (`whole` is false).
What chooses, pins and looks up copies reads the list only; a restore from such
an entry fails before it touches the data.  `Pruned` says of the loop
that drops the oldest loose copy "while there are too many" which copies are
left: the pinned ones, and a loose one if there are not too many once the loose
copies older than it are gone.

## 3. What TLC checks

Passing runs:

| Run | Instance | Shows |
|---|---|---|
| `MCStops` | 2 tasks, one heavy; pause, resume, cancel, the user's turn; every zone; 1.9 million states | `OneAtATime`, `AnswerOrStop`, `AttemptsBounded`, `NoStalePreemption`, `InFlightVisible`, `TypeOK` |
| `MCLifetime` | 2 heavy tasks, new or restored, cancelled and resumed, media host, holds, performance mode, a runner that fails, a close; 0.9 million | `HeavyExclusive`, `KeepsPromise`, and the rest of the actions without deadlock |
| `MCServed` | 2 tasks, pause and resume, fair threads and calls that end | `QueuedIsServed` |
| `MCHanging` | 1 task, every stop and an override, calls that may hang | `CancelFreesMachine`, `SafetyStopWorks` |
| `MCDurable` | 1 new and 1 earlier request, all commands, all faults; 0.3 million | `StorageHonest`, `OneAnswer`, `SavedRequestKept`, `SavedOutcomeFinal`, `TypeOK` |

* **OneAtATime**: never two pieces of work on the machine, cancelled ones whose
  call is still open included.
* **HeavyExclusive**: heavy work on the machine is the governor's one live heavy
  claim; its lease did not lapse and no earlier report gave it back.
* **AnswerOrStop**: the commit point orders the answer and the stops.
* **AttemptsBounded**: no sequence of requeues, preemptions, resumes and restores
  admits a task more than `max_attempts` times before the user is asked.
* **NoStalePreemption**: no later run is blamed on an earlier safety stop.
* **InFlightVisible**: work in flight is not forgotten.
* **QueuedIsServed**: no lost wake-up, and a reservation left behind by a start
  that was refused only delays.
* **CancelFreesMachine**, **SafetyStopWorks**: stops work on calls that hang, in
  whatever moment of a start they come.
* **StorageHonest**: while the journal says "durable", the file is its records.
* **SavedRequestKept**: an unfinished request never vanishes from the file, but
  by the hand of a process whose recovery failed before it read that request
  (`unread`); `MCDropped` shows that such a process does drop it.
* **SavedOutcomeFinal**: a saved outcome is never rewritten.
* **OneAnswer**: one answer per request over any number of runs and crashes.

| Run | Instance | Shows |
|---|---|---|
| `MCTurns` | 2 turns, 2 prompts, 1 thread of decisions, 2 commands of the four; 0.4 million | `OneTurn`, `OneLastWord`, `OwedAWord`, `NextTurnIsFree`, `HonouredOnce`, `StopHolds`, `ForegroundIsReturned`, `TypeOK` |
| `MCLink` | 2 phones, 2 ids, 2 operations, 2 connections, 3 requests, 1 command remembered per device and 1 answer kept; 0.5 million | `RetainedHonest`, `AnswerIsOwn`, `PendingIsOffered`, `RevocationIsFinal`, `RevokedIsRefused`, `KeepsPromise`, `TypeOK` |
| `MCUpdate` | 3 versions, 2 processes, 2 launches and 1 more for a lost copy, 1 crash, 1 copy kept; 0.6 million | `DataIsTrue`, `AloneInStores`, `InstallerOnRecord`, `CopiesAreKept`, `HonestOutcome`, `NeverNewer`, `StartsAgain`, `TypeOK` |

* **OneTurn**: the gate gives the foreground to one turn at a time, whatever the
  busy flag says in between.
* **OneLastWord**, **OwedAWord**: a request hears one last word at most, from the
  five places that may say it; one that heard none has left a prompt, and only a
  prompt that ran out answers nobody.
* **NextTurnIsFree**: a Stop never stops the turn after it.
* **HonouredOnce**: a prompt's identity is honoured once, and only while open.
* **StopHolds**: after an acknowledged Stop, Pause or close the turn it found
  running publishes nothing and starts no step, no write and no prompt.  The
  property names the two ways the code lets something through: a start marked
  after the command, and a registration that straddles it.
* **ForegroundIsReturned**: turns and commands that wait for each other end.
* **RetainedHonest**: the account of the kept answers is what is kept.
* **AnswerIsOwn**: a phone is sent the answer to what it asked.
* **PendingIsOffered**: a device half paired is the one on the screen.
* **RevocationIsFinal**, **RevokedIsRefused**: no write brings a revoked device
  back, and no request of one passes the check.
* **KeepsPromise** (link): `DeviceLink` implements `OnceOnly`.
* **KeepsPromise** (queue): `QueueScheduler` implements `RequestPromise`.  It says
  of steps what the invariants say of states: only a free machine takes a request,
  an answer comes from the request on the machine, once and before any stop, a
  stop never takes an answer back, a report changes nothing of a task that was
  stopped, and what is over never runs again.
* **DataIsTrue**: an open process has the data of its build, whatever died.
* **AloneInStores**: nobody is in the stores with a launch or an installer.
* **InstallerOnRecord**: no installer runs that the next start does not know of.
* **CopiesAreKept**: the safety copies that a start may have to put back stay on
  the list with all their files, whatever launch died while it deleted the files
  of others; the copies an approval refers to stay on the list.  That these have
  their files is false (a finding); the run goes on to the launch that meets such
  a copy, which leaves the data as it is (`DataIsTrue`).
* **HonestOutcome**: an update recorded as applied was, and one recorded as not
  applied was not.
* **NeverNewer**: no build opens data in a format newer than it reads: the copy
  chosen at the request still fits when the old version starts.
* **StartsAgain**: after any interruption Qronos starts again, but for a handoff
  that is left behind (two ways, both findings).

### Where the code and its documentation disagree

`findings` in `PROJECT.json` quotes the lines.  Four of the disagreements have a
run of their own, which expects a violation:

* `MCOverride`: an override decided while the pump starts its task is set after
  the start and outlives that attempt ("An override is not remembered").
* `MCReplay`: the reader's view, taken while a task waited, can be applied after
  the pump's announcement of its start; after a crash the task comes back queued
  and runs unasked.
* `MCToldLost`: with a disk that refuses writes since the request was saved, the
  user is told at the close that it will not come back, and it does.
* `MCDropped`: the conversation cannot be read while the journal opens; the queue
  starts with part of the records, and the next save drops the unfinished
  requests after them from the file ("a silently dropped request is the failure
  this module exists to prevent").

The others are behaviours the passing runs contain, and their properties are
stated so that they say exactly what holds:

* in `QueueScheduler`: one task old enough to be forgotten takes every finished
  task with it;
* in `DurableQueue`: a damaged file whose bytes are no text is not taken for a
  corrupt one, and the next save replaces it;
* in `TurnControl`: a computer action registered between the two halves of a
  Stop; a turn that marks its epoch after a Stop; a prompt issued after a Pause; a
  lease granted after a Stop has cleared it; a prompt that ran out and left its
  request without a word;
* in `DeviceLink`: two connections that complete one pairing; a cancel that
  removes a device as it is admitted; a revocation that leaves a session to be
  ended by its next request; a command that took longer than the time to live
  and is done twice; "in progress" for a command nobody has begun;
* in `UpdateLifecycle`: a start that is refused for good, after a crash between
  the two saves of the barrier or after an approval over an unconfirmed repair; a
  rollback whose own copy is pruned as it begins; a rollback offered with a copy
  whose files are gone, because a launch died between deleting them and saving the
  list; receipts removed before what they prove is recorded.

### Bounds, and why they are enough

Two tasks are enough for every interference the code has between tasks: the
scheduler compares a task with the one in flight, and the governor's rule is
about a second owner (the media host is a third).  `MaxAttempts = 1` makes the
limit bind at once.  `PreemptAfter = 1` reaches the stop at once, and
`MCHanging` uses 2 so that a count can be interrupted.  `LeaseTicks = 2` is the
shortest lease the assumption allows.  `RetryTicks = 3` in `MCServed` keeps a
deferral longer than a lease; `HistoryTicks = 1` (`MCServed`, `MCHanging`) separates
"finished now" from "finished long ago".  `MaxAnswers = 2` lets a second answer
be seen.  `MaxFinished = 1` makes pruning happen with two requests.  No run gives
all commands at once; each set in `MCQueueScheduler` holds those that meet in one
question, and the proofs need no such choice.

`MCTurns`: two turns are one that runs and one that is next; the second command
can undo the first, or close after it; one thread of decisions meets both turns'
prompts.  `MCLink`: with one command remembered per device and one answer kept,
the second request meets every limit; a conflict needs two operations, a repeat
two connections; three requests are a command, its repeat and another.
`MCDeviceLink` shares the requests out by how the phones stand at the start
(`asks` counts the requests used up): one paired and one revoked have all three,
both paired have two left, and phones of which one or both are yet to be paired,
and none is revoked, have none, as pairing itself has states enough.  Another
process revokes only while there are requests to come.  The proofs have neither
restriction.  `MCUpdate`: three versions give an upgrade, a repair and a
rollback in one behaviour; two launches let the second meet what the first left;
one crash is between any two writes; `Keep = 1` makes pruning happen at the
second copy; `MaxContent = 2` tells the data before and after.  `approvals` is
only a bound.  `MaxApprovals = 3` is one approval more than launches:
`MCUpdateLifecycle` keeps it for a rollback whose copy has lost its files, which
takes an upgrade, a launch that dies as it deletes the files, and that rollback.
`MCDropped` has two requests, one that recovery reads and one
that it does not; the other runs of the journal that expect a violation need
one.

Time: a unit is long against a pass of the pump and against the gap between a
report and its release (the configured lease is many passes long), so at most
one unit passes without a renewal unless the pump sleeps, and none between the
two.  The governor's clock is the wall clock; a machine that sleeps, or a clock
set forward by more than a lease, is outside this assumption.

Deadlock is checked in every run of the queue and in `MCLink`: a closed scheduler
stutters in `Ended`, `DurableQueue` can always start again, and the link can
always be restarted.  It is not checked in the others (`CHECK_DEADLOCK FALSE`),
which really stop: `MCTurns` when its requests and commands are used up, and
`MCUpdate` when its bounds are.  Their liveness properties
say that nothing stops halfway.

### Fairness

`Fairness`: the pump's and the workers' next steps are weakly fair (daemon
threads the operating system schedules), and time passes strongly fairly (it is
disabled again and again by passes that have not renewed yet).  `MCServed` adds
that model calls end (`CallsEnd`).  `MCHanging` only assumes that a call ends
when its answer is there or its request was closed (`StoppedCallsEnd`).
Commands are never fair: nobody has to press anything.  `QueuedIsServed`
supposes that the queue is not held forever, and that the user does not go on
resuming another task forever, which would restore its attempts each time.

In `TurnControl` a turn or the command in progress goes on while one of them can
(one weak fairness over both): a command's calls return, and threads are
scheduled.  Nobody has to answer a prompt or press Stop.  In `UpdateLifecycle` the
person starts Qronos again when it is not running, a launch and an installer come
to an end, and the steps of a start are strongly fair: another start may hold
the store lock again and again, and the lock is retried for ten seconds.
`DeviceLink` has no fairness: what it promises is safety.

### Mutants

Every property of a passing run has a mutant: a definition replaced by the form
a plausible mistake would give it (comment `Mutant:` in the modules), under
which TLC finds the property violated.

## 4. What is proved

### The scheduler

`QueueSchedulerProofs` proves for every set of tasks, all limits and timers
allowed by `WeightAssumption`, `LeaseAssumption` and `SchedulerAssumption`, every
set of commands, zones and levels:

| Theorem | Property |
|---|---|
| `Invariant` | `Spec => []IInv` |
| `TypeCorrect` | `TypeOK` |
| `MachineExclusive` | `OneAtATime` |
| `HeavyClaimExclusive` | `HeavyExclusive` |
| `AnswerFinal` | `AnswerOrStop` |
| `AttemptLimit` | `AttemptsBounded` |
| `PreemptionCurrent` | `NoStalePreemption` |
| `InFlightRemembered` | `InFlightVisible` |
| `PromiseIsKept` (`QueuePromiseProofs`) | `KeepsPromise`: `QueueScheduler` implements `RequestPromise` |

None of the properties is inductive as it stands.  `IInv` adds what makes them
so:

* `InvInflight`: `inflight` is exactly the work on the machine plus the task being
  handed over, there is at most one, and there is none from the moment `Scan`
  found the machine free until `Launch` takes it, although commands run in
  between.  `OneAtATime` follows.
* `InvRunning`: a running task is in flight; a task in flight that no longer runs
  was told to stop.  This is why its late commit is refused, and why the
  forgetting of finished tasks must keep what is in flight.
* `InvCommit`: a committed task that still runs has a worker that is at work or
  carries "done" or "failed"; so no report can requeue it.
* `InvAttempts`: once `Decide` has chosen a task its attempts are below the limit
  and only `Launch` raises them; recovery is over before the pump starts.
* `InvPreempted`: a stop that was accepted and not consumed belongs to work in
  flight, so `Settle` withdraws the right one.
* `InvLease`: one heavy claim at a time; the user's lease is at most one unit old
  and whole right after a renewal; no release is pending for it (a pending
  release keeps its old lease alive, and the governor refuses even the same
  owner until it is gone).

The proof has one lemma per conjunct and group of actions, over lemmas on what
the queue's and the records' operators do to types and states.

`QueuePromiseProofs` takes the inductive invariant and maps each action to the
abstract step it is.  Seven kinds of step are visible, and each needs a part of
`IInv`: `Launch` is `Take` because nothing is in flight from `Scan` on
(`InvInflight`); `Commit` is `Answer` because work that was not told to stop is
still running, and is the one on the machine (`InvRunning`); `Report` is `Vacate`
because only "done" and "failed" can carry a committed answer (`InvCommit`);
`InterruptRunning` moves one request although it speaks of all that run, because
what runs is in flight; `Cancel` never lands on a committed request that still
waits, because there is none (`InvCommit`); `Observe` forgets what is over and off
the machine; submitting, restoring, pausing (by the user or after too many
attempts) and resuming are `Enter`, `Hold` and `Resume`.  Every other step leaves
the stages, the machine and the answers alone (`QuietStep`).

### The journal

`DurableQueueProofs` proves for any tasks, threads, limits, commands and faults
(`JournalAssumption`) every invariant and action property of `MCDurable`.  The
specification they speak of includes the recovery that fails halfway:

| Theorem | Property |
|---|---|
| `JournalInvariant` | `Spec => []Inv` |
| `JournalTypeCorrect` | `TypeOK` |
| `StorageIsHonest` | `StorageHonest` |
| `OneAnswerCorrect` | `OneAnswer` |
| `SavedRequestCorrect` | `SavedRequestKept` |
| `SavedOutcomeCorrect` | `SavedOutcomeFinal` |

`Inv` adds to the types:

* `Down`: a process that is down has nothing to announce and no work under way,
  and its journal is unopened, so nothing it was about to say reaches the file of
  the next one.
* `JournalInv`: `StorageHonest`; what the file or the journal knows was asked, and
  what the journal calls finished is settled; and, while the process is up and its
  file not protected, `Follows`: what was saved as finished is still so or
  forgotten, what was saved as unfinished is still known, has finished, or was
  left `unread` by a recovery that failed.  `Follows` is needed because a file may
  lag behind the journal for any number of failed writes, and the write that
  succeeds at last must not undo what an earlier one promised.
* `AnswerInv`: recovery comes before any work (`RecoversFirst`); where a task is
  while something is done for it, in particular that work which may still be kept
  from answering (`Uncommitted`) was ended or is open and running (`Placed`); and
  one answer at most, with no work under way that could give a second
  (`Unanswered`).  This is why recovery looks for an answer in the conversation
  before it runs a request again, and why a recovery that could not look puts
  nothing back in line.

Whatever is saved, updated, announced late or pruned is a `JournalStep`, and
`StepKeepsJournal` carries `JournalInv` over all of them; opening a file, failing
to open it, a death of the process and damage to the file have lemmas of their
own.

### The foreground turn

`TurnControlProofs` proves for every set of workers and answerers, every finite set
of identities and any number of commands (`TurnAssumption`, `TicketAssumption`)
all that `MCTurns` checks but the liveness:

| Theorem | Property |
|---|---|
| `TurnTypeCorrect` | `TypeOK` |
| `OneTurnCorrect` | `OneTurn` |
| `NextTurnCorrect` | `NextTurnIsFree` |
| `StopCorrect` | `StopHolds` |
| `OneLastWordCorrect` | `OneLastWord` |
| `OwedAWordCorrect` | `OwedAWord` |
| `HonouredOnceCorrect` | `HonouredOnce` |

The invariants, each proved on top of the ones before:

* `Typed`: the types.  `OneTurn` is then inductive as it stands.
* `GateInv`: while the command in progress has an epoch to advance or actions to
  cancel, nobody holds the foreground but a turn it cancelled, and the actions it
  counted are cancelled by its very next call (`CallsInv`); cancelled and aborted
  turns are turns a command found (`StopInv`); a registered action belongs to a
  turn that acts, and a turn that no command found is not stopped (`Free`).
  Together: a command never reaches a turn that came after it, although
  the epoch, the tokens and the marks are three variables under two locks.
* `HoldInv`: what a turn's check read is not newer than the epoch, and an action
  that was registered in an older epoch is among the ones about to be aborted
  (`Counted`).  This is what makes the exceptions of `StopHolds` complete.
* `WordsInv`: an account for every request.  It has heard nothing while its turn
  works (`Owing`); afterwards it has heard one word or is owed one by a prompt
  that is open, being decided, or ran out (`Owed`); it has one file prompt at
  most, and an identity is held by one decision at most.
* `Untaken`: what is not settled was not taken.

The ledger stands alone here too: a step is quiet (it settles only screen prompts,
and others by time or by close, which answers nobody), fresh (it issues an
identity), spent (it takes one) or discards all file prompts, and one lemma for
each kind carries the account over it.

### The device link

`DeviceLinkProofs` proves for every finite set of devices and of command ids, any
operations, connections and limits allowed by `LedgerAssumption` and
`LinkAssumption`:

| Theorem | Property |
|---|---|
| `InvariantHolds` | `Spec => []Inv` |
| `LinkTypeCorrect` | `TypeOK` |
| `RetainedCorrect` | `RetainedHonest` |
| `AnswerIsOwnCorrect` | `AnswerIsOwn` |
| `RevocationCorrect` | `RevocationIsFinal` |
| `RefusalCorrect` | `RevokedIsRefused` |
| `PendingCorrect` | `PendingIsOffered` |
| `PromiseKept` | `KeepsPromise`: `DeviceLink` implements `OnceOnly` |

`Inv` has four parts:

* `BaseInv`: types; an up-to-date copy equals the file (`SeenIsFile`); the account
  equals the cardinality of what is kept, and only finished commands keep an
  answer (`LedgerInv`); a thread past the handshake serves a device that was let
  in (`Standing`), so nothing is remembered of a device that never was.
* `WorkInv`: for every device the ledger and the handlers agree (`Sound`: a command
  runs in the ledger exactly while one handler is at it, its kept answer and the
  answer about to be sent are its own) **or** the device is off and every session
  past the check was told to end (`Cut`).  The alternative is needed because
  `forget_device` empties the ledger under handlers that are still at work; it is
  why `AnswerIsOwn` speaks of sessions that may still send.
* `FreshBlank`: nothing is remembered of a device before it was let in.
* `CutByPerson`: between `end_sessions` and `forget_device` the device is `Cut`.

The ledger's arithmetic stands alone first: `BeginShape`, `FinishShape` and
`AgeShape` say what an operation does to the entries, and the `...IsHonest`
lemmas, over `FiniteSetTheorems`, that the account follows.  Most actions only
move a thread and are `Quiet`; each has a lemma that says so, and `QuietKeepsInv`
handles them all.

`PendingIsOffered` speaks of moments when nobody is at work on the window.
`OfferInv` says what holds in between: a window is of a device that exists; a
thread that drops a pending device has taken its window off the screen first; the
person opens a window only when nothing is open; and a pending device is on the
screen, was replaced there, or is being dropped.  All but four actions leave it
alone (`Elsewhere`).

For the refinement, `StateIsShown` turns `Fate`, which counts
handlers, into `Outcome`, which reads the ledger; every step is then a step of
one device of the promise, a new start, or a stutter.

### The updates

`UpdateLifecycleProofs` and `UpdateFormatProofs` prove for every set of versions
and of processes, any number of copies to keep, and any number of launches,
writes, deaths and power cuts all that `MCUpdate` checks but the
liveness:

| Theorem | Property |
|---|---|
| `UpdateInvariant` | `Spec => []Inv` |
| `UpdateTypeCorrect` | `TypeOK` |
| `OpenStoresAreTrue` | `DataIsTrue` |
| `UpdatesAreAlone` | `AloneInStores` |
| `InstallersAreOnRecord` | `InstallerOnRecord` |
| `ReferredCopiesAreKept` | `CopiesAreKept` |
| `OutcomesAreHonest` | `HonestOutcome` |
| `FormatsAreRead` | `Spec => []FormatInv` |
| `NeverNewerData` | `NeverNewer` |

It assumes that versions are positive numbers (`VersionAssumption`), that the
bounds are numbers and at least one copy is kept (`BoundsAssumption`,
`KeepAssumption`), that no process is called "launcher" (`ProcessAssumption`)
and that `None` is no record (`PackageAssumption`, `NoneAssumption`).

`DataIsTrue` speaks of the end of a chain of steps, each of which may be the last
before a crash.  `Inv` says what holds in between:

* `AloneInv`: nobody has the stores open, or is at the barrier, while a launch or
  its installer is alive; this is what lets each of them work on facts that
  nobody changes.
* `RequestInv`: what is asked for, approved or staged has the kind it would have
  for the build that runs, and a grant lives only while nothing is launched and
  no data hangs on a handoff (`Harmless`).  An unconfirmed outcome is of a repair,
  which has no data to put back, so a start may go on with it.
* `LaunchInv`: at each place of a launch, what the claim, the handoff and the
  launching process know of it.
* `HandoffInv`: a handoff is of the version that runs if its installation took
  place, and else still of the kind it was approved as.  So a start can
  tell the two apart by the version, except for a repair, where it needs the
  receipt.
* `DataInv`: the data is what it should be (`truth`), or a claim says it is being
  replaced (`Interrupted`), or a handoff's rollback has not taken place
  (`RolledBack`); in both of these a copy that is kept with its files holds the
  truth (`Keeps`).  While an
  installer runs, the data is the copy its version will find.
* `BarrierInv`: what the start at each place of the barrier has found out, so that
  it records "applied" only with nothing to put back, and "not applied" only with
  the data put back.
* `KeptInv`: the copies that are referred to are listed, and the safety copies
  among them have their files, one record at a time.

The copies stand alone first: `CopyForIs`, `PrunedIs` and `TakeSnapshotKeeps` say
that a rollback is offered a copy that is listed, and that taking one loses none
of the pinned ones; `DropOldestKeeps` that the files which go before the list is
saved are never those of a pinned copy; `KeptIsThere` that a copy with its files
holds what was taken; `SnapshotIs` and `ListedIs` say what a number looks up.
`SaveData` takes a copy while the one that is about to be put back is not pinned;
this is why `CopiesAreKept` says nothing of the copy being put back, and why the
launch looks it up again before each use.  Then there is one lemma for every
action, over `Untouched`, which says what a step that leaves some of the
variables alone cannot disturb.

`NeverNewer` needs an invariant of its own, `FormatInv`, which is inductive only
together with `Inv`.  A rollback's copy is chosen when it is asked for
(`CopyForFits`) and its number passes from the request to the grant, the launch and
the installer; `Fits` says at each of them that the copy of this number, if it is
still kept, is one the version reads.  A copy taken later cannot spoil that, as
it has a higher number and is taken only while the data is the truth
(`TakingKeepsFormats`).  When the installation takes place, `Inv` gives that the
data is that very copy, or that the version is not older than the build before
it (`InstallKeepsFormats`).

### Only model-checked

* The liveness properties (`ForegroundIsReturned` and those of the scheduler and the
  updates): liveness under fairness and `ENABLED` are outside TLAPS as used here.
* The violation runs: each is one counterexample, not a statement about every
  instance.

## 5. Plan

1. An abstract store of requests (accepted, answered, lost only when told so) and
   `DurableQueue` shown to implement it.
2. `QueuedConversation`: the executor's steps one by one, with the user's turn, the
   release of brains and the limit on waiting requests.
3. `LoadSignal` and `HardFloor`: dwell and hysteresis, against a reference
   definition over bounded histories.
4. Media jobs and model authority; the supervisor; the undo journal.

## 6. Not modelled

* **Text, images, sound, geometry.**  Routing and planning, drawing and vision,
  voice and web research turn on what a model or a device says; a small model
  of them has no states worth exploring.
* **Decision tables over one request** (permissions, path and input safety,
  storage policy, link policy): functions without a history, covered by the
  repository's unit tests.
* **Cryptography and transport** of the link, the relay, the signatures and hashes
  of packages and the security floor: taken to do what they say.
* **Drivers of other programs** (workflows and executors): what matters there is
  outside this program.
* **Applications** (desktop, phone): their requests are the commands the models
  receive.
* Within the modelled parts: names, grants, quarantine and budgets of devices;
  media questions and history undos, which are revoked as prompts are; failures
  of the file system inside the barrier's restore; a failed `Quiesce`, which
  leaves no trace; a handler of the link that outlives its restart.
