----------------------------- MODULE DurableQueue -----------------------------
(***************************************************************************)
(* What the Smart Queue remembers across a restart: core/queue_journal.py  *)
(* over core/json_store.py, kept in step with the queue by RuntimeBridge.  *)
(*                                                                         *)
(* Whoever moves a task (the pump, the reader of the desktop's commands, a *)
(* worker) then announces it, and the announcement writes the journal: a   *)
(* view of the whole queue is taken under the scheduler's lock, and each   *)
(* task in it is then put in the journal under the journal's own lock.     *)
(* Views of different threads are therefore applied in any order.          *)
(*                                                                         *)
(* The scheduler's choices are reduced to which moves it may make; they    *)
(* are modelled in QueueScheduler.  A task stands for its request, and a   *)
(* request for its text; attempts and details only matter in that a change *)
(* of theirs is a reason to save.                                          *)
(***************************************************************************)
EXTENDS Integers, FiniteSets

CONSTANTS
    Tasks,          \* accepted requests
    Earlier,        \* the ones answered and saved before the model begins
    Workers,        \* worker threads still announcing what they reported
    MaxFinished,    \* MAX_FINISHED_RECORDS
    MaxAnswers,     \* bound on the answers counted for one request
    Faults,         \* what may go wrong: "disk", "file", "history", "records"
    Commands        \* what the environment asks in this model: "pause",
                    \* "resume", "cancel", "hold", "close"

ASSUME JournalAssumption ==
    /\ Earlier \subseteq Tasks
    /\ MaxFinished \in Nat \ {0}
    /\ MaxAnswers \in Nat \ {0}

VARIABLES
    live,       \* the queue in memory: each task's state, or "none"
    records,    \* QueueJournal._records, in memory
    status,     \* QueueJournal._status: "unopened" (not durable, and nothing
                \* wrong), "durable", "unwritable", "protected"
    file,       \* the saved queue: whether it can be read, and what it holds
    settled,    \* requests that have reached a finished record
    thread,     \* each announcing thread: its place and its view left to apply
    run,        \* how far the work handed out for each task has got
    claim,      \* who came first to each task's work: a stop or the answer
    closing,    \* _interrupt_queued_conversations, while the runtime closes
    up,         \* the process is running
    recovering, \* saved requests not yet put back by _recover_queue
    unread,     \* requests in the file that a failed recovery did not read
    answers,    \* how many answers the conversation holds for each task
    asked,      \* the tasks submitted so far: identifiers are never reused
    lost,       \* requests the user was told will not come back
    cutOff      \* requests whose run ended with the process

vars == <<live, records, status, file, settled, thread, run, claim, closing,
          up, recovering, unread, answers, asked, lost, cutOff>>
journal == <<records, status, file, settled>>
told == <<asked, lost, cutOff>>
process == <<closing, up, recovering, unread>>

Finished == {"done", "failed", "cancelled"}
Waiting == {"queued", "paused"}
Restorable == Waiting \cup {"interrupted"}
Unfinished == Restorable \cup {"running"}
States == Finished \cup Unfinished
Verdicts == Finished \cup {"deferred"}

Threads == {"pump", "reader"} \cup Workers
Nothing == [t \in Tasks |-> "none"]
Unclaimed == [t \in Tasks |-> "open"]

\* A thread with nothing to announce.  `next` is the task it goes on with.
Quiet == [pc |-> "idle", next |-> {}, view |-> Nothing]
NotClosing == [on |-> FALSE, durable |-> FALSE, view |-> Nothing,
               stopped |-> {}]

\* A thread that may start something: the pump and the commands wait for the
\* recovery.
Free(th) == up /\ recovering = {} /\ thread[th].pc = "idle"
Announce(th, next) ==
    thread' = [thread EXCEPT ![th].pc = "view", ![th].next = next]

Init ==
    /\ live = Nothing
    /\ records = Nothing
    /\ status = "unopened"
    /\ file = IF Earlier = {} THEN [kind |-> "absent", records |-> Nothing]
              ELSE [kind |-> "good",
                    records |-> [t \in Tasks |-> IF t \in Earlier THEN "done"
                                                                  ELSE "none"]]
    /\ settled = Earlier
    /\ thread = [th \in Threads |-> Quiet]
    /\ run = [t \in Tasks |-> "none"]
    /\ claim = Unclaimed
    /\ closing = NotClosing
    /\ up = FALSE
    /\ recovering = {}
    /\ unread = {}
    /\ answers = [t \in Tasks |-> IF t \in Earlier THEN 1 ELSE 0]
    /\ asked = Earlier
    /\ lost = {}
    /\ cutOff = {}

-----------------------------------------------------------------------------
(* The journal. *)

\* Mutant: a file that could not be understood is written over.
AlwaysWrite(st) == TRUE

\* _save: never over a file this version could not trust.
MayWrite(st) == st # "protected"

\* Mutant: a refused write is not noticed.
StillDurable(st) == st

\* A write the disk refused is said to be one.
AfterRefusal(st) == IF MayWrite(st) THEN "unwritable" ELSE st

\* _save and JsonStore.save: the whole state or, when the disk refuses,
\* nothing.  The rename makes the write one step.
Save(r, st, ok) ==
    /\ ok \/ "disk" \in Faults
    /\ IF MayWrite(st) /\ ok
       THEN /\ file' = [kind |-> "good", records |-> r]
            /\ status' = "durable"
       ELSE /\ status' = AfterRefusal(st)
            /\ UNCHANGED file

\* _prune: finished records beyond the limit go, the oldest first.  Which ones
\* those are is left open: the wall clock that dates them may be set back.
Pruned(r) ==
    LET finished == {t \in Tasks : r[t] \in Finished}
        excess == Cardinality(finished) - MaxFinished
    IN  {[t \in Tasks |-> IF t \in old THEN "none" ELSE r[t]] :
            old \in {S \in SUBSET finished :
                        Cardinality(S) = IF excess > 0 THEN excess ELSE 0}}

\* Mutant: update without its guard on finished records.
Recorded(t) == records[t] # "none"

\* update leaves a finished record alone: it is final.
Updatable(t) == records[t] \in Unfinished

\* update: nothing is written when nothing changed, the state, the attempts or
\* the detail (`changed` stands for the last two).
Update(t, s, changed, ok) ==
    IF Updatable(t) /\ (records[t] # s \/ changed)
    THEN \E r \in Pruned([records EXCEPT ![t] = s]) :
            /\ records' = r
            /\ Save(r, status, ok)
            /\ settled' = IF s \in Finished THEN settled \cup {t} ELSE settled
    ELSE ok /\ ~changed /\ UNCHANGED journal

\* Mutant: the conversation is not asked.
NeverAnswered(t) == FALSE

\* ConversationHistory.has_assistant_reply
HasAnswer(t) == answers[t] > 0

\* open: what an earlier process wrote, made safe.
MadeSafe(r) ==
    [t \in Tasks |->
        IF r[t] \in Unfinished /\ HasAnswer(t) THEN "done"
        ELSE IF r[t] = "running" THEN "interrupted" ELSE r[t]]

-----------------------------------------------------------------------------
(* The process starts, dies and is closed. *)

\* _recover_queue opens the journal once ...
Open(ok) ==
    LET safe == IF file.kind = "good" THEN MadeSafe(file.records) ELSE Nothing
    IN  /\ ~up
        /\ records' = safe
        /\ IF file.kind = "good" /\ safe = file.records
           THEN ok /\ status' = "durable" /\ UNCHANGED file
           ELSE Save(safe, IF file.kind = "bad" THEN "protected"
                                                ELSE "durable", ok)
        /\ settled' = settled \cup {t \in Tasks : safe[t] \in Finished}
        /\ recovering' = {t \in Tasks : safe[t] \in Restorable}
        /\ up' = TRUE
        /\ UNCHANGED <<live, thread, run, claim, closing, unread, answers,
                       told>>

\* ... unless a read raises, which ensure_scheduler reports and goes on from:
\* that of the conversation, with only what came before it (`read`) in
\* _records, or that of a file whose bytes are no text.  The journal counts as
\* opened, and nothing keeps it from writing.
OpenFails(read) ==
    LET safe == MadeSafe(file.records)
    IN  /\ ~up
        /\ \/ /\ "history" \in Faults
              /\ file.kind = "good"
              /\ \E t \in Tasks \ read : file.records[t] \in Unfinished
           \/ file.kind = "bad" /\ read = {}
        /\ records' = [t \in Tasks |-> IF t \in read THEN safe[t] ELSE "none"]
        /\ settled' = settled \cup {t \in read : safe[t] \in Finished}
        /\ unread' = {t \in Tasks \ read : file.records[t] # "none"}
        /\ up' = TRUE
        /\ UNCHANGED <<live, status, file, thread, run, claim, closing,
                       recovering, answers, told>>

\* ... and puts its waiting and interrupted records back in the queue, one by
\* one, announcing each.  A record that can no longer be queued has failed.
Restore(t, usable, ok) ==
    /\ t \in recovering
    /\ thread["reader"].pc = "idle"
    /\ recovering' = recovering \ {t}
    /\ IF usable
       THEN /\ ok
            /\ live' = [live EXCEPT ![t] = records[t]]
            /\ Announce("reader", {})
            /\ UNCHANGED journal
       ELSE /\ "records" \in Faults
            /\ Update(t, "failed", FALSE, ok)
            /\ UNCHANGED <<live, thread>>
    /\ UNCHANGED <<run, claim, closing, up, unread, answers, told>>

\* Work past its last check before the model, with no answer recorded yet.
CutOff == {t \in Tasks : /\ run[t] \in {"executing", "committed"}
                         /\ live[t] \in {"running", "interrupted"}}

\* The process ends: only the disk and what the user saw are left.
Die ==
    /\ up' = FALSE
    /\ recovering' = {}
    /\ unread' = {}
    /\ live' = Nothing
    /\ records' = Nothing
    /\ status' = "unopened"
    /\ thread' = [th \in Threads |-> Quiet]
    /\ run' = [t \in Tasks |-> "none"]
    /\ claim' = Unclaimed
    /\ closing' = NotClosing
    /\ cutOff' = cutOff \cup CutOff
    /\ UNCHANGED <<file, settled, answers, asked, lost>>

Crash == up /\ Die

\* The file is damaged, or made readable again, while nothing runs.
Damage ==
    /\ "file" \in Faults
    /\ ~up
    /\ file.kind \in {"good", "bad"}
    /\ file' = [file EXCEPT !.kind = IF @ = "good" THEN "bad" ELSE "good"]
    /\ UNCHANGED <<live, records, status, settled, thread, run, claim,
                   process, answers, told>>

\* _close: running work that has not committed is interrupted, and the queue
\* is looked at once.
Close ==
    LET stopped == {t \in Tasks : live[t] = "running"
                                  /\ claim[t] # "committed"}
        after == [t \in Tasks |-> IF t \in stopped THEN "interrupted"
                                                   ELSE live[t]]
    IN  /\ "close" \in Commands
        /\ Free("reader")
        /\ ~closing.on
        /\ live' = after
        /\ claim' = [t \in Tasks |-> IF t \in stopped THEN "ended"
                                                       ELSE claim[t]]
        /\ closing' = [on |-> TRUE, durable |-> status = "durable",
                       view |-> after, stopped |-> stopped]
        /\ UNCHANGED <<journal, thread, run, up, recovering, unread, answers,
                       told>>

\* Then each task: an interrupted one is written down; a waiting one that the
\* disk would not take is cancelled, and its user told it will not come back.
CloseTask(t, changed, ok) ==
    /\ Free("reader")
    /\ closing.view[t] # "none"
    /\ closing' = [closing EXCEPT !.view[t] = "none", !.stopped = @ \ {t}]
    /\ \/ /\ t \in closing.stopped
          /\ Update(t, "interrupted", changed, ok)
          /\ UNCHANGED <<live, thread, claim>>
       \/ /\ t \notin closing.stopped
          /\ ok /\ ~changed
          /\ IF \/ closing.durable
                \/ closing.view[t] \notin Waiting
                \/ claim[t] = "committed"
             THEN UNCHANGED <<live, thread, claim>>
             ELSE /\ live' = [live EXCEPT ![t] = IF @ \in Unfinished
                                                 THEN "cancelled" ELSE @]
                  /\ claim' = [claim EXCEPT ![t] = "ended"]
                  /\ Announce("reader", {t})
          /\ UNCHANGED journal
    /\ UNCHANGED <<run, up, recovering, unread, answers, told>>

Exit ==
    /\ closing.on
    /\ closing.view = Nothing
    /\ Free("reader")
    /\ Die

-----------------------------------------------------------------------------
(* Announcements: _on_queue_event and _sync_queue_journal. *)

\* The scheduler's view, under its lock ...
View(th) ==
    /\ thread[th].pc = "view"
    /\ thread' = [thread EXCEPT ![th].pc = "apply", ![th].view = live]
    /\ UNCHANGED <<live, journal, run, claim, process, answers, told>>

\* ... is put in the journal task by task, under the journal's.
Apply(th, t, changed, ok) ==
    /\ thread[th].pc = "apply"
    /\ thread[th].view[t] # "none"
    /\ Update(t, thread[th].view[t], changed, ok)
    /\ thread' = [thread EXCEPT ![th].view[t] = "none"]
    /\ UNCHANGED <<live, run, claim, process, answers, told>>

\* The announcement is over.  The pump then hands a started task to a worker,
\* and announces again at the end of its pass; a close goes on to tell the user
\* that the request it just cancelled is lost.
Announced(th) ==
    LET next == thread[th].next
        hand == th = "pump" /\ next # {}
    IN  /\ thread[th].pc = "apply"
        /\ thread[th].view = Nothing
        /\ IF hand THEN Announce(th, {})
                   ELSE thread' = [thread EXCEPT ![th] = Quiet]
        /\ run' = [t \in Tasks |-> IF hand /\ t \in next THEN "handed"
                                                         ELSE run[t]]
        /\ lost' = IF th = "reader" THEN lost \cup next ELSE lost
        /\ UNCHANGED <<live, journal, claim, process, answers, asked, cutOff>>

-----------------------------------------------------------------------------
(* Who moves tasks. *)

\* submit_queued_conversation: on disk before the queue can see it ...
Submit(t, ok) ==
    LET r == [records EXCEPT ![t] = "queued"]
    IN  /\ Free("reader")
        /\ ~closing.on
        /\ t \notin asked
        /\ asked' = asked \cup {t}
        /\ records' = r
        /\ Save(r, status, ok)
        /\ thread' = [thread EXCEPT !["reader"].pc = "admit",
                                    !["reader"].next = {t}]
        /\ UNCHANGED <<live, settled, run, claim, process, answers, lost,
                       cutOff>>

\* ... and then in the queue.
Admit ==
    /\ thread["reader"].pc = "admit"
    /\ live' = [t \in Tasks |-> IF t \in thread["reader"].next THEN "queued"
                                                              ELSE live[t]]
    /\ Announce("reader", {})
    /\ UNCHANGED <<journal, run, claim, process, answers, told>>

Pause(t) ==
    /\ "pause" \in Commands
    /\ Free("reader") /\ ~closing.on
    /\ live[t] = "queued"
    /\ live' = [live EXCEPT ![t] = "paused"]
    /\ Announce("reader", {})
    /\ UNCHANGED <<journal, run, claim, process, answers, told>>

Resume(t) ==
    /\ "resume" \in Commands
    /\ Free("reader") /\ ~closing.on
    /\ live[t] \in {"paused", "interrupted"}
    /\ live' = [live EXCEPT ![t] = "queued"]
    /\ cutOff' = cutOff \ {t}
    /\ Announce("reader", {})
    /\ UNCHANGED <<journal, run, claim, process, answers, asked, lost>>

Cancel(t) ==
    /\ "cancel" \in Commands
    /\ Free("reader") /\ ~closing.on
    /\ live[t] \in Unfinished
    /\ claim[t] # "committed"
    /\ live' = [live EXCEPT ![t] = "cancelled"]
    /\ claim' = [claim EXCEPT ![t] = "ended"]
    /\ Announce("reader", {})
    /\ UNCHANGED <<journal, run, process, answers, told>>

\* The user's hold on the queue is saved with the records, and announced to
\* nobody.
SetPaused(ok) ==
    /\ "hold" \in Commands
    /\ Free("reader") /\ ~closing.on
    /\ Save(records, status, ok)
    /\ UNCHANGED <<live, records, settled, thread, run, claim, process,
                   answers, told>>

\* A pass of the pump that starts a task: one at a time.
Start(t) ==
    /\ Free("pump") /\ ~closing.on
    /\ live[t] = "queued"
    /\ \A u \in Tasks : live[u] # "running" /\ run[u] = "none"
    /\ live' = [live EXCEPT ![t] = "running"]
    /\ Announce("pump", {t})
    /\ UNCHANGED <<journal, run, claim, process, answers, told>>

\* A pass that only changes why something waits, that pauses a task tried too
\* often, or that forgets what finished.
Pass ==
    /\ Free("pump") /\ ~closing.on
    /\ \/ UNCHANGED live
       \/ \E t \in Tasks : /\ live[t] = "queued"
                           /\ live' = [live EXCEPT ![t] = "paused"]
       \/ live' = [t \in Tasks |-> IF live[t] \in Finished /\ run[t] = "none"
                                   THEN "none" ELSE live[t]]
    /\ Announce("pump", {})
    /\ UNCHANGED <<journal, run, claim, process, answers, told>>

\* The work begins, unless it was ended, the last save failed and still fails
\* (start_blocker), or the conversation is found to hold its answer: one that
\* cannot be read holds none (_queued_request_already_answered).
Begin(t, ok, found) ==
    /\ run[t] = "handed"
    /\ found => HasAnswer(t)
    /\ HasAnswer(t) /\ ~found => "history" \in Faults
    /\ IF claim[t] # "open" \/ status # "unwritable"
       THEN ok /\ UNCHANGED journal
       ELSE Save(records, status, ok) /\ UNCHANGED <<records, settled>>
    /\ run' = [run EXCEPT ![t] = IF claim[t] # "open" THEN "cancelled"
                                 ELSE IF status' = "unwritable" THEN "deferred"
                                 ELSE IF found THEN "done"
                                 ELSE "executing"]
    /\ UNCHANGED <<live, thread, claim, process, answers, told>>

\* The run ends without an answer.
GiveUp(t, verdict) ==
    /\ run[t] = "executing"
    /\ \/ verdict \in {"failed", "deferred"}
       \/ verdict = "cancelled" /\ claim[t] = "ended"
    /\ run' = [run EXCEPT ![t] = verdict]
    /\ UNCHANGED <<live, journal, thread, claim, process, answers, told>>

\* commit(): no stop came first.
Commit(t) ==
    /\ run[t] = "executing"
    /\ claim[t] = "open"
    /\ claim' = [claim EXCEPT ![t] = "committed"]
    /\ run' = [run EXCEPT ![t] = "committed"]
    /\ UNCHANGED <<live, journal, thread, process, answers, told>>

\* The answer goes into the conversation, unless that write fails, and is
\* announced, which may raise.
Answer(t, persisted, verdict) ==
    /\ run[t] = "committed"
    /\ persisted \/ "history" \in Faults
    /\ persisted => answers[t] < MaxAnswers
    /\ answers' = [answers EXCEPT ![t] = IF persisted THEN @ + 1 ELSE @]
    /\ run' = [run EXCEPT ![t] = verdict]
    /\ UNCHANGED <<live, journal, thread, claim, process, told>>

\* Mutant: deferred work is not put back in line.
VerdictItself(v) == v

\* The state report_outcome gives a running task.
StateAfter(v) == IF v = "deferred" THEN "queued" ELSE v

\* report_outcome: a task no longer running keeps the state it was given.
Report(t, th) ==
    /\ run[t] \in Verdicts
    /\ Free(th)
    /\ live' = [live EXCEPT ![t] = IF @ # "running" THEN @
                                   ELSE StateAfter(run[t])]
    /\ run' = [run EXCEPT ![t] = "none"]
    /\ Announce(th, {})
    /\ UNCHANGED <<journal, claim, process, answers, told>>

-----------------------------------------------------------------------------
Next ==
    \/ \E ok \in BOOLEAN : Open(ok)
    \/ \E read \in SUBSET Tasks : OpenFails(read)
    \/ \E t \in Tasks, u, ok \in BOOLEAN : Restore(t, u, ok)
    \/ Crash
    \/ Damage
    \/ Close
    \/ \E t \in Tasks, c, ok \in BOOLEAN : CloseTask(t, c, ok)
    \/ Exit
    \/ \E th \in Threads : View(th)
    \/ \E th \in Threads, t \in Tasks, c, ok \in BOOLEAN : Apply(th, t, c, ok)
    \/ \E th \in Threads : Announced(th)
    \/ \E t \in Tasks, ok \in BOOLEAN : Submit(t, ok)
    \/ Admit
    \/ \E t \in Tasks : Pause(t)
    \/ \E t \in Tasks : Resume(t)
    \/ \E t \in Tasks : Cancel(t)
    \/ \E ok \in BOOLEAN : SetPaused(ok)
    \/ \E t \in Tasks : Start(t)
    \/ Pass
    \/ \E t \in Tasks, ok, found \in BOOLEAN : Begin(t, ok, found)
    \/ \E t \in Tasks, v \in Verdicts : GiveUp(t, v)
    \/ \E t \in Tasks : Commit(t)
    \/ \E t \in Tasks, p \in BOOLEAN, v \in {"done", "failed"} :
          Answer(t, p, v)
    \/ \E t \in Tasks, th \in Workers : Report(t, th)

Spec == Init /\ [][Next]_vars

-----------------------------------------------------------------------------
Contents == [Tasks -> States \cup {"none"}]

\* Every variable keeps its type.
TypeOK ==
    /\ live \in Contents /\ records \in Contents
    /\ status \in {"unopened", "durable", "unwritable", "protected"}
    /\ file \in [kind : {"absent", "good", "bad"}, records : Contents]
    /\ thread \in [Threads -> [pc : {"idle", "admit", "view", "apply"},
                               next : SUBSET Tasks, view : Contents]]
    /\ run \in [Tasks -> {"none", "handed", "executing", "committed"}
                            \cup Verdicts]
    /\ claim \in [Tasks -> {"open", "ended", "committed"}]
    /\ settled \subseteq Tasks
    /\ closing \in [on : BOOLEAN, durable : BOOLEAN, view : Contents,
                    stopped : SUBSET Tasks]
    /\ up \in BOOLEAN /\ recovering \subseteq Tasks /\ unread \subseteq Tasks
    /\ answers \in [Tasks -> 0 .. MaxAnswers]
    /\ asked \subseteq Tasks /\ lost \subseteq Tasks /\ cutOff \subseteq Tasks

\* "Never claim a write that did not happen": while the journal calls itself
\* durable, the file can be read and holds exactly what the journal holds.
StorageHonest ==
    up /\ status = "durable" => file = [kind |-> "good", records |-> records]

\* A saved request is never dropped from the file before it has finished: not
\* by a save, a crash, a recovery, or a file unreadable for a while.  Only a
\* process whose recovery failed before it read the request may drop it.
SavedRequestKept ==
    [][\A t \in Tasks : file.records[t] \in Unfinished
                  => \/ file'.records[t] # "none"
                     \/ t \in settled'
                     \/ t \in unread]_vars

\* "a silently dropped request is the failure this module exists to prevent":
\* nor does that process drop it.
NoRequestDropped ==
    [][\A t \in Tasks : file.records[t] \in Unfinished
                  => file'.records[t] # "none" \/ t \in settled']_vars

\* A saved outcome is final: no late worker, stale view or restart turns a
\* finished request into one that runs, or rewrites how it ended.
SavedOutcomeFinal ==
    [][\A t \in Tasks : file.records[t] \in Finished
                  => file'.records[t] \in {file.records[t], "none"}]_vars

\* One request, one answer, over any number of runs and restarts.
OneAnswer == \A t \in Tasks : answers[t] <= 1

\* "Nothing running survives as running ... it is read back as INTERRUPTED and
\* runs again only when the user resumes it."
NoUnaskedReplay == \A t \in cutOff : live[t] \notin {"queued", "running"}

\* "waiting requests will not come back, and their conversations are told so":
\* what the user was told is lost is not in the queue of a later start.
ToldLostStaysLost == \A t \in lost : live[t] \notin Unfinished
=============================================================================
