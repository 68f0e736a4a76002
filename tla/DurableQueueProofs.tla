-------------------------- MODULE DurableQueueProofs --------------------------
(***************************************************************************)
(* Proofs about what the queue remembers across a restart, for any tasks,  *)
(* workers, limits, faults and commands.                                   *)
(***************************************************************************)
EXTENDS DurableQueue, TLAPS

-----------------------------------------------------------------------------
(* What is typed, in two parts: the journal, and the queue around it. *)

Statuses == {"unopened", "durable", "unwritable", "protected"}
Files == [kind : {"absent", "good", "bad"}, records : Contents]

JournalTyped ==
    /\ records \in Contents
    /\ status \in Statuses
    /\ file \in Files
    /\ settled \subseteq Tasks
    /\ asked \subseteq Tasks

Announcements == [pc : {"idle", "admit", "view", "apply"},
                  next : SUBSET Tasks, view : Contents]
Closings == [on : BOOLEAN, durable : BOOLEAN, view : Contents,
             stopped : SUBSET Tasks]
Runs == {"none", "handed", "executing", "committed"} \cup Verdicts

QueueTyped ==
    /\ live \in Contents
    /\ thread \in [Threads -> Announcements]
    /\ run \in [Tasks -> Runs]
    /\ claim \in [Tasks -> {"open", "ended", "committed"}]
    /\ closing \in Closings
    /\ up \in BOOLEAN
    /\ recovering \subseteq Tasks
    /\ unread \subseteq Tasks
    /\ answers \in [Tasks -> 0 .. MaxAnswers]
    /\ lost \subseteq Tasks
    /\ cutOff \subseteq Tasks

LEMMA TypesAre == TypeOK <=> JournalTyped /\ QueueTyped
  BY DEF TypeOK, JournalTyped, QueueTyped, Statuses, Files, Announcements,
         Closings, Runs

LEMMA NothingTyped ==
    /\ Nothing \in Contents
    /\ Quiet \in Announcements
    /\ NotClosing \in Closings
  BY DEF Nothing, Contents, Quiet, Announcements, NotClosing, Closings

-----------------------------------------------------------------------------
(* The invariant. *)

\* While the process is down nobody has anything to announce or to do.
Down ==
    ~up => /\ recovering = {}
           /\ status = "unopened"
           /\ \A th \in Threads : thread[th] = Quiet
           /\ \A t \in Tasks : run[t] = "none" /\ claim[t] = "open"

\* The file and the records, while the journal may write over the file: what
\* was saved as finished is still so, or forgotten, and what was saved as
\* unfinished is still known, or has finished, unless the recovery failed
\* before it read it.
Follows ==
    \A t \in Tasks :
        /\ file.records[t] \in Finished =>
              records[t] \in {file.records[t], "none"}
        /\ file.records[t] \in Unfinished =>
              records[t] # "none" \/ t \in settled \/ t \in unread

JournalInv ==
    /\ StorageHonest
    /\ file.kind = "absent" => file.records = Nothing
    /\ \A t \in Tasks :
          /\ file.records[t] # "none" \/ records[t] # "none" => t \in asked
          /\ records[t] \in Finished => t \in settled
    /\ up /\ status # "protected" => Follows

\* A recovery comes before any work.
RecoversFirst ==
    recovering # {} => /\ thread["pump"] = Quiet
                       /\ \A t \in Tasks : run[t] = "none" /\ claim[t] = "open"

\* A task whose work may still be kept from answering: it is to be handed out,
\* or has not committed yet.
Uncommitted(t) ==
    run[t] \in {"handed", "executing"} \/ t \in thread["pump"].next

\* Where a task is while something is done for it.
Placed(t) ==
    /\ \/ live[t] # "none" \/ run[t] # "none" \/ answers[t] > 0
       \/ t \in recovering \/ t \in thread["pump"].next
       \/ claim[t] = "committed"
       => t \in asked
    /\ thread["reader"].pc = "admit" /\ t \in thread["reader"].next =>
          /\ t \in asked /\ t \notin recovering /\ t \notin thread["pump"].next
          /\ live[t] = "none" /\ run[t] = "none" /\ answers[t] = 0
          /\ claim[t] # "committed"
    /\ t \in thread["pump"].next => run[t] = "none"
    /\ run[t] = "committed" => claim[t] = "committed"
    /\ claim[t] = "committed" =>
          \/ run[t] \in {"committed", "done", "failed"} /\ live[t] = "running"
          \/ run[t] = "none" /\ live[t] \in Finished \cup {"none"}
    /\ Uncommitted(t) =>
          \/ claim[t] = "ended"
          \/ /\ claim[t] = "open"
             /\ live[t] = "running"

\* A request that has its answer is neither run nor put in line again.
Unanswered(t) ==
    /\ answers[t] <= 1
    /\ t \in recovering \/ Uncommitted(t) \/ run[t] = "committed" =>
          answers[t] = 0
    /\ answers[t] > 0 =>
          \/ live[t] \in Finished \cup {"none"}
          \/ live[t] = "running" /\ claim[t] = "committed"

AnswerInv ==
    RecoversFirst /\ \A t \in Tasks : Placed(t) /\ Unanswered(t)

Inv == JournalTyped /\ QueueTyped /\ Down /\ JournalInv /\ AnswerInv

-----------------------------------------------------------------------------
(* The journal by itself. *)

\* What an operation of the journal may do: it writes all it holds or
\* nothing, a finished record stays or is forgotten, an unfinished one stays
\* or finishes, and only a new request gets a new record.
JournalStep ==
    /\ JournalTyped'
    /\ settled \subseteq settled' /\ asked \subseteq asked'
    /\ status' = "protected" <=> status = "protected"
    /\ \/ /\ status # "protected"
          /\ status' = "durable"
          /\ file' = [kind |-> "good", records |-> records']
       \/ /\ file' = file
          /\ status' = "durable" => status = "durable" /\ records' = records
    /\ \A t \in Tasks :
          /\ records[t] \in Finished => records'[t] \in {records[t], "none"}
          /\ records[t] \in Unfinished =>
                records'[t] # "none" \/ t \in settled'
          /\ records'[t] \in Finished =>
                records'[t] = records[t] \/ t \in settled'
          /\ records[t] = "none" /\ records'[t] # "none" =>
                t \in asked' \ asked

LEMMA ContentsAre ==
    \A r \in Contents, t \in Tasks :
        r[t] \in Finished \/ r[t] \in Unfinished \/ r[t] = "none"
  BY DEF Contents, States

LEMMA SaveWrites ==
    ASSUME NEW r \in Contents, NEW st \in Statuses, NEW ok \in BOOLEAN,
           file \in Files, Save(r, st, ok)
    PROVE  /\ file' \in Files
           /\ status' \in Statuses
           /\ status' = "protected" <=> st = "protected"
           /\ \/ /\ st # "protected" /\ status' = "durable"
                 /\ file' = [kind |-> "good", records |-> r]
              \/ status' # "durable" /\ file' = file
<1>1. CASE MayWrite(st) /\ ok
  BY <1>1 DEF Save, MayWrite, Files, Statuses
<1>2. CASE ~(MayWrite(st) /\ ok)
  BY <1>2 DEF Save, MayWrite, AfterRefusal, Files, Statuses
<1> QED
  BY <1>1, <1>2

LEMMA SavingSteps ==
    ASSUME JournalTyped, NEW ok \in BOOLEAN, Save(records, status, ok),
           UNCHANGED <<records, settled, asked>>
    PROVE  JournalStep
  BY SaveWrites
  DEF JournalTyped, JournalStep, Finished, Unfinished, Restorable, Waiting

LEMMA SameSteps ==
    ASSUME JournalTyped, UNCHANGED <<journal, asked>>
    PROVE  JournalStep
  BY DEF JournalTyped, JournalStep, journal, Finished, Unfinished, Restorable,
         Waiting

LEMMA PrunedIs ==
    ASSUME NEW r \in Contents, NEW q \in Pruned(r)
    PROVE  /\ q \in Contents
           /\ \A t \in Tasks : /\ q[t] \in {r[t], "none"}
                               /\ r[t] \notin Finished => q[t] = r[t]
<1>1. PICK old \in SUBSET {t \in Tasks : r[t] \in Finished} :
         q = [t \in Tasks |-> IF t \in old THEN "none" ELSE r[t]]
  BY DEF Pruned
<1> QED
  BY <1>1 DEF Contents

LEMMA UpdateSteps ==
    ASSUME JournalTyped, NEW t \in Tasks, NEW s \in States,
           NEW changed \in BOOLEAN, NEW ok \in BOOLEAN,
           Update(t, s, changed, ok), UNCHANGED asked,
           \A u \in Tasks : records[u] \in Finished => u \in settled
    PROVE  JournalStep
<1>1. CASE Updatable(t) /\ (records[t] # s \/ changed)
  <2> DEFINE put == [records EXCEPT ![t] = s]
  <2>1. put \in Contents /\ put[t] = s
        /\ \A u \in Tasks \ {t} : put[u] = records[u]
    BY DEF JournalTyped, Contents
  <2>2. PICK r \in Pruned(put) :
           /\ records' = r
           /\ Save(r, status, ok)
           /\ settled' = IF s \in Finished THEN settled \cup {t} ELSE settled
    BY <1>1 DEF Update
  <2> HIDE DEF put
  <2>3. /\ r \in Contents
        /\ \A u \in Tasks : /\ r[u] \in {put[u], "none"}
                            /\ put[u] \notin Finished => r[u] = put[u]
    BY <2>1, PrunedIs
  <2>4. /\ file' \in Files /\ status' \in Statuses
        /\ status' = "protected" <=> status = "protected"
        /\ \/ /\ status # "protected" /\ status' = "durable"
              /\ file' = [kind |-> "good", records |-> r]
           \/ status' # "durable" /\ file' = file
    BY <2>2, <2>3, SaveWrites DEF JournalTyped
  <2>5. records[t] \in Unfinished
    BY <1>1 DEF Updatable
  <2>6. ASSUME NEW u \in Tasks
        PROVE  /\ records[u] \in Finished =>
                     records'[u] \in {records[u], "none"}
               /\ records[u] \in Unfinished =>
                     records'[u] # "none" \/ u \in settled'
               /\ records'[u] \in Finished =>
                     records'[u] = records[u] \/ u \in settled'
               /\ records[u] = "none" => records'[u] = "none"
    <3>1. CASE u = t
      BY <2>1, <2>2, <2>3, <2>5, <3>1
      DEF Finished, Unfinished, States, Restorable, Waiting
    <3>2. CASE u # t
      BY <2>1, <2>2, <2>3, <3>2 DEF Finished, Unfinished, Restorable, Waiting
    <3> QED
      BY <3>1, <3>2
  <2> QED
    BY <2>2, <2>3, <2>4, <2>6 DEF JournalTyped, JournalStep
<1>2. CASE ~(Updatable(t) /\ (records[t] # s \/ changed))
  BY <1>2, SameSteps DEF Update
<1> QED
  BY <1>1, <1>2

\* An operation of the journal, and what it may do to the file.
LEMMA StepKeepsJournal ==
    ASSUME JournalTyped, JournalInv, up, JournalStep, UNCHANGED <<up, unread>>
    PROVE  /\ JournalInv'
           /\ \A t \in Tasks :
                 /\ file.records[t] \in Unfinished =>
                       \/ file'.records[t] # "none"
                       \/ t \in settled' \/ t \in unread
                 /\ file.records[t] \in Finished =>
                       file'.records[t] \in {file.records[t], "none"}
<1>1. CASE /\ status # "protected" /\ status' = "durable"
           /\ file' = [kind |-> "good", records |-> records']
  <2>1. Follows
    BY <1>1 DEF JournalInv
  <2>2. ASSUME NEW t \in Tasks
        PROVE  /\ file.records[t] \in Unfinished =>
                     records'[t] # "none" \/ t \in settled' \/ t \in unread
               /\ file.records[t] \in Finished =>
                     records'[t] \in {file.records[t], "none"}
               /\ records'[t] # "none" => t \in asked'
               /\ records'[t] \in Finished => t \in settled'
    BY <2>1, ContentsAre DEF Follows, JournalInv, JournalStep, JournalTyped
  <2>3. Follows'
    BY <1>1, ContentsAre DEF Follows, JournalStep, JournalTyped, Finished,
       Unfinished, Restorable, Waiting
  <2> QED
    BY <1>1, <2>2, <2>3 DEF JournalInv, StorageHonest
<1>2. CASE /\ file' = file
           /\ status' = "durable" => status = "durable" /\ records' = records
  <2>1. \A t \in Tasks :
           /\ records'[t] # "none" => t \in asked'
           /\ records'[t] \in Finished => t \in settled'
    BY DEF JournalInv, JournalStep, JournalTyped
  <2>2. StorageHonest'
    BY <1>2 DEF JournalInv, StorageHonest
  <2>3. status' # "protected" => Follows'
    <3>1. SUFFICES ASSUME Follows, NEW t \in Tasks
                   PROVE  /\ file.records[t] \in Finished =>
                                records'[t] \in {file.records[t], "none"}
                          /\ file.records[t] \in Unfinished =>
                                \/ records'[t] # "none"
                                \/ t \in settled' \/ t \in unread
      BY <1>2 DEF Follows, JournalInv, JournalStep
    <3> QED
      BY <3>1, ContentsAre DEF Follows, JournalInv, JournalStep, JournalTyped
  <2>4. \A t \in Tasks :
           file.records[t] \in Unfinished => file.records[t] # "none"
    BY DEF Unfinished, Restorable, Waiting
  <2> QED
    BY <1>2, <2>1, <2>2, <2>3, <2>4 DEF JournalInv, JournalStep
<1> QED
  BY <1>1, <1>2 DEF JournalStep

-----------------------------------------------------------------------------
(* Every action keeps the queue's types. *)

LEMMA AnnouncesTyped ==
    ASSUME QueueTyped, NEW th \in Threads, NEW next \in SUBSET Tasks,
           Announce(th, next)
    PROVE  thread' \in [Threads -> Announcements]
  BY DEF QueueTyped, Announce, Announcements

LEMMA MovedTyped ==
    ASSUME QueueTyped, NEW t \in Tasks, NEW s \in States \cup {"none"},
           live' = [live EXCEPT ![t] = s]
    PROVE  live' \in Contents
  BY DEF QueueTyped, Contents

LEMMA MembersAre ==
    /\ "reader" \in Threads /\ "pump" \in Threads /\ Workers \subseteq Threads
    /\ States = {"done", "failed", "cancelled", "queued", "paused",
                 "interrupted", "running"}
    /\ Runs = {"none", "handed", "executing", "committed", "done", "failed",
               "cancelled", "deferred"}
  BY DEF Threads, States, Finished, Unfinished, Restorable, Waiting, Runs,
         Verdicts

LEMMA OpenTyped ==
    ASSUME QueueTyped, JournalTyped, NEW ok \in BOOLEAN, Open(ok)
    PROVE  QueueTyped'
  BY DEF Open, QueueTyped, told

LEMMA OpenFailsTyped ==
    ASSUME QueueTyped, NEW read \in SUBSET Tasks, OpenFails(read)
    PROVE  QueueTyped'
  BY DEF OpenFails, QueueTyped, told

LEMMA RestoreTyped ==
    ASSUME QueueTyped, JournalTyped, NEW t \in Tasks, NEW usable \in BOOLEAN,
           NEW ok \in BOOLEAN, Restore(t, usable, ok)
    PROVE  QueueTyped'
<1>1. live' \in Contents
  <2>1. records[t] \in States \cup {"none"}
    BY DEF JournalTyped, Contents
  <2> QED
    BY <2>1, MovedTyped DEF Restore, QueueTyped
<1>2. thread' \in [Threads -> Announcements]
  BY AnnouncesTyped, MembersAre DEF Restore, QueueTyped
<1> QED
  BY <1>1, <1>2 DEF Restore, QueueTyped, told

LEMMA DieTyped ==
    ASSUME QueueTyped, Die
    PROVE  QueueTyped'
<1>1. live' \in Contents /\ thread' \in [Threads -> Announcements]
      /\ closing' \in Closings
  BY NothingTyped DEF Die
<1>2. run' \in [Tasks -> Runs]
      /\ claim' \in [Tasks -> {"open", "ended", "committed"}]
  BY DEF Die, Runs, Unclaimed
<1>3. cutOff' \subseteq Tasks
  BY DEF Die, CutOff, QueueTyped
<1> QED
  BY <1>1, <1>2, <1>3 DEF Die, QueueTyped

LEMMA DamageTyped ==
    ASSUME QueueTyped, Damage
    PROVE  QueueTyped'
  BY DEF Damage, QueueTyped, process, told

LEMMA CloseTyped ==
    ASSUME QueueTyped, Close
    PROVE  QueueTyped'
<1> DEFINE stopped == {t \in Tasks : live[t] = "running"
                                     /\ claim[t] # "committed"}
           after == [t \in Tasks |-> IF t \in stopped THEN "interrupted"
                                                      ELSE live[t]]
<1>1. after \in Contents
  BY MembersAre DEF QueueTyped, Contents
<1>2. claim' \in [Tasks -> {"open", "ended", "committed"}]
  BY DEF Close, QueueTyped
<1>3. closing' \in Closings
  BY <1>1 DEF Close, Closings
<1> QED
  BY <1>1, <1>2, <1>3 DEF Close, QueueTyped, told

LEMMA CloseTaskTyped ==
    ASSUME QueueTyped, NEW t \in Tasks, NEW changed \in BOOLEAN,
           NEW ok \in BOOLEAN, CloseTask(t, changed, ok)
    PROVE  QueueTyped'
<1>1. closing' \in Closings
  BY DEF CloseTask, QueueTyped, Closings, Contents
<1>2. CASE UNCHANGED <<live, thread, claim>>
  BY <1>1, <1>2 DEF CloseTask, QueueTyped, told
<1>3. CASE /\ live' = [live EXCEPT ![t] = IF @ \in Unfinished
                                          THEN "cancelled" ELSE @]
           /\ claim' = [claim EXCEPT ![t] = "ended"]
           /\ Announce("reader", {t})
  <2>1. live' \in Contents
    BY <1>3, MembersAre DEF QueueTyped, Contents
  <2>2. thread' \in [Threads -> Announcements]
    BY <1>3, AnnouncesTyped, MembersAre
  <2> QED
    BY <1>1, <1>3, <2>1, <2>2 DEF CloseTask, QueueTyped, told
<1> QED
  BY <1>2, <1>3 DEF CloseTask

LEMMA ViewTyped ==
    ASSUME QueueTyped, NEW th \in Threads, View(th)
    PROVE  QueueTyped'
<1>1. thread' \in [Threads -> Announcements]
  BY DEF View, QueueTyped, Announcements
<1> QED
  BY <1>1 DEF View, QueueTyped, process, told

LEMMA ApplyTyped ==
    ASSUME QueueTyped, NEW th \in Threads, NEW t \in Tasks,
           NEW changed \in BOOLEAN, NEW ok \in BOOLEAN,
           Apply(th, t, changed, ok)
    PROVE  QueueTyped'
<1>1. thread' \in [Threads -> Announcements]
  <2>1. thread[th] \in Announcements
    BY DEF QueueTyped
  <2>2. [thread[th].view EXCEPT ![t] = "none"] \in Contents
    BY <2>1 DEF Announcements, Contents
  <2>3. [thread[th] EXCEPT !.view = [thread[th].view EXCEPT ![t] = "none"]]
           \in Announcements
    BY <2>1, <2>2 DEF Announcements
  <2> QED
    BY <2>3 DEF Apply, QueueTyped
<1> QED
  BY <1>1 DEF Apply, QueueTyped, process, told

LEMMA AnnouncedTyped ==
    ASSUME QueueTyped, NEW th \in Threads, Announced(th)
    PROVE  QueueTyped'
<1>1. thread[th].next \subseteq Tasks
  BY DEF QueueTyped, Announcements
<1>2. thread' \in [Threads -> Announcements]
  BY AnnouncesTyped, NothingTyped DEF Announced, QueueTyped
<1>3. run' \in [Tasks -> Runs]
  BY MembersAre DEF Announced, QueueTyped
<1>4. lost' \subseteq Tasks
  BY <1>1 DEF Announced, QueueTyped
<1> QED
  BY <1>2, <1>3, <1>4 DEF Announced, QueueTyped, process

LEMMA SubmitTyped ==
    ASSUME QueueTyped, NEW t \in Tasks, NEW ok \in BOOLEAN, Submit(t, ok)
    PROVE  QueueTyped'
<1>1. thread' \in [Threads -> Announcements]
  <2>1. thread["reader"] \in Announcements
    BY MembersAre DEF QueueTyped
  <2>2. [thread["reader"] EXCEPT !.pc = "admit", !.next = {t}]
           \in Announcements
    BY <2>1 DEF Announcements
  <2>3. thread' = [thread EXCEPT !["reader"] =
                      [thread["reader"] EXCEPT !.pc = "admit", !.next = {t}]]
    BY MembersAre DEF Submit, QueueTyped
  <2> QED
    BY <2>2, <2>3 DEF QueueTyped
<1> QED
  BY <1>1 DEF Submit, QueueTyped, process

LEMMA AdmitTyped ==
    ASSUME QueueTyped, Admit
    PROVE  QueueTyped'
<1>1. live' \in Contents
  BY MembersAre DEF Admit, QueueTyped, Contents
<1>2. thread' \in [Threads -> Announcements]
  BY AnnouncesTyped, MembersAre DEF Admit
<1> QED
  BY <1>1, <1>2 DEF Admit, QueueTyped, process, told

LEMMA CommandTyped ==
    ASSUME QueueTyped, NEW t \in Tasks,
           Pause(t) \/ Resume(t) \/ Cancel(t) \/ Start(t)
    PROVE  QueueTyped'
<1>1. live' \in Contents
  BY MovedTyped, MembersAre DEF Pause, Resume, Cancel, Start
<1>2. thread' \in [Threads -> Announcements]
  BY AnnouncesTyped, MembersAre DEF Pause, Resume, Cancel, Start
<1>3. claim' \in [Tasks -> {"open", "ended", "committed"}]
      /\ cutOff' \subseteq Tasks
  BY DEF Pause, Resume, Cancel, Start, QueueTyped, told
<1> QED
  BY <1>1, <1>2, <1>3
  DEF Pause, Resume, Cancel, Start, QueueTyped, process, told

LEMMA SetPausedTyped ==
    ASSUME QueueTyped, NEW ok \in BOOLEAN, SetPaused(ok)
    PROVE  QueueTyped'
  BY DEF SetPaused, QueueTyped, process, told

LEMMA PassTyped ==
    ASSUME QueueTyped, Pass
    PROVE  QueueTyped'
<1>1. live' \in Contents
  BY MembersAre DEF Pass, QueueTyped, Contents
<1>2. thread' \in [Threads -> Announcements]
  BY AnnouncesTyped, MembersAre DEF Pass
<1> QED
  BY <1>1, <1>2 DEF Pass, QueueTyped, process, told

LEMMA WorkTyped ==
    ASSUME QueueTyped, NEW t \in Tasks,
           \/ \E ok, found \in BOOLEAN : Begin(t, ok, found)
           \/ \E v \in Verdicts : GiveUp(t, v)
           \/ Commit(t)
    PROVE  QueueTyped'
<1>1. \E r \in Runs : run' = [run EXCEPT ![t] = r]
  BY MembersAre DEF Begin, GiveUp, Commit, Verdicts, Finished
<1>2. claim' \in [Tasks -> {"open", "ended", "committed"}]
  BY DEF Begin, GiveUp, Commit, QueueTyped
<1>3. run' \in [Tasks -> Runs]
  BY <1>1 DEF QueueTyped
<1> QED
  BY <1>2, <1>3 DEF Begin, GiveUp, Commit, QueueTyped, process, told

LEMMA AnswerTyped ==
    ASSUME QueueTyped, NEW t \in Tasks, NEW persisted \in BOOLEAN,
           NEW v \in {"done", "failed"}, Answer(t, persisted, v)
    PROVE  QueueTyped'
<1>1. answers' \in [Tasks -> 0 .. MaxAnswers]
  BY JournalAssumption DEF Answer, QueueTyped
<1>2. run' \in [Tasks -> Runs]
  BY MembersAre DEF Answer, QueueTyped
<1> QED
  BY <1>1, <1>2 DEF Answer, QueueTyped, process, told

LEMMA ReportTyped ==
    ASSUME QueueTyped, NEW t \in Tasks, NEW th \in Workers, Report(t, th)
    PROVE  QueueTyped'
<1>1. live' \in Contents
  <2>1. (IF live[t] # "running" THEN live[t] ELSE StateAfter(run[t]))
           \in States \cup {"none"}
    BY MembersAre DEF Report, StateAfter, QueueTyped, Contents, Verdicts,
                      Finished
  <2> QED
    BY <2>1, MovedTyped DEF Report
<1>2. thread' \in [Threads -> Announcements]
  BY AnnouncesTyped, MembersAre DEF Report
<1>3. run' \in [Tasks -> Runs]
  BY MembersAre DEF Report, QueueTyped
<1> QED
  BY <1>1, <1>2, <1>3 DEF Report, QueueTyped, process, told

-----------------------------------------------------------------------------
(* What the process does while it is up. *)

\* The steps of a process that is up and stays up.
Working ==
    \/ \E t \in Tasks, u, ok \in BOOLEAN : Restore(t, u, ok)
    \/ Close
    \/ \E t \in Tasks, c, ok \in BOOLEAN : CloseTask(t, c, ok)
    \/ \E th \in Threads : View(th)
    \/ \E th \in Threads, t \in Tasks, c, ok \in BOOLEAN : Apply(th, t, c, ok)
    \/ \E th \in Threads : Announced(th)
    \/ \E t \in Tasks, ok \in BOOLEAN : Submit(t, ok)
    \/ Admit
    \/ \E t \in Tasks : Pause(t) \/ Resume(t) \/ Cancel(t) \/ Start(t)
    \/ \E ok \in BOOLEAN : SetPaused(ok)
    \/ Pass
    \/ \E t \in Tasks : \/ \E ok, found \in BOOLEAN : Begin(t, ok, found)
                        \/ \E v \in Verdicts : GiveUp(t, v)
                        \/ Commit(t)
    \/ \E t \in Tasks, p \in BOOLEAN, v \in {"done", "failed"} :
          Answer(t, p, v)
    \/ \E t \in Tasks, th \in Workers : Report(t, th)

Dying == Crash \/ Exit
Opening == \E ok \in BOOLEAN : Open(ok)
Failing == \E read \in SUBSET Tasks : OpenFails(read)

LEMMA NextIs == Next => Working \/ Dying \/ Opening \/ Failing \/ Damage
  BY DEF Next, Working, Dying, Opening, Failing

LEMMA WorkingTyped ==
    ASSUME QueueTyped, JournalTyped, Working
    PROVE  QueueTyped'
  BY RestoreTyped, CloseTyped, CloseTaskTyped, ViewTyped, ApplyTyped,
     AnnouncedTyped, SubmitTyped, AdmitTyped, CommandTyped, SetPausedTyped,
     PassTyped, WorkTyped, AnswerTyped, ReportTyped
  DEF Working

\* A process that is down does nothing, and one that works stays up.
LEMMA WorkingIsUp ==
    ASSUME QueueTyped, Down, Working
    PROVE  up /\ UNCHANGED <<up, unread>>
<1>1. CASE \E t \in Tasks, u, ok \in BOOLEAN : Restore(t, u, ok)
  BY <1>1 DEF Down, Restore
<1>2. CASE \/ \E th \in Threads : View(th)
           \/ \E th \in Threads, t \in Tasks, c, ok \in BOOLEAN :
                 Apply(th, t, c, ok)
           \/ \E th \in Threads : Announced(th)
           \/ Admit
  <2>1. \E th \in Threads : thread[th].pc # "idle"
    BY <1>2, MembersAre DEF View, Apply, Announced, Admit
  <2>2. UNCHANGED <<up, unread>>
    BY <1>2 DEF View, Apply, Announced, Admit, process
  <2> QED
    BY <2>1, <2>2 DEF Down, Quiet, QueueTyped
<1>3. CASE \/ Close
           \/ \E t \in Tasks, c, ok \in BOOLEAN : CloseTask(t, c, ok)
           \/ \E t \in Tasks, ok \in BOOLEAN : Submit(t, ok)
           \/ \E t \in Tasks : Pause(t) \/ Resume(t) \/ Cancel(t) \/ Start(t)
           \/ \E ok \in BOOLEAN : SetPaused(ok)
           \/ Pass
           \/ \E t \in Tasks, th \in Workers : Report(t, th)
  BY <1>3
  DEF Close, CloseTask, Submit, Pause, Resume, Cancel, Start, SetPaused, Pass,
      Report, Free, process
<1>4. CASE \/ \E t \in Tasks : \/ \E ok, found \in BOOLEAN : Begin(t, ok, found)
                               \/ \E v \in Verdicts : GiveUp(t, v)
                               \/ Commit(t)
           \/ \E t \in Tasks, p \in BOOLEAN, v \in {"done", "failed"} :
                 Answer(t, p, v)
  BY <1>4 DEF Down, Begin, GiveUp, Commit, Answer, process
<1> QED
  BY <1>1, <1>2, <1>3, <1>4 DEF Working

LEMMA SubmitSteps ==
    ASSUME JournalTyped, JournalInv, NEW t \in Tasks, NEW ok \in BOOLEAN,
           Submit(t, ok)
    PROVE  JournalStep
<1>1. /\ records[t] = "none"
      /\ records' = [records EXCEPT ![t] = "queued"]
      /\ records' \in Contents
      /\ \A u \in Tasks \ {t} : records'[u] = records[u]
      /\ records'[t] = "queued"
  BY DEF Submit, JournalInv, JournalTyped, Contents, States, Unfinished,
         Restorable, Waiting
<1>2. /\ file' \in Files /\ status' \in Statuses
      /\ status' = "protected" <=> status = "protected"
      /\ \/ /\ status # "protected" /\ status' = "durable"
            /\ file' = [kind |-> "good", records |-> records']
         \/ status' # "durable" /\ file' = file
  BY <1>1, SaveWrites DEF Submit, JournalTyped
<1>3. asked' = asked \cup {t} /\ t \notin asked /\ settled' = settled
  BY DEF Submit
<1> QED
  BY <1>1, <1>2, <1>3
  DEF JournalTyped, JournalStep, Finished, Unfinished, Restorable, Waiting

LEMMA WorkingSteps ==
    ASSUME QueueTyped, JournalTyped, JournalInv, Working
    PROVE  JournalStep
<1>0. \A u \in Tasks : records[u] \in Finished => u \in settled
  BY DEF JournalInv
<1>1. ASSUME NEW t \in Tasks, NEW u \in BOOLEAN, NEW ok \in BOOLEAN,
             Restore(t, u, ok)
      PROVE  JournalStep
  BY <1>0, <1>1, SameSteps, UpdateSteps, MembersAre DEF Restore, told
<1>2. ASSUME NEW t \in Tasks, NEW c \in BOOLEAN, NEW ok \in BOOLEAN,
             CloseTask(t, c, ok)
      PROVE  JournalStep
  BY <1>0, <1>2, SameSteps, UpdateSteps, MembersAre DEF CloseTask, told
<1>3. ASSUME NEW th \in Threads, NEW t \in Tasks, NEW c \in BOOLEAN,
             NEW ok \in BOOLEAN, Apply(th, t, c, ok)
      PROVE  JournalStep
  <2>1. thread[th].view[t] \in States
    BY <1>3 DEF Apply, QueueTyped, Announcements, Contents
  <2> QED
    BY <1>0, <1>3, <2>1, UpdateSteps DEF Apply, told
<1>4. ASSUME NEW ok \in BOOLEAN, SetPaused(ok)
      PROVE  JournalStep
  BY <1>4, SavingSteps DEF SetPaused, told
<1>5. ASSUME NEW t \in Tasks, NEW ok \in BOOLEAN, NEW found \in BOOLEAN,
             Begin(t, ok, found)
      PROVE  JournalStep
  BY <1>5, SavingSteps, SameSteps DEF Begin, told
<1>6. CASE \/ Close \/ Admit \/ Pass
           \/ \E th \in Threads : View(th) \/ Announced(th)
           \/ \E t \in Tasks : Pause(t) \/ Resume(t) \/ Cancel(t) \/ Start(t)
           \/ \E t \in Tasks : \/ \E v \in Verdicts : GiveUp(t, v)
                               \/ Commit(t)
           \/ \E t \in Tasks, p \in BOOLEAN, v \in {"done", "failed"} :
                 Answer(t, p, v)
           \/ \E t \in Tasks, th \in Workers : Report(t, th)
  BY <1>6, SameSteps
  DEF Close, Admit, Pass, View, Announced, Pause, Resume, Cancel, Start,
      GiveUp, Commit, Answer, Report, told
<1> QED
  BY <1>1, <1>2, <1>3, <1>4, <1>5, <1>6, SubmitSteps DEF Working

-----------------------------------------------------------------------------
(* Who works on what, and which requests have their answer. *)

\* The threads that announce, after one of them was given an announcement.
LEMMA AnnounceIs ==
    ASSUME QueueTyped, NEW th \in Threads, NEW next \in SUBSET Tasks,
           Announce(th, next)
    PROVE  /\ thread'[th].pc = "view" /\ thread'[th].next = next
           /\ \A o \in Threads \ {th} : thread'[o] = thread[o]
  BY DEF QueueTyped, Announcements, Announce

\* The two that matter here, when the announcement leaves no task to go on
\* with.
LEMMA NothingNext ==
    ASSUME QueueTyped, NEW th \in Threads, Announce(th, {})
    PROVE  /\ thread'["pump"].next \subseteq thread["pump"].next
           /\ th # "pump" => thread'["pump"] = thread["pump"]
           /\ thread'["reader"].pc = "admit" =>
                 /\ thread["reader"].pc = "admit"
                 /\ thread'["reader"].next = thread["reader"].next
<1>1. /\ thread'[th].pc = "view" /\ thread'[th].next = {}
      /\ \A o \in Threads \ {th} : thread'[o] = thread[o]
  BY AnnounceIs
<1> QED
  BY <1>1, MembersAre

LEMMA TypesUsed ==
    ASSUME QueueTyped, NEW t \in Tasks
    PROVE  /\ live[t] \in {"done", "failed", "cancelled", "queued", "paused",
                           "interrupted", "running", "none"}
           /\ run[t] \in Runs
           /\ claim[t] \in {"open", "ended", "committed"}
           /\ answers[t] \in Nat
  BY MembersAre DEF QueueTyped, Contents

\* One task's place, when only what stands here changes for it: that is what
\* nearly every step does to nearly every task.
LEMMA SamePlace ==
    ASSUME NEW t \in Tasks, Placed(t), Unanswered(t),
           live'[t] = live[t], run'[t] = run[t], claim'[t] = claim[t],
           answers'[t] = answers[t],
           t \in recovering' => t \in recovering,
           t \in thread'["pump"].next => t \in thread["pump"].next,
           thread'["reader"].pc = "admit" /\ t \in thread'["reader"].next =>
              thread["reader"].pc = "admit" /\ t \in thread["reader"].next,
           t \in asked => t \in asked'
    PROVE  Placed(t)' /\ Unanswered(t)'
  BY DEF Placed, Unanswered, Uncommitted

LEMMA RestoreKeepsAnswers ==
    ASSUME QueueTyped, AnswerInv, NEW t \in Tasks, NEW usable \in BOOLEAN,
           NEW ok \in BOOLEAN, Restore(t, usable, ok)
    PROVE  AnswerInv'
<1>1. /\ t \in recovering /\ recovering' \subseteq recovering
      /\ UNCHANGED <<run, claim, answers, asked>>
      /\ \A u \in Tasks \ {t} : live'[u] = live[u]
      /\ thread["pump"] = Quiet
  BY DEF Restore, told, AnswerInv, RecoversFirst, QueueTyped, Contents
<1>2. /\ thread'["pump"] = Quiet
      /\ thread'["reader"].pc = "admit" =>
            /\ thread["reader"].pc = "admit"
            /\ thread'["reader"].next = thread["reader"].next
  BY <1>1, NothingNext, MembersAre DEF Restore
<1>3. RecoversFirst'
  BY <1>1, <1>2 DEF AnswerInv, RecoversFirst
<1>4. ASSUME NEW u \in Tasks
      PROVE  Placed(u)' /\ Unanswered(u)'
  <2>0. Placed(u) /\ Unanswered(u) /\ run[u] = "none" /\ claim[u] = "open"
    BY <1>1 DEF AnswerInv, RecoversFirst
  <2>1. CASE u = t
    <3>1. thread["reader"].pc # "admit"
      BY DEF Restore
    <3> QED
      BY <1>1, <1>2, <2>0, <2>1, <3>1
      DEF Placed, Unanswered, Uncommitted, Quiet
  <2>2. CASE u # t
    BY <1>1, <1>2, <2>0, <2>2, SamePlace
  <2> QED
    BY <2>1, <2>2
<1> QED
  BY <1>3, <1>4 DEF AnswerInv

LEMMA ClosingKeepsAnswers ==
    ASSUME QueueTyped, AnswerInv,
           \/ Close
           \/ \E t \in Tasks, c, ok \in BOOLEAN : CloseTask(t, c, ok)
    PROVE  AnswerInv'
<1>1. recovering = {} /\ recovering' = {} /\ UNCHANGED <<run, answers, asked>>
  BY DEF Close, CloseTask, Free, told
<1>2. RecoversFirst'
  BY <1>1 DEF RecoversFirst
<1>3. /\ thread'["pump"] = thread["pump"]
      /\ thread'["reader"].pc = "admit" =>
            /\ thread["reader"].pc = "admit"
            /\ thread'["reader"].next = thread["reader"].next
  <2>1. CASE thread' = thread
    BY <2>1
  <2>2. CASE \E t \in Tasks : Announce("reader", {t})
    BY <2>2, AnnounceIs, MembersAre
  <2> QED
    BY <2>1, <2>2 DEF Close, CloseTask
<1>4. ASSUME NEW u \in Tasks
      PROVE  \/ live'[u] = live[u] /\ claim'[u] = claim[u]
             \/ /\ claim[u] # "committed" /\ claim'[u] = "ended"
                /\ \/ live[u] \in Unfinished
                   \/ live'[u] = live[u]
                /\ \/ live'[u] \in {"cancelled", "interrupted"}
                   \/ live'[u] = live[u]
                /\ live'[u] = "interrupted" =>
                      live[u] \in {"running", "interrupted"}
  <2>1. CASE Close
    <3>1. CASE live[u] = "running" /\ claim[u] # "committed"
      <4>1. live'[u] = "interrupted" /\ claim'[u] = "ended"
        BY <2>1, <3>1 DEF Close
      <4> QED
        BY <3>1, <4>1 DEF Unfinished
    <3>2. CASE ~(live[u] = "running" /\ claim[u] # "committed")
      BY <2>1, <3>2 DEF Close
    <3> QED
      BY <3>1, <3>2
  <2>2. CASE \E t \in Tasks, c, ok \in BOOLEAN : CloseTask(t, c, ok)
    <3>1. PICK t \in Tasks, c \in BOOLEAN, ok \in BOOLEAN :
              CloseTask(t, c, ok)
      BY <2>2
    <3>2. CASE live' = live /\ claim' = claim
      BY <3>2
    <3>3. CASE ~(live' = live /\ claim' = claim)
      <4>1. /\ claim[t] # "committed"
            /\ live' = [live EXCEPT ![t] = IF @ \in Unfinished
                                           THEN "cancelled" ELSE @]
            /\ claim' = [claim EXCEPT ![t] = "ended"]
        BY <3>1, <3>3 DEF CloseTask
      <4>2. CASE u = t
        <5>1. claim'[u] = "ended" /\ claim[u] # "committed"
          BY <4>1, <4>2 DEF QueueTyped
        <5>2. live'[u] = IF live[u] \in Unfinished THEN "cancelled"
                                                   ELSE live[u]
          BY <4>1, <4>2 DEF QueueTyped, Contents
        <5> QED
          BY <5>1, <5>2
      <4>3. CASE u # t
        BY <4>1, <4>3 DEF QueueTyped, Contents
      <4> QED
        BY <4>2, <4>3
    <3> QED
      BY <3>2, <3>3
  <2> QED
    BY <2>1, <2>2
<1>5. ASSUME NEW u \in Tasks
      PROVE  Placed(u)' /\ Unanswered(u)'
  <2>0. Placed(u) /\ Unanswered(u)
    BY DEF AnswerInv
  <2>1. CASE live'[u] = live[u] /\ claim'[u] = claim[u]
    BY <1>1, <1>3, <2>0, <2>1, SamePlace
  <2>2. CASE ~(live'[u] = live[u] /\ claim'[u] = claim[u])
    <3>1. /\ claim[u] # "committed" /\ claim'[u] = "ended"
          /\ live[u] \in Unfinished \/ live'[u] = live[u]
          /\ live'[u] \in {"cancelled", "interrupted"} \/ live'[u] = live[u]
      BY <1>4, <2>2
    <3>2. /\ live[u] \in Unfinished => live[u] \notin Finished \cup {"none"}
          /\ "cancelled" \in Finished
      BY DEF Unfinished, Restorable, Waiting, Finished
    <3>3. claim[u] \in {"open", "ended", "committed"} /\ answers[u] \in Nat
      BY TypesUsed
    <3>4. run'[u] = run[u] /\ answers'[u] = answers[u]
      BY <1>1
    <3>5. Placed(u)'
      <4>1. live'[u] # "none" => live[u] # "none"
        BY <3>1, <3>2
      <4>2. thread'["reader"].pc = "admit" /\ u \in thread'["reader"].next =>
              live'[u] = "none"
        BY <1>3, <2>0, <3>1, <3>2
        DEF Placed, Unfinished, Restorable, Waiting
      <4> QED
        BY <1>1, <1>3, <2>0, <3>1, <3>3, <3>4, <4>1, <4>2
        DEF Placed, Uncommitted
    <3>6. Unanswered(u)'
      <4>1. answers[u] > 0 => live'[u] \in Finished \cup {"none"}
        BY <1>3, <2>0, <3>1, <3>2, <3>3 DEF Unanswered
      <4> QED
        BY <1>1, <1>3, <2>0, <3>1, <3>3, <3>4, <4>1
        DEF Unanswered, Uncommitted
    <3> QED
      BY <3>5, <3>6
  <2> QED
    BY <2>1, <2>2
<1> QED
  BY <1>2, <1>5 DEF AnswerInv

LEMMA AnnouncingKeepsAnswers ==
    ASSUME QueueTyped, AnswerInv, NEW th \in Threads,
           \/ View(th)
           \/ \E t \in Tasks, c, ok \in BOOLEAN : Apply(th, t, c, ok)
    PROVE  AnswerInv'
<1>1. /\ thread[th].pc \in {"view", "apply"}
      /\ UNCHANGED <<live, run, claim, recovering, answers, asked>>
  BY DEF View, Apply, process, told
<1>2. \A o \in Threads : /\ thread'[o].next = thread[o].next
                         /\ thread'[o].pc = "admit" => thread[o].pc = "admit"
                         /\ thread[o] = Quiet => thread'[o] = Quiet
  <2>1. /\ \A o \in Threads \ {th} : thread'[o] = thread[o]
        /\ thread'[th].next = thread[th].next
        /\ thread'[th].pc # "admit"
    BY DEF View, Apply, QueueTyped, Announcements
  <2>2. thread[th] # Quiet
    BY <1>1 DEF Quiet
  <2> QED
    BY <2>1, <2>2
<1>3. RecoversFirst'
  BY <1>1, <1>2, MembersAre DEF AnswerInv, RecoversFirst
<1>4. ASSUME NEW u \in Tasks
      PROVE  Placed(u)' /\ Unanswered(u)'
  BY <1>1, <1>2, MembersAre, SamePlace DEF AnswerInv
<1> QED
  BY <1>3, <1>4 DEF AnswerInv

LEMMA AnnouncedKeepsAnswers ==
    ASSUME QueueTyped, AnswerInv, NEW th \in Threads, Announced(th)
    PROVE  AnswerInv'
<1> DEFINE hand == th = "pump" /\ thread[th].next # {}
<1>1. /\ thread[th].pc = "apply"
      /\ UNCHANGED <<live, claim, recovering, answers, asked>>
      /\ \A u \in Tasks : run'[u] = IF hand /\ u \in thread[th].next
                                    THEN "handed" ELSE run[u]
  BY DEF Announced, process
<1>2. /\ thread'[th].pc # "admit" /\ thread'[th].next = {}
      /\ \A o \in Threads \ {th} : thread'[o] = thread[o]
  <2>1. CASE Announce(th, {})
    BY <2>1, AnnounceIs
  <2>2. CASE thread' = [thread EXCEPT ![th] = Quiet]
    BY <2>2 DEF QueueTyped, Quiet
  <2> QED
    BY <2>1, <2>2 DEF Announced
<1>3. RecoversFirst'
  <2>1. recovering # {} => th # "pump" /\ run' = run
    <3>1. recovering # {} => th # "pump"
      BY <1>1 DEF AnswerInv, RecoversFirst, Quiet
    <3>2. th # "pump" => run' = run
      BY <1>1 DEF Announced, QueueTyped
    <3> QED
      BY <3>1, <3>2
  <2> QED
    BY <1>1, <1>2, <2>1, MembersAre DEF AnswerInv, RecoversFirst
<1>4. ASSUME NEW u \in Tasks
      PROVE  Placed(u)' /\ Unanswered(u)'
  <2>0. Placed(u) /\ Unanswered(u)
    BY DEF AnswerInv
  <2>1. CASE hand /\ u \in thread[th].next
    <3>1. /\ thread'["pump"].next = {} /\ u \in thread["pump"].next
          /\ run'[u] = "handed" /\ run[u] = "none" /\ answers[u] = 0
          /\ u \notin recovering
      BY <1>1, <1>2, <2>0, <2>1 DEF Placed, Unanswered, Uncommitted,
         AnswerInv, RecoversFirst, Quiet
    <3>2. thread'["reader"] = thread["reader"]
      BY <1>2, <2>1, MembersAre
    <3> QED
      BY <1>1, <2>0, <3>1, <3>2 DEF Placed, Unanswered, Uncommitted
  <2>2. CASE ~(hand /\ u \in thread[th].next)
    BY <1>1, <1>2, <2>0, <2>2, MembersAre, SamePlace
  <2> QED
    BY <2>1, <2>2
<1> QED
  BY <1>3, <1>4 DEF AnswerInv

LEMMA SubmittingKeepsAnswers ==
    ASSUME QueueTyped, AnswerInv, NEW t \in Tasks, NEW ok \in BOOLEAN,
           Submit(t, ok)
    PROVE  AnswerInv'
<1>1. /\ recovering = {} /\ recovering' = {} /\ t \notin asked
      /\ asked' = asked \cup {t} /\ UNCHANGED <<live, run, claim, answers>>
  BY DEF Submit, Free, process
<1>2. /\ thread'["pump"] = thread["pump"]
      /\ thread'["reader"].next = {t}
  BY MembersAre DEF Submit, QueueTyped, Announcements
<1>3. ASSUME NEW u \in Tasks
      PROVE  Placed(u)' /\ Unanswered(u)'
  <2>0. Placed(u) /\ Unanswered(u) /\ answers[u] \in Nat
    BY TypesUsed DEF AnswerInv
  <2>1. CASE u = t
    BY <1>1, <1>2, <2>0, <2>1 DEF Placed, Unanswered, Uncommitted
  <2>2. CASE u # t
    BY <1>1, <1>2, <2>0, <2>2, SamePlace
  <2> QED
    BY <2>1, <2>2
<1> QED
  BY <1>1, <1>3 DEF AnswerInv, RecoversFirst

LEMMA AdmitKeepsAnswers ==
    ASSUME QueueTyped, AnswerInv, Admit
    PROVE  AnswerInv'
<1>1. /\ UNCHANGED <<run, claim, recovering, answers, asked>>
      /\ thread["reader"].pc = "admit"
      /\ \A u \in Tasks : live'[u] = IF u \in thread["reader"].next
                                     THEN "queued" ELSE live[u]
  BY DEF Admit, process, told
<1>2. thread'["pump"] = thread["pump"] /\ thread'["reader"].pc # "admit"
  BY AnnounceIs, MembersAre DEF Admit
<1>3. ASSUME NEW u \in Tasks
      PROVE  Placed(u)' /\ Unanswered(u)'
  <2>0. Placed(u) /\ Unanswered(u)
    BY DEF AnswerInv
  <2>1. CASE u \in thread["reader"].next
    BY <1>1, <1>2, <2>0, <2>1 DEF Placed, Unanswered, Uncommitted, Finished
  <2>2. CASE u \notin thread["reader"].next
    BY <1>1, <1>2, <2>0, <2>2, SamePlace
  <2> QED
    BY <2>1, <2>2
<1> QED
  BY <1>1, <1>2, <1>3 DEF AnswerInv, RecoversFirst

LEMMA CommandKeepsAnswers ==
    ASSUME QueueTyped, AnswerInv, NEW t \in Tasks,
           Pause(t) \/ Resume(t) \/ Cancel(t)
    PROVE  AnswerInv'
<1>1. /\ UNCHANGED <<run, recovering, answers, asked>> /\ recovering = {}
      /\ live[t] \in Unfinished
      /\ \A u \in Tasks \ {t} : live'[u] = live[u] /\ claim'[u] = claim[u]
      /\ \/ /\ live[t] # "running" /\ live'[t] \in {"paused", "queued"}
            /\ claim'[t] = claim[t]
         \/ /\ claim[t] # "committed" /\ claim'[t] = "ended"
            /\ live'[t] = "cancelled"
  BY DEF Pause, Resume, Cancel, Free, told, process, QueueTyped, Contents,
         Unfinished, Restorable, Waiting
<1>2. /\ thread'["pump"] = thread["pump"]
      /\ thread'["reader"].pc # "admit"
  BY AnnounceIs, MembersAre DEF Pause, Resume, Cancel
<1>3. /\ live[t] \notin Finished \cup {"none"}
      /\ "cancelled" \in Finished
  BY <1>1 DEF Unfinished, Restorable, Waiting, Finished
<1>4. ASSUME NEW u \in Tasks
      PROVE  Placed(u)' /\ Unanswered(u)'
  <2>0. Placed(u) /\ Unanswered(u)
    BY DEF AnswerInv
  <2>1. CASE u = t
    <3>1. claim[t] \in {"open", "ended", "committed"} /\ answers[t] \in Nat
      BY TypesUsed
    <3>2. CASE claim'[t] = claim[t]
      BY <1>1, <1>2, <1>3, <2>0, <2>1, <3>1, <3>2
      DEF Placed, Unanswered, Uncommitted
    <3>3. CASE claim[t] # "committed" /\ claim'[t] = "ended"
               /\ live'[t] = "cancelled"
      BY <1>1, <1>2, <1>3, <2>0, <2>1, <3>1, <3>3
      DEF Placed, Unanswered, Uncommitted
    <3> QED
      BY <1>1, <3>2, <3>3
  <2>2. CASE u # t
    BY <1>1, <1>2, <2>0, <2>2, SamePlace
  <2> QED
    BY <2>1, <2>2
<1> QED
  BY <1>1, <1>4 DEF AnswerInv, RecoversFirst

LEMMA PumpKeepsAnswers ==
    ASSUME QueueTyped, AnswerInv, Pass \/ \E t \in Tasks : Start(t)
    PROVE  AnswerInv'
<1>1. /\ UNCHANGED <<run, claim, recovering, answers, asked>>
      /\ recovering = {}
  BY DEF Pass, Start, Free, told, process
<1>2. RecoversFirst'
  BY <1>1 DEF RecoversFirst
<1>3. CASE Pass
  <2>1. thread'["pump"].next = {} /\ thread'["reader"] = thread["reader"]
    BY <1>3, AnnounceIs, MembersAre DEF Pass
  <2>2. ASSUME NEW u \in Tasks
        PROVE  \/ live'[u] = live[u]
               \/ live[u] = "queued" /\ live'[u] = "paused"
               \/ live[u] \in Finished /\ run[u] = "none" /\ live'[u] = "none"
    BY <1>3 DEF Pass, QueueTyped, Contents
  <2>3. ASSUME NEW u \in Tasks
        PROVE  Placed(u)' /\ Unanswered(u)'
    <3>0. Placed(u) /\ Unanswered(u)
      BY DEF AnswerInv
    <3>1. CASE live'[u] = live[u]
      BY <1>1, <2>1, <3>0, <3>1, SamePlace
    <3>2. CASE live'[u] # live[u]
      BY <1>1, <2>1, <2>2, <3>0, <3>2
      DEF Placed, Unanswered, Uncommitted, Finished
    <3> QED
      BY <3>1, <3>2
  <2> QED
    BY <1>2, <2>3 DEF AnswerInv
<1>4. ASSUME NEW t \in Tasks, Start(t)
      PROVE  AnswerInv'
  <2>1. /\ thread'["pump"].next = {t} /\ thread'["reader"] = thread["reader"]
        /\ live[t] = "queued" /\ live'[t] = "running" /\ run[t] = "none"
        /\ \A u \in Tasks \ {t} : live'[u] = live[u]
    BY <1>4, AnnounceIs, MembersAre DEF Start, QueueTyped, Contents
  <2>2. ASSUME NEW u \in Tasks
        PROVE  Placed(u)' /\ Unanswered(u)'
    <3>0. Placed(u) /\ Unanswered(u) /\ answers[u] \in Nat
      BY TypesUsed DEF AnswerInv
    <3>1. CASE u = t
      BY <1>1, <2>1, <3>0, <3>1, TypesUsed
      DEF Placed, Unanswered, Uncommitted, Finished
    <3>2. CASE u # t
      BY <1>1, <2>1, <3>0, <3>2, SamePlace
    <3> QED
      BY <3>1, <3>2
  <2> QED
    BY <1>2, <2>2 DEF AnswerInv
<1> QED
  BY <1>3, <1>4

LEMMA WorkKeepsAnswers ==
    ASSUME QueueTyped, AnswerInv, NEW t \in Tasks,
           \/ \E ok, found \in BOOLEAN : Begin(t, ok, found)
           \/ \E v \in Verdicts : GiveUp(t, v)
           \/ Commit(t)
           \/ \E p \in BOOLEAN, v \in {"done", "failed"} : Answer(t, p, v)
           \/ \E th \in Workers : Report(t, th)
    PROVE  AnswerInv'
<1>0. Placed(t) /\ Unanswered(t) /\ answers[t] \in Nat
  BY TypesUsed DEF AnswerInv
<1>1. /\ run[t] # "none"
      /\ UNCHANGED <<recovering, asked>>
      /\ \A u \in Tasks \ {t} :
            UNCHANGED <<live[u], run[u], claim[u], answers[u]>>
  BY DEF Begin, GiveUp, Commit, Answer, Report, process, told, QueueTyped,
         Contents, Verdicts, Finished
<1>2. recovering = {}
  BY <1>1 DEF AnswerInv, RecoversFirst
<1>3. RecoversFirst'
  BY <1>1, <1>2 DEF RecoversFirst
<1>4. /\ thread'["pump"].next \subseteq thread["pump"].next
      /\ thread'["reader"].pc = "admit" =>
            /\ thread["reader"].pc = "admit"
            /\ thread'["reader"].next = thread["reader"].next
  <2>1. CASE \E th \in Workers : Report(t, th)
    BY <2>1, NothingNext, MembersAre DEF Report
  <2>2. CASE thread' = thread
    BY <2>2
  <2> QED
    BY <2>1, <2>2 DEF Begin, GiveUp, Commit, Answer
<1>5. Placed(t)' /\ Unanswered(t)'
  <2>1. CASE \E ok, found \in BOOLEAN : Begin(t, ok, found)
    <3>1. /\ run[t] = "handed" /\ UNCHANGED <<live, claim, answers, thread>>
          /\ run'[t] \in {"cancelled", "deferred", "done", "executing"}
      BY <2>1 DEF Begin, QueueTyped
    <3> QED
      BY <1>0, <1>1, <1>2, <1>4, <3>1 DEF Placed, Unanswered, Uncommitted
  <2>2. CASE \E v \in Verdicts : GiveUp(t, v)
    <3>1. /\ run[t] = "executing" /\ UNCHANGED <<live, claim, answers, thread>>
          /\ run'[t] \in {"cancelled", "deferred", "failed"}
      BY <2>2 DEF GiveUp, QueueTyped
    <3> QED
      BY <1>0, <1>1, <1>2, <1>4, <3>1 DEF Placed, Unanswered, Uncommitted
  <2>3. CASE Commit(t)
    <3>1. /\ run[t] = "executing" /\ UNCHANGED <<live, answers, thread>>
          /\ claim[t] = "open" /\ claim'[t] = "committed"
          /\ run'[t] = "committed"
      BY <2>3 DEF Commit, QueueTyped
    <3> QED
      BY <1>0, <1>1, <1>2, <1>4, <3>1 DEF Placed, Unanswered, Uncommitted
  <2>4. CASE \E p \in BOOLEAN, v \in {"done", "failed"} : Answer(t, p, v)
    <3>1. /\ run[t] = "committed" /\ UNCHANGED <<live, claim, thread>>
          /\ run'[t] \in {"done", "failed"}
          /\ answers'[t] = answers[t] \/ answers'[t] = answers[t] + 1
      BY <2>4 DEF Answer, QueueTyped
    <3>2. answers[t] = 0 /\ answers'[t] <= 1
      BY <1>0, <3>1 DEF Unanswered
    <3> QED
      BY <1>0, <1>1, <1>2, <1>4, <3>1, <3>2
      DEF Placed, Unanswered, Uncommitted
  <2>5. CASE \E th \in Workers : Report(t, th)
    <3>1. /\ run[t] \in Verdicts /\ UNCHANGED <<claim, answers>>
          /\ run'[t] = "none"
          /\ live'[t] = IF live[t] # "running" THEN live[t]
                        ELSE StateAfter(run[t])
      BY <2>5 DEF Report, QueueTyped, Contents
    <3>2. run[t] \in {"done", "failed", "cancelled", "deferred"}
      BY <3>1 DEF Verdicts, Finished
    <3>3. /\ live[t] # "running" => live'[t] = live[t]
          /\ run[t] \in {"done", "failed"} /\ live[t] = "running" =>
                live'[t] \in Finished
          /\ live[t] = "running" => live'[t] # "none"
      BY <3>1, <3>2 DEF StateAfter, Finished
    <3>4. "running" \notin Finished \cup {"none"}
      BY DEF Finished
    <3> QED
      BY <1>0, <1>1, <1>2, <1>4, <3>1, <3>2, <3>3, <3>4
      DEF Placed, Unanswered, Uncommitted
  <2> QED
    BY <2>1, <2>2, <2>3, <2>4, <2>5
<1>6. ASSUME NEW u \in Tasks \ {t}
      PROVE  Placed(u)' /\ Unanswered(u)'
  BY <1>1, <1>4, SamePlace DEF AnswerInv
<1> QED
  BY <1>3, <1>5, <1>6 DEF AnswerInv

LEMMA WorkingKeepsAnswers ==
    ASSUME QueueTyped, AnswerInv, Working
    PROVE  AnswerInv'
<1>1. ASSUME NEW ok \in BOOLEAN, SetPaused(ok)
      PROVE  AnswerInv'
  BY <1>1 DEF SetPaused, process, told, AnswerInv, RecoversFirst, Placed,
              Unanswered, Uncommitted
<1> QED
  BY <1>1, RestoreKeepsAnswers, ClosingKeepsAnswers, AnnouncingKeepsAnswers,
     AnnouncedKeepsAnswers, SubmittingKeepsAnswers, AdmitKeepsAnswers,
     CommandKeepsAnswers, PumpKeepsAnswers, WorkKeepsAnswers
  DEF Working

\* The conversation is asked before a recovered request goes back in line, and
\* a recovery that cannot ask puts none back.
LEMMA OpeningKeepsAnswers ==
    ASSUME QueueTyped, JournalTyped, Down, JournalInv, AnswerInv,
           Opening \/ Failing
    PROVE  AnswerInv'
<1>1. /\ ~up /\ UNCHANGED <<live, thread, run, claim, answers, asked>>
      /\ thread["pump"] = Quiet
      /\ \A t \in Tasks : run[t] = "none" /\ claim[t] = "open"
  BY MembersAre DEF Opening, Failing, Open, OpenFails, told, Down
<1>2. ASSUME NEW t \in Tasks, t \in recovering'
      PROVE  t \in asked /\ answers[t] = 0
  <2>1. /\ file.kind = "good" /\ MadeSafe(file.records)[t] \in Restorable
    BY <1>2 DEF Opening, Failing, Open, OpenFails, Down, Nothing, Restorable,
                Waiting
  <2>2. ~HasAnswer(t) /\ file.records[t] # "none"
    BY <2>1 DEF MadeSafe, Unfinished, Restorable, Waiting
  <2> QED
    BY <2>2, TypesUsed DEF HasAnswer, JournalInv
<1>3. \A th \in Threads : thread[th] = Quiet
  BY <1>1 DEF Down
<1> QED
  BY <1>1, <1>2, <1>3, MembersAre
  DEF AnswerInv, RecoversFirst, Placed, Unanswered, Uncommitted, Quiet

-----------------------------------------------------------------------------
(* A start, an end, and damage in between. *)

\* What a step may do to the file, in terms of the properties.
KeepsSaved ==
    \A t \in Tasks :
        /\ file.records[t] \in Unfinished =>
              file'.records[t] # "none" \/ t \in settled' \/ t \in unread
        /\ file.records[t] \in Finished =>
              file'.records[t] \in {file.records[t], "none"}

LEMMA MadeSafeIs ==
    ASSUME NEW r \in Contents
    PROVE  /\ MadeSafe(r) \in Contents
           /\ \A t \in Tasks :
                 /\ r[t] = "none" <=> MadeSafe(r)[t] = "none"
                 /\ r[t] \in Finished => MadeSafe(r)[t] = r[t]
  BY ContentsAre
  DEF MadeSafe, Contents, States, Finished, Unfinished, Restorable, Waiting

LEMMA OpeningKeepsJournal ==
    ASSUME JournalTyped, JournalInv, Opening
    PROVE  JournalTyped' /\ JournalInv' /\ KeepsSaved
<1>0. /\ file.records \in Contents
      /\ file = [kind |-> file.kind, records |-> file.records]
      /\ file.kind \in {"absent", "good", "bad"}
  BY DEF JournalTyped, Files
<1> DEFINE safe == IF file.kind = "good" THEN MadeSafe(file.records)
                                         ELSE Nothing
<1>1. /\ safe \in Contents
      /\ file.kind = "good" =>
            \A t \in Tasks :
               /\ file.records[t] = "none" <=> safe[t] = "none"
               /\ file.records[t] \in Finished => safe[t] = file.records[t]
      /\ file.kind # "good" => \A t \in Tasks : safe[t] = "none"
  BY <1>0, MadeSafeIs, NothingTyped DEF Nothing
<1>2. PICK ok \in BOOLEAN :
         IF file.kind = "good" /\ safe = file.records
         THEN ok /\ status' = "durable" /\ UNCHANGED file
         ELSE Save(safe, IF file.kind = "bad" THEN "protected" ELSE "durable",
                   ok)
  BY DEF Opening, Open
<1>3. /\ records' = safe /\ asked' = asked /\ up'
      /\ settled' = settled \cup {t \in Tasks : safe[t] \in Finished}
  BY DEF Opening, Open, told
<1> HIDE DEF safe
<1>4. \A t \in Tasks : file.records[t] \in Unfinished \cup Finished =>
                          file.records[t] # "none"
  BY DEF Finished, Unfinished, Restorable, Waiting
<1>5. \/ /\ file.kind = "good" /\ safe = file.records
         /\ status' = "durable" /\ file' = file
      \/ /\ file.kind = "bad" /\ status' = "protected" /\ file' = file
      \/ /\ file.kind # "bad" /\ status' = "durable"
         /\ file' = [kind |-> "good", records |-> safe]
      \/ /\ file.kind # "bad" /\ status' \notin {"durable", "protected"}
         /\ status' \in Statuses /\ file' = file
  <2>1. CASE file.kind = "good" /\ safe = file.records
    BY <1>2, <2>1
  <2>2. CASE ~(file.kind = "good" /\ safe = file.records)
    <3> DEFINE st == IF file.kind = "bad" THEN "protected" ELSE "durable"
    <3>1. Save(safe, st, ok) /\ st \in Statuses
      BY <1>2, <2>2 DEF Statuses
    <3>2. /\ status' \in Statuses
          /\ status' = "protected" <=> st = "protected"
          /\ \/ /\ st # "protected" /\ status' = "durable"
                /\ file' = [kind |-> "good", records |-> safe]
             \/ status' # "durable" /\ file' = file
      BY <1>1, <3>1, SaveWrites DEF JournalTyped
    <3> QED
      BY <3>2 DEF Statuses
  <2> QED
    BY <2>1, <2>2
<1>6. JournalTyped'
  BY <1>1, <1>3, <1>5 DEF JournalTyped, Files, Statuses
<1>7. KeepsSaved
  BY <1>1, <1>4, <1>5, ContentsAre, <1>0
  DEF KeepsSaved, JournalInv, Nothing
<1>8. StorageHonest'
  BY <1>0, <1>3, <1>5 DEF StorageHonest
<1>9. \A t \in Tasks :
         /\ file'.records[t] # "none" \/ records'[t] # "none" => t \in asked'
         /\ records'[t] \in Finished => t \in settled'
  BY <1>1, <1>3, <1>5 DEF JournalInv
<1>10. status' # "protected" => Follows'
  <2>1. CASE file' = file /\ file.kind = "good"
    BY <1>1, <1>3, <1>4, <2>1 DEF Follows
  <2>2. CASE file' = file /\ file.kind = "absent"
    BY <1>1, <1>3, <1>4, <2>2 DEF Follows, JournalInv, Nothing
  <2>3. CASE file' = [kind |-> "good", records |-> safe]
    BY <1>3, <2>3 DEF Follows, Finished, Unfinished, Restorable, Waiting
  <2> QED
    BY <1>0, <1>5, <2>1, <2>2, <2>3
<1> QED
  BY <1>5, <1>6, <1>7, <1>8, <1>9, <1>10 DEF JournalInv

\* A failed recovery leaves the file alone, and what it did not read is known
\* to be so.
LEMMA FailingKeepsJournal ==
    ASSUME JournalTyped, JournalInv, Down, Failing
    PROVE  JournalTyped' /\ JournalInv' /\ KeepsSaved
<1>1. PICK read \in SUBSET Tasks : OpenFails(read)
  BY DEF Failing
<1> DEFINE safe == MadeSafe(file.records)
<1>2. /\ safe \in Contents
      /\ \A t \in Tasks :
            /\ file.records[t] = "none" <=> safe[t] = "none"
            /\ file.records[t] \in Finished => safe[t] = file.records[t]
  BY MadeSafeIs DEF JournalTyped, Files
<1>3. /\ UNCHANGED <<file, status, asked>> /\ status = "unopened"
      /\ \A t \in Tasks : records'[t] = IF t \in read THEN safe[t] ELSE "none"
      /\ records' = [t \in Tasks |-> IF t \in read THEN safe[t] ELSE "none"]
      /\ settled' = settled \cup {t \in read : safe[t] \in Finished}
      /\ unread' = {t \in Tasks \ read : file.records[t] # "none"}
  BY <1>1 DEF OpenFails, told, Down
<1> HIDE DEF safe
<1>4. JournalTyped'
  BY <1>2, <1>3 DEF JournalTyped, Contents
<1>5. \A t \in Tasks : file.records[t] \in Unfinished =>
                          file.records[t] # "none"
  BY DEF Unfinished, Restorable, Waiting
<1>6. "none" \notin Finished
  BY DEF Finished
<1>7. KeepsSaved
  BY <1>3, <1>5 DEF KeepsSaved
<1>8. Follows'
  BY <1>2, <1>3, <1>5 DEF Follows
<1>9. \A t \in Tasks :
         /\ records'[t] # "none" => t \in asked'
         /\ records'[t] \in Finished => t \in settled'
  BY <1>2, <1>3, <1>6 DEF JournalInv
<1> QED
  BY <1>3, <1>4, <1>7, <1>8, <1>9 DEF JournalInv, StorageHonest

LEMMA DyingKeepsJournal ==
    ASSUME JournalTyped, JournalInv, Dying
    PROVE  JournalTyped' /\ JournalInv' /\ KeepsSaved
<1>1. Die
  BY DEF Dying, Crash, Exit
<1>2. \A t \in Tasks : records'[t] = "none"
  BY <1>1 DEF Die, Nothing
<1>3. \A t \in Tasks : file.records[t] \in Unfinished =>
                          file.records[t] # "none"
  BY DEF Unfinished, Restorable, Waiting
<1>4. JournalTyped'
  BY <1>1, NothingTyped DEF Die, JournalTyped, Statuses
<1> QED
  BY <1>1, <1>2, <1>3, <1>4
  DEF Die, JournalInv, StorageHonest, KeepsSaved, Finished

LEMMA DamageKeepsJournal ==
    ASSUME JournalTyped, JournalInv, Damage
    PROVE  JournalTyped' /\ JournalInv' /\ KeepsSaved
<1>1. /\ file' \in Files /\ file'.records = file.records
      /\ file'.kind \in {"good", "bad"}
  BY DEF Damage, JournalTyped, Files
<1>2. \A t \in Tasks : file.records[t] \in Unfinished =>
                          file.records[t] # "none"
  BY DEF Unfinished, Restorable, Waiting
<1>3. /\ UNCHANGED <<records, status, settled, asked, up>> /\ ~up
  BY DEF Damage, process, told
<1> QED
  BY <1>1, <1>2, <1>3
  DEF JournalTyped, JournalInv, StorageHonest, KeepsSaved

-----------------------------------------------------------------------------
(* The invariant holds. *)

LEMMA InitIsInv == Init => Inv
<1> SUFFICES ASSUME Init
             PROVE  Inv
  OBVIOUS
<1>1. Earlier \subseteq Tasks /\ 1 \in 0 .. MaxAnswers /\ 0 \in 0 .. MaxAnswers
  BY JournalAssumption
<1>2. /\ file \in Files
      /\ file.kind \in {"absent", "good"}
      /\ file.kind = "absent" => file.records = Nothing
      /\ \A t \in Tasks : file.records[t] \in {"none", "done"}
      /\ \A t \in Tasks : file.records[t] # "none" => t \in asked
  BY <1>1, MembersAre DEF Init, Files, Contents, Nothing
<1>3. JournalTyped
  BY <1>1, <1>2, NothingTyped DEF Init, JournalTyped, Statuses
<1>4. QueueTyped
  BY <1>1, NothingTyped DEF Init, QueueTyped, Runs, Unclaimed
<1>5. /\ Down
      /\ recovering = {} /\ \A t \in Tasks : answers[t] <= 1
      /\ \A t \in Tasks : answers[t] > 0 => t \in asked
  BY DEF Init, Down, Unclaimed
<1>6. AnswerInv
  BY <1>5, MembersAre DEF Init, AnswerInv, RecoversFirst, Placed, Unanswered,
     Uncommitted, Nothing, Quiet, Unclaimed
<1>7. JournalInv
  BY <1>2 DEF Init, JournalInv, StorageHonest, Nothing, Finished
<1> QED
  BY <1>3, <1>4, <1>5, <1>6, <1>7 DEF Inv

LEMMA NextKeepsInv ==
    ASSUME Inv, [Next]_vars
    PROVE  Inv' /\ KeepsSaved
<1>0. QueueTyped /\ JournalTyped /\ Down /\ JournalInv /\ AnswerInv
  BY DEF Inv
<1>1. CASE Working
  <2>1. up /\ UNCHANGED <<up, unread>>
    BY <1>0, <1>1, WorkingIsUp
  <2>2. JournalStep
    BY <1>0, <1>1, WorkingSteps
  <2>3. JournalTyped' /\ JournalInv' /\ KeepsSaved
    BY <1>0, <2>1, <2>2, StepKeepsJournal DEF JournalStep, KeepsSaved
  <2>4. QueueTyped' /\ AnswerInv'
    BY <1>0, <1>1, WorkingTyped, WorkingKeepsAnswers
  <2> QED
    BY <2>1, <2>3, <2>4 DEF Inv, Down
<1>2. CASE Dying
  <2>1. Die
    BY <1>2 DEF Dying, Crash, Exit
  <2>2. QueueTyped'
    BY <1>0, <2>1, DieTyped
  <2>3. Down'
    BY <2>1 DEF Die, Down, Unclaimed
  <2>4. AnswerInv'
    BY <1>0, <2>1, MembersAre
    DEF Die, AnswerInv, RecoversFirst, Placed, Unanswered, Uncommitted,
        Nothing, Quiet, Unclaimed
  <2> QED
    BY <1>0, <1>2, <2>2, <2>3, <2>4, DyingKeepsJournal DEF Inv
<1>3. CASE Opening
  <2>1. QueueTyped'
    BY <1>0, <1>3, OpenTyped DEF Opening
  <2>2. Down'
    BY <1>3 DEF Opening, Open, Down
  <2> QED
    BY <1>0, <1>3, <2>1, <2>2, OpeningKeepsJournal, OpeningKeepsAnswers
    DEF Inv
<1>4. CASE Failing
  <2>1. QueueTyped'
    BY <1>0, <1>4, OpenFailsTyped DEF Failing
  <2>2. Down'
    BY <1>4 DEF Failing, OpenFails, Down
  <2> QED
    BY <1>0, <1>4, <2>1, <2>2, FailingKeepsJournal, OpeningKeepsAnswers
    DEF Inv
<1>5. CASE Damage
  <2>1. QueueTyped'
    BY <1>0, <1>5, DamageTyped
  <2>2. UNCHANGED <<live, status, up, recovering, thread, run, claim, answers,
                    asked>>
    BY <1>5 DEF Damage, process, told
  <2>3. Down' /\ AnswerInv'
    BY <1>0, <2>2
    DEF Down, AnswerInv, RecoversFirst, Placed, Unanswered, Uncommitted
  <2> QED
    BY <1>0, <1>5, <2>1, <2>3, DamageKeepsJournal DEF Inv
<1>6. CASE UNCHANGED vars
  <2>1. \A t \in Tasks : file.records[t] \in Unfinished =>
                            file.records[t] # "none"
    BY DEF Unfinished, Restorable, Waiting
  <2>2. JournalTyped' /\ QueueTyped'
    BY <1>0, <1>6 DEF vars, journal, told, process, JournalTyped, QueueTyped
  <2>3. JournalInv' /\ KeepsSaved
    BY <1>0, <1>6, <2>1
    DEF vars, journal, told, process, JournalInv, StorageHonest, Follows,
        KeepsSaved
  <2>4. Down' /\ AnswerInv'
    BY <1>0, <1>6 DEF vars, journal, told, process, Down, AnswerInv,
       RecoversFirst, Placed, Unanswered, Uncommitted
  <2> QED
    BY <2>2, <2>3, <2>4 DEF Inv
<1> QED
  BY <1>1, <1>2, <1>3, <1>4, <1>5, <1>6, NextIs

\* The inductive invariant of the queue and its journal holds in every
\* reachable state (queue_journal.py and its users in runtime_bridge.py).
THEOREM JournalInvariant == Spec => []Inv
<1>1. Inv /\ [Next]_vars => Inv'
  BY NextKeepsInv
<1> QED
  BY InitIsInv, <1>1, PTL DEF Spec

\* Every variable keeps its type.
THEOREM JournalTypeCorrect == Spec => []TypeOK
<1>1. Inv => TypeOK
  BY TypesAre DEF Inv
<1> QED
  BY <1>1, JournalInvariant, PTL

\* While the journal calls itself durable, the file holds exactly what the
\* journal holds (QueueJournal._save, open).
THEOREM StorageIsHonest == Spec => []StorageHonest
<1>1. Inv => StorageHonest
  BY DEF Inv, JournalInv
<1> QED
  BY <1>1, JournalInvariant, PTL

\* One request has one answer at most, over any number of runs and restarts
\* (QueuedConversation.execute, has_assistant_reply).
THEOREM OneAnswerCorrect == Spec => []OneAnswer
<1>1. Inv => OneAnswer
  BY DEF Inv, AnswerInv, Unanswered, OneAnswer
<1> QED
  BY <1>1, JournalInvariant, PTL

\* A saved request is never dropped from the file before it has finished, but
\* by a process whose recovery failed before it read the request
\* (QueueJournal.update, _prune, open).
THEOREM SavedRequestCorrect == Spec => SavedRequestKept
<1>1. Inv /\ [Next]_vars =>
         [\A t \in Tasks : file.records[t] \in Unfinished
              => \/ file'.records[t] # "none"
                 \/ t \in settled'
                 \/ t \in unread]_vars
  BY NextKeepsInv DEF KeepsSaved
<1> QED
  BY <1>1, JournalInvariant, PTL DEF Spec, SavedRequestKept

\* A saved outcome is final (QueueJournal.update: a finished record is left
\* alone).
THEOREM SavedOutcomeCorrect == Spec => SavedOutcomeFinal
<1>1. Inv /\ [Next]_vars =>
         [\A t \in Tasks : file.records[t] \in Finished
              => file'.records[t] \in {file.records[t], "none"}]_vars
  BY NextKeepsInv DEF KeepsSaved
<1> QED
  BY <1>1, JournalInvariant, PTL DEF Spec, SavedOutcomeFinal
=============================================================================
