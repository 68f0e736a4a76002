----------------------------- MODULE TurnControl ------------------------------
(***************************************************************************)
(* A foreground turn of the runtime bridge against Stop, Pause, Resume and *)
(* close: core/runtime_bridge.py over the foreground lifecycle, the        *)
(* registry of computer actions and the approval ledger.                   *)
(*                                                                         *)
(* A worker is the thread started for one request (typed, spoken, or the   *)
(* answer to a screen prompt); an answerer carries decisions on file       *)
(* actions, one after another; the commands run on the reader of the       *)
(* desktop's messages, each as the list of its calls.  What a request asks *)
(* for, and what the gates, models and executors say, is left open.        *)
(*                                                                         *)
(* Media questions and history undos are revoked by the same commands in   *)
(* the same way and are left out, and so are the wake listener, the        *)
(* playback of a spoken answer and the queue, which Pause holds too.       *)
(***************************************************************************)
EXTENDS Sequences, ForegroundLifecycle, ActionCancellation, ApprovalLedger

CONSTANTS
    Answerer,       \* threads that carry decisions on file actions
    MaxCommands     \* bound on the commands of a behaviour

VARIABLES
    paused,         \* RuntimeBridge._runtime_paused
    busy,           \* RuntimeBridge._busy
    lease,          \* the approval lease for reversible file writes is active
    pc,             \* where each worker is
    decision,       \* where each answerer is, and the ticket it took
    calls,          \* the command in progress: the calls it has yet to make
    commands,       \* how many commands there have been
    stopped,        \* turns that were running when a command cancelled them
    passed,         \* the epoch of each turn's last check that let it go on
    joined,         \* the epoch in which each turn's action was registered
    words,          \* last words said to each request
    answered,       \* turns that put an answer into the conversation
    takes           \* how often each ticket was taken

bridge == <<paused, busy, lease>>
threads == <<pc, decision>>
command == <<calls, commands, stopped>>
marks == <<passed, joined>>
told == <<words, answered, takes>>
vars == <<lifecycle, registry, ledger, bridge, threads, command, marks, told>>

\* FILE_ACTION stands for a "file" prompt, and for a "write" that the lease
\* answers, whose identity nobody is shown.
FileKinds == {"file", "write"}
ScreenKinds == {"screen", "paint"}

ASSUME TurnAssumption ==
    /\ NoWorker \notin Worker
    /\ Unmarked \notin Nat
    /\ MaxCommands \in Nat
    /\ Kind = FileKinds \cup ScreenKinds

\* The calls of request_stop_response, set_runtime_paused and close, in order,
\* after the foreground token is cancelled.
Calls(c) ==
    CASE c = "stop" -> <<"epoch", "tokens", "screens", "files">>
      [] c = "pause" -> <<"pause", "files", "epoch", "tokens", "screens">>
      [] c = "resume" -> <<"resume">>
      [] c = "close" -> <<"bar", "tokens", "screens", "files", "seal">>

\* Where a worker counts as busy, and where it holds the foreground.
BusyPlaces == {"counted", "running", "speaking", "looking", "drawing",
               "acting", "native", "outcome", "preparing", "confirming",
               "leasing", "prompting", "leased", "writing", "asking",
               "painting", "raised", "ending"}
TurnPlaces == BusyPlaces \cup {"entered", "reporting", "leaving", "unwinding"}
Places == TurnPlaces \cup {"new", "left", "done"}

Init ==
    /\ LifecycleInit
    /\ RegistryInit(Worker)
    /\ LedgerInit(Worker \cup {NoWorker}, NoWorker)
    /\ paused = FALSE
    /\ busy = FALSE
    /\ lease = FALSE
    /\ pc = [w \in Worker |-> "new"]
    /\ decision = [a \in Answerer |-> [at |-> "idle", on |-> {}]]
    /\ calls = <<>>
    /\ commands = 0
    /\ stopped = {}
    /\ passed = [w \in Worker |-> Unmarked]
    /\ joined = [w \in Worker |-> Unmarked]
    /\ words = [w \in Worker |-> 0]
    /\ answered = {}
    /\ takes = [i \in Ticket |-> 0]

Go(w, from, to) == pc[w] = from /\ pc' = [pc EXCEPT ![w] = to]
LastWord(w) == words' = [words EXCEPT ![w] = @ + 1]

-----------------------------------------------------------------------------
(* A turn, from its thread's start to its end. *)

\* run_text_turn, _run_voice_turn and look_at_screen: a refused request is told
\* so at once.  Threads that have not begun are alike: the chosen one is next.
BeginTurn(w) ==
    /\ pc[w] = "new" /\ w = CHOOSE v \in Worker : pc[v] = "new"
    /\ Enter(w, paused, busy)
    /\ IF Admission(paused, busy) = "entered"
       THEN Go(w, "new", "entered") /\ UNCHANGED words
       ELSE Go(w, "new", "done") /\ LastWord(w)
    /\ UNCHANGED <<registry, ledger, bridge, decision, command, marks,
                   answered, takes>>

\* _run_text_turn: Pause may have come since the turn began.
Count(w) ==
    /\ IF paused \/ busy
       THEN Go(w, "entered", "leaving") /\ LastWord(w) /\ UNCHANGED busy
       ELSE Go(w, "entered", "counted") /\ busy' = TRUE /\ UNCHANGED words
    /\ UNCHANGED <<lifecycle, registry, ledger, paused, lease, decision,
                   command, marks, answered,
                   takes>>

MarkStart(w) ==
    /\ Go(w, "counted", "running")
    /\ Mark(w)
    /\ UNCHANGED <<lifecycle, ledger, bridge, decision, command, marks, told>>

\* inference_checkpoint, or a publication that a command came before.
Interrupted(w) ==
    /\ w \in cancelled
    /\ \E p \in {"running", "speaking", "looking", "outcome"} :
            Go(w, p, "raised")
    /\ UNCHANGED <<lifecycle, registry, ledger, bridge, decision, command,
                   marks, told>>

\* The answer, or the error, of the turn: the conversation and the event in
\* one publication.
Answer(w) ==
    /\ MayPublish(w)
    /\ PublishLast(w)
    /\ \E p \in {"running", "speaking", "looking"} : Go(w, p, "ending")
    /\ LastWord(w)
    /\ answered' = answered \cup {w}
    /\ UNCHANGED <<registry, ledger, bridge, decision, command, marks, takes>>

\* A spoken answer is published before it is read out and the turn completed.
Speak(w) ==
    /\ ~inTransition /\ MayPublish(w)
    /\ \E p \in {"running", "outcome"} : Go(w, p, "speaking")
    /\ answered' = answered \cup {w}
    /\ UNCHANGED <<lifecycle, registry, ledger, bridge, decision, command,
                   marks, words, takes>>

\* What an action did is told even to a cancelled turn: action_outcome.
Outcome(w) ==
    /\ PublishLast(w)
    /\ Go(w, "outcome", "ending")
    /\ LastWord(w)
    /\ UNCHANGED <<registry, ledger, bridge, decision, command, marks,
                   answered, takes>>

\* The finally clauses, from the inside out: the busy flag, on_cancel's
\* report, the gate, and the report of the handler outside the scope.
ClearBusy(w) ==
    /\ Go(w, "ending", "leaving") \/ Go(w, "raised", "reporting")
    /\ busy' = FALSE
    /\ UNCHANGED <<lifecycle, registry, ledger, paused, lease, decision,
                   command, marks, told>>

ReportCancelled(w) ==
    /\ Claim(w)
    /\ Go(w, "reporting", "unwinding")
    /\ IF MayClaim(w) THEN LastWord(w) ELSE UNCHANGED words
    /\ UNCHANGED <<registry, ledger, bridge, decision, command, marks,
                   answered, takes>>

LeaveIll(w) ==
    /\ Leave(w)
    /\ Go(w, "unwinding", "left")
    /\ UNCHANGED <<turn, registry, ledger, bridge, decision, command, marks,
                   told>>

\* The thread ends, and its turn, its tokens and its mark with it.
EndThread(w) ==
    /\ DropTurn(w)
    /\ DropThread(w)
    /\ passed' = [passed EXCEPT ![w] = Unmarked]
    /\ joined' = [joined EXCEPT ![w] = Unmarked]
    /\ stopped' = stopped \ {w}
    /\ answered' = answered \ {w}
    /\ UNCHANGED <<ledger, bridge, decision, calls, commands, takes>>

LeaveTurn(w) ==
    /\ Leave(w)
    /\ Go(w, "leaving", "done")
    /\ EndThread(w)
    /\ UNCHANGED words

ReportAgain(w) ==
    /\ ~inTransition
    /\ Go(w, "left", "done")
    /\ IF MayClaim(w) THEN LastWord(w) ELSE UNCHANGED words
    /\ EndThread(w)
    /\ UNCHANGED <<inTransition, active, shut>>

-----------------------------------------------------------------------------
(* What a turn may do to the machine: computer actions. *)

\* ActiveActionRegistry.begin: first the check, then the registration.
BeginAction(w) ==
    /\ Go(w, "running", "acting") \/ Go(w, "drawing", "acting")
    /\ CheckAction(w)
    /\ passed' = [passed EXCEPT ![w] = epoch]
    /\ UNCHANGED <<lifecycle, ledger, bridge, decision, command, joined, told>>

Register(w) ==
    /\ pc[w] = "acting"
    /\ RegisterAction(w)
    /\ joined' = [joined EXCEPT ![w] = epoch]
    /\ UNCHANGED <<lifecycle, ledger, bridge, threads, command, passed, told>>

\* The executor's checkpoint before a native step, and the step itself.
Checkpoint(w) ==
    /\ action[w] = "registered" /\ w \notin aborted
    /\ Go(w, "acting", "native")
    /\ UNCHANGED <<lifecycle, registry, ledger, bridge, decision, command,
                   marks, told>>

EndComputerAction(w) ==
    /\ action[w] = "registered"
    /\ Go(w, "native", "outcome") \/ Go(w, "acting", "outcome")
    /\ EndAction(w)
    /\ UNCHANGED <<lifecycle, ledger, bridge, decision, command, marks, told>>

-----------------------------------------------------------------------------
(* File actions of a typed request. *)

\* A stopped turn says so as the outcome of the action it did not begin.
ToldStopped(w, from) ==
    /\ Stopped(w)
    /\ PublishLast(w)
    /\ Go(w, from, "ending")
    /\ LastWord(w)
    /\ UNCHANGED <<registry, ledger, bridge, decision, command, marks,
                   answered, takes>>

\* _begin_text_file_action, up to the preparation: one file action at a time.
BeginFileAction(w) ==
    /\ ~Stopped(w)
    /\ OpenNow(FileKinds) = {}
    /\ Go(w, "running", "preparing")
    /\ tickets' = ExpiredNow
    /\ UNCHANGED <<lifecycle, registry, sealed, bridge, decision,
                   command, marks, told>>

\* Mutant: the turn is only asked before the preparation.
CheckedOnce(w) == TRUE

\* The second check, and what the verdict allows.
MayGoOn(w) == ~Stopped(w)

Prepared(w) ==
    /\ MayGoOn(w)
    /\ \/ Go(w, "preparing", "writing")
       \/ Go(w, "preparing", "confirming")
       \/ Go(w, "preparing", "outcome")
    /\ passed' = [passed EXCEPT ![w] = epoch]
    /\ UNCHANGED <<lifecycle, registry, ledger, bridge, decision, command,
                   joined, told>>

ReadLease(w) ==
    /\ IF lease THEN Go(w, "confirming", "leasing")
                ELSE Go(w, "confirming", "prompting")
    /\ UNCHANGED <<lifecycle, registry, ledger, bridge, decision, command,
                   marks, told>>

\* The identity of the prompt, or of the write the lease answers for.
IssueFile(w) ==
    /\ \/ Go(w, "prompting", "ending") /\ Issue(tickets, "file", w)
       \/ Go(w, "leasing", "leased") /\ Issue(tickets, "write", w)
    /\ UNCHANGED <<lifecycle, registry, bridge, decision, command, marks,
                   told>>

\* Mutant: a turn that gets no identity waits for one.
WaitForIdentity(w) == FALSE

\* After close there are no more identities, and the turn fails: it was
\* cancelled.
IssueFails(w) ==
    /\ sealed
    /\ \E p \in {"prompting", "leasing", "asking", "painting"} :
            Go(w, p, "raised")
    /\ UNCHANGED <<lifecycle, registry, ledger, bridge, decision, command,
                   marks, told>>

Took(i) == takes' = [takes EXCEPT ![i] = @ + 1]

\* resolve_file_action_decision by the turn itself: a Pause or a revocation
\* since the issue ends it without a word of its own.
ResolveLeased(w) ==
    \E i \in Ticket :
        /\ tickets[i].owner = w /\ tickets[i].kind = "write"
        /\ \/ /\ ~paused
              /\ Take(i, FileKinds)
              /\ Took(i)
              /\ Go(w, "leased", "writing")
           \/ /\ IF paused THEN UNCHANGED ledger ELSE Refuse(i, FileKinds)
              /\ Go(w, "leased", "ending")
              /\ UNCHANGED takes
        /\ UNCHANGED <<lifecycle, registry, bridge, decision, command, marks,
                       words, answered>>

WriteFile(w) ==
    /\ Go(w, "writing", "outcome")
    /\ UNCHANGED <<lifecycle, registry, ledger, bridge, decision, command,
                   marks, told>>

-----------------------------------------------------------------------------
(* Screen prompts of a spoken request, and the turn that answers one. *)

\* Asked once whether the turn was stopped, then the prompt.
BeginPrompt(w) ==
    /\ ~Stopped(w)
    /\ Go(w, "running", "asking") \/ Go(w, "running", "painting")
    /\ passed' = [passed EXCEPT ![w] = epoch]
    /\ UNCHANGED <<lifecycle, registry, ledger, bridge, decision, command,
                   joined, told>>

\* A newer question replaces an unanswered one: _approval_lock makes the two
\* calls one.
IssueScreen(w) ==
    /\ Go(w, "asking", "ending")
    /\ Issue(RevokedFrom(tickets, {"screen"}, "superseded"), "screen", w)
    /\ UNCHANGED <<lifecycle, registry, bridge, decision, command, marks,
                   told>>

\* _issue_paint_prompt: none while another is open.
IssuePaint(w) ==
    /\ IF OpenNow({"paint"}) = {}
       THEN /\ Go(w, "painting", "ending")
            /\ Issue(ExpiredNow, "paint", w)
       ELSE /\ Go(w, "painting", "outcome")
            /\ tickets' = ExpiredNow
            /\ UNCHANGED sealed
    /\ UNCHANGED <<lifecycle, registry, bridge, decision, command, marks,
                   told>>

\* _look_at_screen with an identity: taken, then declined or carried out.
AnswerPrompt(w) ==
    \E i \in Ticket :
        /\ \/ /\ Take(i, ScreenKinds)
              /\ Took(i)
              /\ \/ Go(w, "running", "ending") /\ LastWord(w)
                 \/ /\ tickets[i].kind = "screen"
                    /\ Go(w, "running", "looking")
                    /\ UNCHANGED words
                 \/ /\ tickets[i].kind = "paint"
                    /\ Go(w, "running", "drawing")
                    /\ UNCHANGED words
           \/ /\ Refuse(i, ScreenKinds)
              /\ Go(w, "running", "ending")
              /\ LastWord(w)
              /\ UNCHANGED takes
        /\ UNCHANGED <<lifecycle, registry, bridge, decision, command, marks,
                       answered>>

-----------------------------------------------------------------------------
(* A decision on a file action, on its own thread. *)

Decides(a, from, to, on) ==
    /\ decision[a].at = from
    /\ decision' = [decision EXCEPT ![a] = [at |-> to, on |-> on]]

Shown(i) == tickets[i].state # "unissued" /\ tickets[i].kind # "write"

\* resolve_file_action_decision: nothing while paused; then the identity is
\* taken, whatever the answer.  A person may answer any prompt ever shown.
ReadDecision(a) ==
    /\ ~paused
    /\ \E i \in Ticket : Shown(i)
    /\ Decides(a, "idle", "taking", {})
    /\ UNCHANGED <<lifecycle, registry, ledger, bridge, pc, command, marks,
                   told>>

TakeDecision(a) ==
    \E i \in Ticket :
        /\ Shown(i)
        /\ \/ /\ Take(i, FileKinds)
              /\ Took(i)
              /\ \/ Decides(a, "taking", "approved", {i})
                 \/ Decides(a, "taking", "telling", {i})
           \/ /\ Refuse(i, FileKinds)
              /\ Decides(a, "taking", "idle", {})
              /\ UNCHANGED takes
        /\ UNCHANGED <<lifecycle, registry, bridge, pc, command, marks,
                       words, answered>>

\* The write; the gate, which is asked again, may still refuse it, and then
\* there is no lease.
CarryOut(a) ==
    /\ \/ Decides(a, "approved", "granting", decision[a].on)
       \/ Decides(a, "approved", "telling", decision[a].on)
    /\ UNCHANGED <<lifecycle, registry, ledger, bridge, pc, command, marks,
                   told>>

GrantLease(a) ==
    /\ Decides(a, "granting", "telling", decision[a].on)
    /\ lease' = TRUE
    /\ UNCHANGED <<lifecycle, registry, ledger, paused, busy, pc, command,
                   marks, told>>

\* _finish_text_file_action, outside of any turn: it only waits for the gate.
TellDecision(a) ==
    /\ ~inTransition
    /\ Decides(a, "telling", "idle", {})
    /\ \E i \in decision[a].on : LastWord(tickets[i].owner)
    /\ UNCHANGED <<lifecycle, registry, ledger, bridge, pc, command, marks,
                   answered, takes>>

-----------------------------------------------------------------------------
(* The commands. *)

\* transition() is entered and the foreground token cancelled.  A close is the
\* last command.
StartCommand(c) ==
    /\ calls = <<>> /\ ~shut /\ commands < MaxCommands
    /\ StartTransition(c # "resume", c = "close")
    /\ calls' = Calls(c)
    /\ commands' = commands + 1
    /\ stopped' = IF c = "resume" THEN stopped
                  ELSE stopped \cup ({active} \ {NoWorker})
    /\ UNCHANGED <<registry, ledger, bridge, threads, marks, told>>

NextCall(op) ==
    /\ calls # <<>> /\ Head(calls) = op
    /\ calls' = Tail(calls)
    /\ UNCHANGED <<commands, stopped, threads, marks, answered,
                   takes>>

SetPaused ==
    /\ \/ NextCall("pause") /\ paused' = TRUE
       \/ NextCall("resume") /\ paused' = FALSE
    /\ UNCHANGED <<lifecycle, registry, ledger, busy, lease, words>>

\* _computer_actions.cancel_all and close.
CancelActions ==
    /\ \/ NextCall("epoch") /\ AdvanceEpoch
       \/ NextCall("tokens") /\ CancelVictims
       \/ NextCall("bar") /\ Bar
    /\ UNCHANGED <<lifecycle, ledger, bridge, words>>

\* _discard_pending_approvals.
DiscardScreens ==
    /\ NextCall("screens")
    /\ RevokeKinds(ScreenKinds)
    /\ UNCHANGED <<lifecycle, registry, bridge, words>>

\* _discard_pending_file_approvals: the requests are answered here, and the
\* lease ends.
DiscardFiles ==
    /\ NextCall("files")
    /\ RevokeKinds(FileKinds)
    /\ words' = [w \in Worker |->
            words[w] + Cardinality({i \in OpenIn(tickets, FileKinds) :
                                        tickets[i].owner = w})]
    /\ lease' = FALSE
    /\ UNCHANGED <<lifecycle, registry, paused, busy>>

SealLedger ==
    /\ NextCall("seal")
    /\ Seal
    /\ UNCHANGED <<lifecycle, registry, bridge, words>>

\* The end of transition().  close() waits for the registered actions before
\* it, at most for the grace, and goes on whether they ended or not.
FinishCommand ==
    /\ inTransition /\ calls = <<>>
    /\ EndTransition
    /\ UNCHANGED <<registry, ledger, bridge, threads, command, marks, told>>

Command ==
    \/ SetPaused \/ CancelActions \/ DiscardScreens \/ DiscardFiles
    \/ SealLedger \/ FinishCommand

-----------------------------------------------------------------------------
\* Time passes: an identity or the lease runs out.
Expire ==
    /\ \/ TimePasses /\ UNCHANGED bridge
       \/ /\ lease /\ lease' = FALSE
          /\ UNCHANGED <<paused, busy, ledger>>
    /\ UNCHANGED <<lifecycle, registry, threads, command, marks, told>>

Turn(w) ==
    \/ BeginTurn(w) \/ Count(w) \/ MarkStart(w) \/ Interrupted(w)
    \/ Answer(w) \/ Speak(w) \/ Outcome(w)
    \/ ClearBusy(w) \/ ReportCancelled(w) \/ LeaveIll(w) \/ ReportAgain(w)
    \/ LeaveTurn(w)
    \/ BeginAction(w) \/ Register(w) \/ Checkpoint(w) \/ EndComputerAction(w)
    \/ \E p \in {"running", "preparing"} : ToldStopped(w, p)
    \/ BeginFileAction(w) \/ Prepared(w) \/ ReadLease(w) \/ IssueFile(w)
    \/ IssueFails(w) \/ ResolveLeased(w) \/ WriteFile(w)
    \/ BeginPrompt(w) \/ IssueScreen(w) \/ IssuePaint(w) \/ AnswerPrompt(w)

Decision(a) ==
    \/ ReadDecision(a) \/ TakeDecision(a) \/ CarryOut(a) \/ GrantLease(a)
    \/ TellDecision(a)

Next ==
    \/ \E w \in Worker : Turn(w)
    \/ \E a \in Answerer : Decision(a)
    \/ \E c \in {"stop", "pause", "resume", "close"} : StartCommand(c)
    \/ Command
    \/ Expire

\* Threads are scheduled, and each call of a command returns: while a turn or
\* a command can go on, one of them does.  Nobody has to answer a prompt or
\* give a command, and time may stand still.
Fairness == WF_vars(Command \/ \E w \in Worker : Turn(w))

Spec == Init /\ [][Next]_vars /\ Fairness

-----------------------------------------------------------------------------
(* Properties. *)

\* The variables hold what the code can put in them (all of TurnControl).
TypeOK ==
    /\ LifecycleTypeOK
    /\ RegistryTypeOK(Worker)
    /\ LedgerTypeOK(Worker \cup {NoWorker})
    /\ paused \in BOOLEAN /\ busy \in BOOLEAN /\ lease \in BOOLEAN
    /\ pc \in [Worker -> Places]
    /\ decision \in [Answerer -> [at : {"idle", "taking", "approved",
                                        "granting", "telling"},
                                  on : SUBSET Ticket]]
    /\ stopped \subseteq Worker
    /\ passed \in [Worker -> Nat \cup {Unmarked}]
    /\ joined \in [Worker -> Nat \cup {Unmarked}]
    /\ words \in [Worker -> Nat]
    /\ answered \subseteq Worker
    /\ takes \in [Ticket -> Nat]

\* One turn at a time holds the foreground, from its admission until the gate
\* is given back, and the busy flag is up exactly while it does its work: the
\* gate, not the flag, excludes (ForegroundLifecycle.begin, _set_busy).
OneTurn ==
    /\ \A w \in Worker : pc[w] \in TurnPlaces <=> active = w
    /\ busy <=> \E w \in Worker : pc[w] \in BusyPlaces

\* A request hears one last word at most, whoever says it: the turn, the
\* handlers of its cancellation (there are two), the thread that carried out
\* the decision on its file action, or the command that revoked it.
OneLastWord == \A w \in Worker : words[w] <= 1

\* A turn that ended without a last word left a prompt behind it, and the word
\* is owed by whoever settles the prompt: it is open, being decided, or it ran
\* out (an expired identity, and one that only close() swept, answers nobody).
OwedAWord ==
    \A w \in Worker : pc[w] = "done" /\ words[w] = 0 =>
        \E i \in Ticket :
            /\ tickets[i].owner = w
            /\ \/ tickets[i].kind \in ScreenKinds
               \/ tickets[i].state \in OpenStates \cup {"expired", "closed"}
               \/ \E a \in Answerer : i \in decision[a].on

\* An identity is honoured once, and only while it is open and in time: not
\* after it expired, was revoked, replaced or swept by close, though the
\* answers come on any thread at any time (ApprovalLedger.take).
HonouredOnce ==
    [][\A i \in Ticket : takes'[i] # takes[i] =>
            takes'[i] = 1 /\ tickets[i].state = "open"]_vars

\* Stop never poisons the next command: a turn that no command found running
\* is free to infer, to publish and to act (the epoch it marks is its own).
NextTurnIsFree ==
    \A w \in Worker \ stopped :
        /\ w \notin cancelled \cup aborted
        /\ pc[w] \in BusyPlaces \ {"counted"} => ~Stopped(w)

\* Once a command that cancels has been acknowledged, the turn it found
\* running publishes no answer, and starts no native step, no file write and
\* no prompt, but for what the code lets through: a check it passed before the
\* epoch advanced (for a computer action: and a registration after), and a
\* start it marked only after the command.  Neither helps an action that was
\* registered when the command counted them.
Late(w) == ~barred /\ turnEpoch[w] = epoch
SlippedIn(w) == passed[w] # joined[w] /\ joined[w] = epoch
StopHolds ==
    [][\A w \in stopped : ~inTransition =>
        /\ w \in answered' => w \in answered
        /\ pc[w] = "acting" /\ pc'[w] = "native" => Late(w) \/ SlippedIn(w)
        /\ pc[w] = "preparing" /\ pc'[w] \in {"writing", "confirming"} =>
              Late(w)
        /\ pc[w] = "running"
           /\ pc'[w] \in {"preparing", "asking", "painting"} => Late(w)
      ]_vars

\* The foreground is given back and every command is acknowledged: a turn
\* waits for the command that holds the gate, close() waits for the turn's
\* actions, and neither waits forever (transition, begin, publication).
ForegroundIsReturned ==
    active # NoWorker \/ inTransition ~> active = NoWorker /\ ~inTransition
=============================================================================
