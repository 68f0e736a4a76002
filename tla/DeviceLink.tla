------------------------------ MODULE DeviceLink ------------------------------
(***************************************************************************)
(* The device link: core/link_server.py with core/link_runtime.py over the *)
(* device registry, the pairing window and the ledger of commands.         *)
(*                                                                         *)
(* A connection is served by a thread of its own; the person's thread      *)
(* pairs, cancels, revokes and restarts the link; the accept loop sweeps   *)
(* the window.  A phone holds one connection at a time, may lose it at any *)
(* moment, and repeats a command, under its id, on the next one.           *)
(*                                                                         *)
(* The handshake resolves a key where the record is read and is one step   *)
(* with it.  The remote scope, the security monitor, slots and budgets,    *)
(* and requests without an id are left out, and so is a handler that       *)
(* outlives the restart of the link: it answers nobody.                    *)
(***************************************************************************)
EXTENDS CommandLedger, DeviceRegistry, PairingService

CONSTANTS
    Conn,               \* threads that serve connections
    Person, Sweeper,    \* the desktop's thread and the accept loop
    MaxAsks             \* bound on the requests of a behaviour

VARIABLES
    job,        \* what each thread is doing, and for which device
    ask,        \* the request of each session
    said,       \* the answer each session is about to send
    line,       \* connections the phone still holds
    ended,      \* LinkSession.ended: sessions told to end
    asks        \* how many requests there were, of the most there may be

sessions == <<ask, said, line, ended, asks>>
vars == <<registry, pairing, commands, job, sessions>>

Thread == Conn \cup {Person, Sweeper}

ASSUME LinkAssumption ==
    /\ Person \notin Conn /\ Sweeper \notin Conn /\ Person # Sweeper
    /\ MaxAsks \in Nat

CancelSteps == {"cancel", "look", "remove"}
PairingSteps == CancelSteps \cup {"offer", "pairing", "activating", "marking"}
LiveSteps == {"open", "asked", "valid", "running", "answering"}
Steps == PairingSteps \cup LiveSteps
            \cup {"idle", "touching", "admitted", "ending", "forgetting"}

Requests == [cid : Cid, op : Op]
NoAsk == [cid |-> "none", op |-> "none"]
Idle == [at |-> "idle", dev |-> NoDevice, next |-> "idle"]

Init ==
    /\ RegistryInit
    /\ PairingInit
    /\ LedgerInit
    /\ job = [t \in Thread |-> Idle]
    /\ ask = [s \in Conn |-> NoAsk]
    /\ said = [s \in Conn |-> {}]
    /\ line = {}
    /\ ended = {}
    /\ asks \in 0..MaxAsks

At(t, step) == job[t].at = step
Goes(t, step) == job' = [job EXCEPT ![t].at = step]
Dev(t) == job[t].dev

\* The thread has nothing left to do; a connection is closed with it.
Leaves(t) ==
    /\ job' = [job EXCEPT ![t] = Idle]
    /\ line' = line \ {t}
    /\ ended' = ended \ {t}
    /\ IF t \in Conn THEN /\ ask' = [ask EXCEPT ![t] = NoAsk]
                          /\ said' = [said EXCEPT ![t] = {}]
                     ELSE UNCHANGED <<ask, said>>
    /\ UNCHANGED asks

-----------------------------------------------------------------------------
(* PairingService.cancel, on any thread. *)

\* Back in the caller: open() goes on, everybody else is finished.
AfterCancel(t) ==
    IF job[t].next = "idle" THEN Leaves(t)
    ELSE /\ job' = [job EXCEPT ![t] = [Idle EXCEPT !.at = job[t].next]]
         /\ UNCHANGED sessions

\* The window is read and cleared with no switch of threads in between.
CancelDrop(t) ==
    /\ At(t, "cancel")
    /\ CloseWindow
    /\ IF window.dev = NoDevice
       THEN AfterCancel(t)
       ELSE /\ job' = [job EXCEPT ![t].at = "look", ![t].dev = window.dev]
            /\ UNCHANGED sessions
    /\ UNCHANGED <<registry, commands>>

CancelLook(t) ==
    /\ At(t, "look")
    /\ Look
    /\ IF Now[Dev(t)] = "pending" THEN Goes(t, "remove") /\ UNCHANGED sessions
                                  ELSE AfterCancel(t)
    /\ UNCHANGED <<pairing, commands>>

\* remove.  A device that is gone already raises out of the caller, and on the
\* accept loop out of the loop; no thread here removes another's device.
CancelRemove(t) ==
    /\ At(t, "remove")
    /\ IF Exists(Fresh, Dev(t))
       THEN Change(Dev(t), "gone") /\ AfterCancel(t)
       ELSE Reload /\ Leaves(t)
    /\ UNCHANGED <<pairing, commands>>

Cancel(t) == CancelDrop(t) \/ CancelLook(t) \/ CancelRemove(t)

\* expire_if_due, on the accept loop: the window is read, then cancel() reads
\* it again.
Sweep ==
    /\ At(Sweeper, "idle") /\ Due
    /\ Goes(Sweeper, "cancel")
    /\ UNCHANGED <<registry, pairing, commands, sessions>>

-----------------------------------------------------------------------------
(* The person at the computer. *)

\* Mutant: a new window is opened over the old one.
OfferAtOnce ==
    /\ At(Person, "idle") /\ \E d \in Device : Fresh[d] = "absent"
    /\ Goes(Person, "offer")
    /\ UNCHANGED <<registry, pairing, commands, sessions>>

\* open_pairing, while there are identities to give, and cancel_pairing, which
\* looks for a window first: both cancel what is open.
AskPairing ==
    /\ At(Person, "idle")
    /\ \E next \in {"idle", "offer"} :
       /\ IF next = "offer" THEN \E d \in Device : Fresh[d] = "absent"
                            ELSE window.dev # NoDevice
       /\ job' = [job EXCEPT ![Person] =
                    [at |-> "cancel", dev |-> NoDevice, next |-> next]]
    /\ UNCHANGED <<registry, pairing, commands, sessions>>

\* open, at its end: a device that never was, and its window.  Nobody knows
\* the device before its code is shown, so the two are one step.
Offer(d) ==
    /\ At(Person, "offer") /\ Fresh[d] = "absent"
    /\ Change(d, "pending")
    /\ ShowWindow(d)
    /\ Leaves(Person)
    /\ UNCHANGED commands

\* LinkServer.revoke: the registry, the open sessions, the ledger.
Revoke(d) ==
    /\ At(Person, "idle") /\ Exists(Fresh, d)
    /\ Change(d, "revoked")
    /\ job' = [job EXCEPT ![Person].at = "ending", ![Person].dev = d]
    /\ UNCHANGED <<pairing, commands, sessions>>

\* end_sessions: the registered ones.
Registered(d) == {s \in Conn : job[s].at \in LiveSteps /\ Dev(s) = d}

EndSessions ==
    /\ At(Person, "ending")
    /\ ended' = ended \cup Registered(Dev(Person))
    /\ Goes(Person, "forgetting")
    /\ UNCHANGED <<registry, pairing, commands, ask, said, line, asks>>

ForgetDevice ==
    /\ At(Person, "forgetting")
    /\ Forget(Dev(Person))
    /\ Leaves(Person)
    /\ UNCHANGED <<registry, pairing>>

\* stop and start: every session ends, the window is cancelled, and the new
\* server has a new ledger.  stop() waits for the accept loop and for the
\* connections, of which only a handler may take longer than it waits.
RestartLink ==
    /\ At(Person, "idle") /\ \A t \in Thread : job[t].at \notin PairingSteps
    /\ IF window.dev # NoDevice /\ Fresh[window.dev] = "pending"
       THEN Change(window.dev, "gone") ELSE Reload
    /\ window' = NoWindow
    /\ entries' = [d \in Device |-> [c \in Cid |-> NoEntry]]
    /\ retained' = 0
    /\ job' = [t \in Thread |-> Idle]
    /\ ask' = [s \in Conn |-> NoAsk]
    /\ said' = [s \in Conn |-> {}]
    /\ line' = {} /\ ended' = {}
    /\ UNCHANGED <<asks, overwritten>>

-----------------------------------------------------------------------------
(* A connection, from the handshake to a registered session. *)

Connect(s, d) ==
    /\ At(s, "idle") /\ \A r \in line : Dev(r) # d
    /\ CanAuthenticate(d)
    /\ Look
    /\ job' = [job EXCEPT ![s] =
            [at |-> IF Now[d] = "pending" THEN "pairing" ELSE "touching",
             dev |-> d, next |-> "idle"]]
    /\ line' = line \cup {s}
    /\ UNCHANGED <<pairing, commands, ask, said, ended, asks>>

\* complete: a window that ran out is cancelled, whosever it is.
CompletePairing(s) ==
    /\ At(s, "pairing")
    /\ IF Due THEN Goes(s, "cancel") /\ UNCHANGED <<registry, sessions>>
       ELSE IF ~Completes(Dev(s)) THEN Leaves(s) /\ UNCHANGED registry
       ELSE /\ Look
            /\ IF Now[Dev(s)] = "pending"
               THEN Goes(s, "activating") /\ UNCHANGED sessions
               ELSE Leaves(s)
    /\ UNCHANGED <<pairing, commands>>

\* activate: a device that is gone or revoked raises.
Activate(s) ==
    /\ At(s, "activating")
    /\ IF Fresh[Dev(s)] \in {"pending", "active"}
       THEN Change(Dev(s), "active") /\ Goes(s, "marking")
            /\ UNCHANGED sessions
       ELSE Reload /\ Leaves(s)
    /\ UNCHANGED <<pairing, commands>>

Mark(s) ==
    /\ At(s, "marking")
    /\ MarkUsed(Dev(s))
    /\ Goes(s, "admitted")
    /\ UNCHANGED <<registry, commands, sessions>>

\* touch: the record is written back as it is found, revoked or not.
Touch(s) ==
    /\ At(s, "touching")
    /\ IF Exists(Fresh, Dev(s))
       THEN Change(Dev(s), Fresh[Dev(s)]) /\ Goes(s, "admitted")
            /\ UNCHANGED sessions
       ELSE Reload /\ Leaves(s)
    /\ UNCHANGED <<pairing, commands>>

Register(s) ==
    /\ At(s, "admitted")
    /\ Goes(s, "open")
    /\ UNCHANGED <<registry, pairing, commands, sessions>>

-----------------------------------------------------------------------------
(* A session. *)

\* A request is read: a new command, or one repeated under its id.
Ask(s, c, o) ==
    /\ At(s, "open") /\ s \in line \ ended /\ asks < MaxAsks
    /\ Goes(s, "asked")
    /\ ask' = [ask EXCEPT ![s] = [cid |-> c, op |-> o]]
    /\ asks' = asks + 1
    /\ UNCHANGED <<registry, pairing, commands, said, line, ended>>

\* _still_valid: the record is read again before anything is done for it.
CheckValid(s) ==
    /\ At(s, "asked")
    /\ Look
    /\ IF Now[Dev(s)] = "active" THEN Goes(s, "valid") /\ UNCHANGED sessions
                                 ELSE Leaves(s)
    /\ UNCHANGED <<pairing, commands>>

\* _respond, up to the dispatch.
BeginCommand(s) ==
    LET d == Dev(s)  c == ask[s].cid  o == ask[s].op IN
    /\ At(s, "valid")
    /\ Begin(d, c, o)
    /\ Goes(s, IF Verdict(d, c, o) = "new" THEN "running" ELSE "answering")
    /\ said' = [said EXCEPT ![s] =
            IF Verdict(d, c, o) = "done" THEN entries[d][c].kept ELSE {}]
    /\ UNCHANGED <<registry, pairing, ask, line, ended, asks>>

\* The handler returns, or raises, and the ledger is told.
FinishCommand(s) ==
    /\ At(s, "running")
    /\ Finish(Dev(s), ask[s].cid, ask[s].op)
    /\ said' = [said EXCEPT ![s] = {ask[s].op}]
    /\ Goes(s, "answering")
    /\ UNCHANGED <<registry, pairing, ask, line, ended, asks>>

Send(s) ==
    /\ At(s, "answering")
    /\ IF s \in line \ ended
       THEN /\ Goes(s, "open")
            /\ said' = [said EXCEPT ![s] = {}]
            /\ ask' = [ask EXCEPT ![s] = NoAsk]
            /\ UNCHANGED <<line, ended, asks>>
       ELSE Leaves(s)
    /\ UNCHANGED <<registry, pairing, commands>>

\* The read ends: told to, left by the phone, or idle for too long.
HangUp(s) ==
    /\ At(s, "open")
    /\ Leaves(s)
    /\ UNCHANGED <<registry, pairing, commands>>

\* The phone's network drops the connection.
DropLine(s) ==
    /\ s \in line
    /\ line' = line \ {s}
    /\ UNCHANGED <<registry, pairing, commands, job, ask, said, ended, asks>>

Serve(s) ==
    \/ CompletePairing(s) \/ Activate(s) \/ Mark(s) \/ Touch(s)
    \/ Register(s) \/ CheckValid(s) \/ BeginCommand(s) \/ FinishCommand(s)
    \/ Send(s) \/ HangUp(s)

Phone(s) ==
    \/ \E d \in Device : Connect(s, d)
    \/ \E c \in Cid, o \in Op : Ask(s, c, o)
    \/ DropLine(s)

\* Time, and another process that revokes.
Outside ==
    \/ WindowEnds /\ UNCHANGED <<registry, commands, job, sessions>>
    \/ \E d \in Device, c \in Cid :
          Age(d, c) /\ UNCHANGED <<registry, pairing, job, sessions>>
    \/ \E d \in Device :
          RevokeElsewhere(d) /\ UNCHANGED <<pairing, commands, job, sessions>>

Next ==
    \/ \E t \in Thread : Cancel(t)
    \/ Sweep \/ AskPairing \/ EndSessions \/ ForgetDevice \/ RestartLink
    \/ \E d \in Device : Offer(d) \/ Revoke(d)
    \/ \E s \in Conn : Serve(s) \/ Phone(s)
    \/ Outside

Spec == Init /\ [][Next]_vars

-----------------------------------------------------------------------------
(* Properties. *)

\* The variables hold what the code can put in them (all of DeviceLink).
TypeOK ==
    /\ RegistryTypeOK
    /\ PairingTypeOK
    /\ LedgerTypeOK
    /\ job \in [Thread -> [at : Steps, dev : Device \cup {NoDevice},
                           next : {"idle", "offer"}]]
    /\ ask \in [Conn -> Requests \cup {NoAsk}]
    /\ said \in [Conn -> SUBSET Op]
    /\ line \subseteq Conn
    /\ ended \subseteq Conn
    /\ asks \in Nat

\* The account of the kept answers is what is kept, over every device, and
\* within the budget: expiry, eviction, making room and revocation all give
\* back what they drop (CommandLedger._retained).
RetainedHonest ==
    /\ retained = Cardinality({x \in Device \X Cid :
                                   entries[x[1]][x[2]].kept # {}})
    /\ retained <= MaxRetained

\* A phone is only ever sent the answer to what it asked, also when it reused
\* an id for something else (command_fingerprint, CommandLedger.begin).  A
\* session that was told to end may hold another answer, which it never sends:
\* after forget_device two handlers of one id can be at work.
AnswerIsOwn ==
    \A s \in line \ ended :
        At(s, "answering") => said[s] \subseteq {ask[s].op}

\* A pending device is the one on the screen, once nobody is at work on the
\* window, and the window on the screen is of a pending device unless it was
\* revoked: but for a window that the end of another pairing replaced
\* (PairingService.complete marks whatever window there is).
PendingIsOffered ==
    (\A t \in Thread : job[t].at \notin PairingSteps) =>
        \A d \in Device :
            /\ file[d] = "pending" => window.dev = d \/ d \in overwritten
            /\ window.dev = d /\ ~window.used =>
                  file[d] \in {"pending", "revoked"}

\* A revoked device stays out, whichever process revoked it and whatever was
\* under way in the others (DeviceRegistry, the re-read under the lock).
RevocationIsFinal ==
    [][\A d \in Device : file[d] \in {"revoked", "gone"} =>
            file'[d] \in {"revoked", "gone"}]_vars

\* No request of a revoked device is let through, in a session that was open
\* before or one that was admitted meanwhile; nor is one of a removed device
\* (LinkServer._still_valid).
RevokedIsRefused ==
    [][\A s \in Conn : At(s, "asked") /\ job'[s].at = "valid" =>
            file[Dev(s)] = "active"]_vars

-----------------------------------------------------------------------------
\* What became of each command, for OnceOnly: a command is being carried out
\* while a session's handler is.
Runs(s, d, c) == At(s, "running") /\ Dev(s) = d /\ ask[s].cid = c

Fate(d, c) ==
    LET runners == {s \in Conn : Runs(s, d, c)} IN
    IF file[d] \in {"absent", "pending"} THEN "new"
    ELSE IF file[d] # "active" THEN "struck"
    ELSE IF runners = {}
         THEN IF entries[d][c].state = "done" /\ ~entries[d][c].old
              THEN "done" ELSE "unknown"
    ELSE IF \E s \in Conn : runners = {s} THEN "running"
    ELSE "twice"

Promise == INSTANCE OnceOnly
              WITH state <- [d \in Device |-> [c \in Cid |-> Fate(d, c)]]

\* The link keeps its promise of doing a command once.
KeepsPromise == Promise!Spec
=============================================================================
