-------------------------- MODULE TurnControlProofs ---------------------------
(***************************************************************************)
(* Proofs about the foreground turn, for any threads, identities and       *)
(* number of commands.                                                     *)
(***************************************************************************)
EXTENDS TurnControl, FiniteSetTheorems, TLAPS

-----------------------------------------------------------------------------
(* The approval ledger by itself. *)

Owner == Worker \cup {NoWorker}
Record == [state : TicketStates, kind : Kind, owner : Owner]
Book == [Ticket -> Record]

\* Settling changes the state of the identities it names and nothing else.
LEMMA SettledIs ==
    ASSUME NEW t \in Book, NEW ids, NEW r \in TicketStates
    PROVE  /\ Settled(t, ids, r) \in Book
           /\ \A i \in Ticket :
                 /\ Settled(t, ids, r)[i].state
                        = IF i \in ids THEN r ELSE t[i].state
                 /\ Settled(t, ids, r)[i].kind = t[i].kind
                 /\ Settled(t, ids, r)[i].owner = t[i].owner
  BY DEF Settled, Book, Record

LEMMA ExpiredIs ==
    ASSUME tickets \in Book
    PROVE  /\ ExpiredNow \in Book
           /\ \A i \in Ticket :
                 /\ ExpiredNow[i].state = IF tickets[i].state = "late"
                                          THEN "expired"
                                          ELSE tickets[i].state
                 /\ ExpiredNow[i].kind = tickets[i].kind
                 /\ ExpiredNow[i].owner = tickets[i].owner
<1>1. "expired" \in TicketStates
  BY DEF TicketStates
<1> QED
  BY <1>1, SettledIs DEF ExpiredNow

\* An identity is issued out of nowhere, to its owner, and the others stay.
LEMMA IssuedIs ==
    ASSUME NEW t \in Book, NEW k \in Kind, NEW w \in Owner,
           Issue(t, k, w)
    PROVE  \E i \in Ticket :
              /\ t[i].state = "unissued"
              /\ tickets' = Issued(t, i, k, w)
              /\ tickets' \in Book
              /\ tickets'[i].state = "open"
              /\ tickets'[i].kind = k
              /\ tickets'[i].owner = w
              /\ \A j \in Ticket \ {i} : tickets'[j] = t[j]
<1>1. PICK i \in Ticket : /\ t[i].state = "unissued"
                          /\ tickets' = Issued(t, i, k, w)
  BY DEF Issue
<1>2. [state |-> "open", kind |-> k, owner |-> w] \in Record
  BY DEF Record, TicketStates, OpenStates
<1> QED
  BY <1>1, <1>2 DEF Issued, Book

\* Taking an identity: it was open and in time, and it is used now.
LEMMA TakenIs ==
    ASSUME tickets \in Book, NEW kinds, NEW i \in Ticket, Take(i, kinds)
    PROVE  /\ tickets[i].state = "open" /\ tickets[i].kind \in kinds
           /\ tickets' \in Book
           /\ \A j \in Ticket :
                 /\ tickets'[j].state = IF j = i THEN "used"
                                        ELSE ExpiredNow[j].state
                 /\ tickets'[j].kind = tickets[j].kind
                 /\ tickets'[j].owner = tickets[j].owner
<1>1. "used" \in TicketStates
  BY DEF TicketStates
<1>2. tickets' = Settled(ExpiredNow, {i}, "used")
  BY DEF Take, TakenFrom
<1> QED
  BY <1>1, <1>2, ExpiredIs, SettledIs
  DEF Take, Takable, OpenNow, OpenIn, OpenStates

LEMMA RefusedIs ==
    ASSUME tickets \in Book, NEW kinds, NEW i, Refuse(i, kinds)
    PROVE  tickets' = tickets \/ tickets' = ExpiredNow
  BY DEF Refuse

-----------------------------------------------------------------------------
(* The types. *)

BridgeTyped == paused \in BOOLEAN /\ busy \in BOOLEAN /\ lease \in BOOLEAN

ThreadsTyped ==
    /\ pc \in [Worker -> Places]
    /\ decision \in [Answerer -> [at : {"idle", "taking", "approved",
                                        "granting", "telling"},
                                  on : SUBSET Ticket]]

MarksTyped ==
    /\ stopped \subseteq Worker
    /\ passed \in [Worker -> Nat \cup {Unmarked}]
    /\ joined \in [Worker -> Nat \cup {Unmarked}]
    /\ words \in [Worker -> Nat]
    /\ answered \subseteq Worker
    /\ takes \in [Ticket -> Nat]

OtherTyped ==
    /\ LifecycleTypeOK /\ RegistryTypeOK(Worker)
    /\ sealed \in BOOLEAN
    /\ BridgeTyped /\ ThreadsTyped /\ MarksTyped

Typed == tickets \in Book /\ OtherTyped

LEMMA CountTyped ==
    ASSUME Typed, NEW w \in Worker, Count(w)
    PROVE  OtherTyped'
<1>1. CASE paused \/ busy
  BY <1>1 DEF Typed, OtherTyped, LifecycleTypeOK, RegistryTypeOK,
     BridgeTyped, ThreadsTyped, MarksTyped, Places, TurnPlaces, BusyPlaces,
     Count, Enter, LastWord, Go, lifecycle, turn, registry, ledger, bridge,
     threads, command, marks, told
<1>2. CASE ~(paused \/ busy)
  BY <1>2 DEF Typed, OtherTyped, LifecycleTypeOK, RegistryTypeOK,
     BridgeTyped, ThreadsTyped, MarksTyped, Places, TurnPlaces, BusyPlaces,
     Count, Enter, LastWord, Go, lifecycle, turn, registry, ledger, bridge,
     threads, command, marks, told
<1> QED
  BY <1>1, <1>2

LEMMA MarkStartTyped ==
    ASSUME Typed, NEW w \in Worker, MarkStart(w)
    PROVE  OtherTyped'
  BY TurnAssumption DEF Typed, OtherTyped, LifecycleTypeOK, RegistryTypeOK,
     BridgeTyped, ThreadsTyped, MarksTyped, Places, TurnPlaces, BusyPlaces,
     MarkStart, Mark, Go, lifecycle, turn, registry, ledger, bridge, threads,
     command, marks, told

LEMMA InterruptedTyped ==
    ASSUME Typed, NEW w \in Worker, Interrupted(w)
    PROVE  OtherTyped'
  BY TurnAssumption DEF Typed, OtherTyped, LifecycleTypeOK, RegistryTypeOK,
     BridgeTyped, ThreadsTyped, MarksTyped, Places, TurnPlaces, BusyPlaces,
     Interrupted, Go, lifecycle, turn, registry, ledger, bridge, threads,
     command, marks, told

LEMMA AnswerTyped ==
    ASSUME Typed, NEW w \in Worker, Answer(w)
    PROVE  OtherTyped'
  BY TurnAssumption DEF Typed, OtherTyped, LifecycleTypeOK, RegistryTypeOK,
     BridgeTyped, ThreadsTyped, MarksTyped, Places, TurnPlaces, BusyPlaces,
     Answer, MayPublish, PublishLast, LastWord, Go, lifecycle, turn,
     registry, ledger, bridge, threads, command, marks, told

LEMMA SpeakTyped ==
    ASSUME Typed, NEW w \in Worker, Speak(w)
    PROVE  OtherTyped'
  BY TurnAssumption DEF Typed, OtherTyped, LifecycleTypeOK, RegistryTypeOK,
     BridgeTyped, ThreadsTyped, MarksTyped, Places, TurnPlaces, BusyPlaces,
     Speak, MayPublish, Go, lifecycle, turn, registry, ledger, bridge,
     threads, command, marks, told

LEMMA OutcomeTyped ==
    ASSUME Typed, NEW w \in Worker, Outcome(w)
    PROVE  OtherTyped'
  BY TurnAssumption DEF Typed, OtherTyped, LifecycleTypeOK, RegistryTypeOK,
     BridgeTyped, ThreadsTyped, MarksTyped, Places, TurnPlaces, BusyPlaces,
     Outcome, PublishLast, LastWord, Go, lifecycle, turn, registry, ledger,
     bridge, threads, command, marks, told

LEMMA ClearBusyTyped ==
    ASSUME Typed, NEW w \in Worker, ClearBusy(w)
    PROVE  OtherTyped'
  BY TurnAssumption DEF Typed, OtherTyped, LifecycleTypeOK, RegistryTypeOK,
     BridgeTyped, ThreadsTyped, MarksTyped, Places, TurnPlaces, BusyPlaces,
     ClearBusy, Go, lifecycle, turn, registry, ledger, bridge, threads,
     command, marks, told

LEMMA ReportCancelledTyped ==
    ASSUME Typed, NEW w \in Worker, ReportCancelled(w)
    PROVE  OtherTyped'
  BY TurnAssumption DEF Typed, OtherTyped, LifecycleTypeOK, RegistryTypeOK,
     BridgeTyped, ThreadsTyped, MarksTyped, Places, TurnPlaces, BusyPlaces,
     ReportCancelled, Claim, LastWord, Go, lifecycle, turn, registry, ledger,
     bridge, threads, command, marks, told

LEMMA LeaveIllTyped ==
    ASSUME Typed, NEW w \in Worker, LeaveIll(w)
    PROVE  OtherTyped'
  BY TurnAssumption DEF Typed, OtherTyped, LifecycleTypeOK, RegistryTypeOK,
     BridgeTyped, ThreadsTyped, MarksTyped, Places, TurnPlaces, BusyPlaces,
     LeaveIll, Leave, Go, lifecycle, turn, registry, ledger, bridge, threads,
     command, marks, told

LEMMA LeaveTurnTyped ==
    ASSUME Typed, NEW w \in Worker, LeaveTurn(w)
    PROVE  OtherTyped'
  BY TurnAssumption DEF Typed, OtherTyped, LifecycleTypeOK, RegistryTypeOK,
     BridgeTyped, ThreadsTyped, MarksTyped, Places, TurnPlaces, BusyPlaces,
     LeaveTurn, Leave, EndThread, DropTurn, DropThread, Go, lifecycle, turn,
     registry, ledger, bridge, threads, command, marks, told

LEMMA ReportAgainTyped ==
    ASSUME Typed, NEW w \in Worker, ReportAgain(w)
    PROVE  OtherTyped'
  BY TurnAssumption DEF Typed, OtherTyped, LifecycleTypeOK, RegistryTypeOK,
     BridgeTyped, ThreadsTyped, MarksTyped, Places, TurnPlaces, BusyPlaces,
     ReportAgain, LastWord, EndThread, DropTurn, DropThread, Go, lifecycle,
     turn, registry, ledger, bridge, threads, command, marks, told

LEMMA BeginActionTyped ==
    ASSUME Typed, NEW w \in Worker, BeginAction(w)
    PROVE  OtherTyped'
  BY TurnAssumption DEF Typed, OtherTyped, LifecycleTypeOK, RegistryTypeOK,
     BridgeTyped, ThreadsTyped, MarksTyped, Places, TurnPlaces, BusyPlaces,
     BeginAction, CheckAction, Go, lifecycle, turn, registry, ledger, bridge,
     threads, command, marks, told

LEMMA RegisterTyped ==
    ASSUME Typed, NEW w \in Worker, Register(w)
    PROVE  OtherTyped'
  BY TurnAssumption DEF Typed, OtherTyped, LifecycleTypeOK, RegistryTypeOK,
     BridgeTyped, ThreadsTyped, MarksTyped, Places, TurnPlaces, BusyPlaces,
     Register, RegisterAction, lifecycle, turn, registry, ledger, bridge,
     threads, command, marks, told

LEMMA CheckpointTyped ==
    ASSUME Typed, NEW w \in Worker, Checkpoint(w)
    PROVE  OtherTyped'
  BY TurnAssumption DEF Typed, OtherTyped, LifecycleTypeOK, RegistryTypeOK,
     BridgeTyped, ThreadsTyped, MarksTyped, Places, TurnPlaces, BusyPlaces,
     Checkpoint, Go, lifecycle, turn, registry, ledger, bridge, threads,
     command, marks, told

LEMMA EndComputerActionTyped ==
    ASSUME Typed, NEW w \in Worker, EndComputerAction(w)
    PROVE  OtherTyped'
  BY TurnAssumption DEF Typed, OtherTyped, LifecycleTypeOK, RegistryTypeOK,
     BridgeTyped, ThreadsTyped, MarksTyped, Places, TurnPlaces, BusyPlaces,
     EndComputerAction, EndAction, Go, lifecycle, turn, registry, ledger,
     bridge, threads, command, marks, told

LEMMA ToldStoppedTyped ==
    ASSUME Typed, NEW w \in Worker, NEW p \in {"running", "preparing"},
           ToldStopped(w, p)
    PROVE  OtherTyped'
  BY TurnAssumption DEF Typed, OtherTyped, LifecycleTypeOK, RegistryTypeOK,
     BridgeTyped, ThreadsTyped, MarksTyped, Places, TurnPlaces, BusyPlaces,
     ToldStopped, PublishLast, LastWord, Go, lifecycle, turn, registry,
     ledger, bridge, threads, command, marks, told

LEMMA BeginFileActionTyped ==
    ASSUME Typed, NEW w \in Worker, BeginFileAction(w)
    PROVE  OtherTyped'
  BY TurnAssumption DEF Typed, OtherTyped, LifecycleTypeOK, RegistryTypeOK,
     BridgeTyped, ThreadsTyped, MarksTyped, Places, TurnPlaces, BusyPlaces,
     BeginFileAction, Go, lifecycle, turn, registry, ledger, bridge, threads,
     command, marks, told

LEMMA PreparedTyped ==
    ASSUME Typed, NEW w \in Worker, Prepared(w)
    PROVE  OtherTyped'
  BY TurnAssumption DEF Typed, OtherTyped, LifecycleTypeOK, RegistryTypeOK,
     BridgeTyped, ThreadsTyped, MarksTyped, Places, TurnPlaces, BusyPlaces,
     Prepared, Go, lifecycle, turn, registry, ledger, bridge, threads,
     command, marks, told

LEMMA ReadLeaseTyped ==
    ASSUME Typed, NEW w \in Worker, ReadLease(w)
    PROVE  OtherTyped'
  BY TurnAssumption DEF Typed, OtherTyped, LifecycleTypeOK, RegistryTypeOK,
     BridgeTyped, ThreadsTyped, MarksTyped, Places, TurnPlaces, BusyPlaces,
     ReadLease, Go, lifecycle, turn, registry, ledger, bridge, threads,
     command, marks, told

LEMMA IssueFileTyped ==
    ASSUME Typed, NEW w \in Worker, IssueFile(w)
    PROVE  OtherTyped'
  BY TurnAssumption DEF Typed, OtherTyped, LifecycleTypeOK, RegistryTypeOK,
     BridgeTyped, ThreadsTyped, MarksTyped, Places, TurnPlaces, BusyPlaces,
     IssueFile, Go, Issue, lifecycle, turn, registry, ledger, bridge,
     threads, command, marks, told

LEMMA IssueFailsTyped ==
    ASSUME Typed, NEW w \in Worker, IssueFails(w)
    PROVE  OtherTyped'
  BY TurnAssumption DEF Typed, OtherTyped, LifecycleTypeOK, RegistryTypeOK,
     BridgeTyped, ThreadsTyped, MarksTyped, Places, TurnPlaces, BusyPlaces,
     IssueFails, Go, lifecycle, turn, registry, ledger, bridge, threads,
     command, marks, told

LEMMA ResolveLeasedTyped ==
    ASSUME Typed, NEW w \in Worker, ResolveLeased(w)
    PROVE  OtherTyped'
  BY TurnAssumption DEF Typed, OtherTyped, LifecycleTypeOK, RegistryTypeOK,
     BridgeTyped, ThreadsTyped, MarksTyped, Places, TurnPlaces, BusyPlaces,
     ResolveLeased, Go, Took, Take, Refuse, lifecycle, turn, registry,
     ledger, bridge, threads, command, marks, told

LEMMA WriteFileTyped ==
    ASSUME Typed, NEW w \in Worker, WriteFile(w)
    PROVE  OtherTyped'
  BY TurnAssumption DEF Typed, OtherTyped, LifecycleTypeOK, RegistryTypeOK,
     BridgeTyped, ThreadsTyped, MarksTyped, Places, TurnPlaces, BusyPlaces,
     WriteFile, Go, lifecycle, turn, registry, ledger, bridge, threads,
     command, marks, told

LEMMA BeginPromptTyped ==
    ASSUME Typed, NEW w \in Worker, BeginPrompt(w)
    PROVE  OtherTyped'
  BY TurnAssumption DEF Typed, OtherTyped, LifecycleTypeOK, RegistryTypeOK,
     BridgeTyped, ThreadsTyped, MarksTyped, Places, TurnPlaces, BusyPlaces,
     BeginPrompt, Go, lifecycle, turn, registry, ledger, bridge, threads,
     command, marks, told

LEMMA IssueScreenTyped ==
    ASSUME Typed, NEW w \in Worker, IssueScreen(w)
    PROVE  OtherTyped'
  BY TurnAssumption DEF Typed, OtherTyped, LifecycleTypeOK, RegistryTypeOK,
     BridgeTyped, ThreadsTyped, MarksTyped, Places, TurnPlaces, BusyPlaces,
     IssueScreen, Go, Issue, lifecycle, turn, registry, ledger, bridge,
     threads, command, marks, told

LEMMA IssuePaintTyped ==
    ASSUME Typed, NEW w \in Worker, IssuePaint(w)
    PROVE  OtherTyped'
  BY TurnAssumption DEF Typed, OtherTyped, LifecycleTypeOK, RegistryTypeOK,
     BridgeTyped, ThreadsTyped, MarksTyped, Places, TurnPlaces, BusyPlaces,
     IssuePaint, Go, Issue, lifecycle, turn, registry, ledger, bridge,
     threads, command, marks, told

LEMMA AnswerPromptTyped ==
    ASSUME Typed, NEW w \in Worker, AnswerPrompt(w)
    PROVE  OtherTyped'
  BY TurnAssumption DEF Typed, OtherTyped, LifecycleTypeOK, RegistryTypeOK,
     BridgeTyped, ThreadsTyped, MarksTyped, Places, TurnPlaces, BusyPlaces,
     AnswerPrompt, Go, Took, LastWord, Take, Refuse, lifecycle, turn,
     registry, ledger, bridge, threads, command, marks, told

LEMMA ReadDecisionTyped ==
    ASSUME Typed, NEW a \in Answerer, ReadDecision(a)
    PROVE  OtherTyped'
  BY TurnAssumption DEF Typed, OtherTyped, LifecycleTypeOK, RegistryTypeOK,
     BridgeTyped, ThreadsTyped, MarksTyped, Places, TurnPlaces, BusyPlaces,
     ReadDecision, Decides, lifecycle, turn, registry, ledger, bridge,
     threads, command, marks, told

LEMMA CarryOutTyped ==
    ASSUME Typed, NEW a \in Answerer, CarryOut(a)
    PROVE  OtherTyped'
  BY TurnAssumption DEF Typed, OtherTyped, LifecycleTypeOK, RegistryTypeOK,
     BridgeTyped, ThreadsTyped, MarksTyped, Places, TurnPlaces, BusyPlaces,
     CarryOut, Decides, lifecycle, turn, registry, ledger, bridge, threads,
     command, marks, told

LEMMA GrantLeaseTyped ==
    ASSUME Typed, NEW a \in Answerer, GrantLease(a)
    PROVE  OtherTyped'
  BY TurnAssumption DEF Typed, OtherTyped, LifecycleTypeOK, RegistryTypeOK,
     BridgeTyped, ThreadsTyped, MarksTyped, Places, TurnPlaces, BusyPlaces,
     GrantLease, Decides, lifecycle, turn, registry, ledger, bridge, threads,
     command, marks, told

LEMMA WordTyped ==
    ASSUME words \in [Worker -> Nat], NEW w, LastWord(w)
    PROVE  words' \in [Worker -> Nat]
<1>1. CASE w \in Worker
  BY <1>1 DEF LastWord
<1>2. CASE w \notin Worker
  <2>1. words' = words
    BY <1>2 DEF LastWord
  <2> QED
    BY <2>1
<1> QED
  BY <1>1, <1>2

LEMMA BeginTurnTyped ==
    ASSUME Typed, NEW w \in Worker, BeginTurn(w)
    PROVE  OtherTyped'
<1>1. words' \in [Worker -> Nat]
  <2>1. words \in [Worker -> Nat]
    BY DEF Typed, OtherTyped, MarksTyped
  <2>2. LastWord(w) \/ words' = words
    BY DEF BeginTurn
  <2> QED
    BY <2>1, <2>2, WordTyped
<1>2. pc' \in [Worker -> Places]
  BY DEF Typed, OtherTyped, ThreadsTyped, Places, TurnPlaces, BeginTurn, Go
<1>3. LifecycleTypeOK'
  BY DEF Typed, OtherTyped, LifecycleTypeOK, BeginTurn, Enter
<1> QED
  BY <1>1, <1>2, <1>3
  DEF Typed, OtherTyped, RegistryTypeOK, BridgeTyped, ThreadsTyped,
      MarksTyped, BeginTurn, registry, ledger, bridge, command, marks

LEMMA TakeDecisionTyped ==
    ASSUME Typed, NEW a \in Answerer, TakeDecision(a)
    PROVE  OtherTyped'
<1>1. PICK i \in Ticket :
         /\ \/ /\ Take(i, FileKinds)
               /\ Took(i)
               /\ \/ Decides(a, "taking", "approved", {i})
                  \/ Decides(a, "taking", "telling", {i})
            \/ /\ Refuse(i, FileKinds)
               /\ Decides(a, "taking", "idle", {})
               /\ UNCHANGED takes
         /\ UNCHANGED <<lifecycle, registry, bridge, pc, command, marks,
                        words, answered>>
  BY DEF TakeDecision
<1>2. ThreadsTyped'
  <2>1. {i} \subseteq Ticket /\ {} \subseteq Ticket
    OBVIOUS
  <2> QED
    BY <1>1, <2>1 DEF Typed, OtherTyped, ThreadsTyped, Decides
<1>3. takes' \in [Ticket -> Nat]
  BY <1>1 DEF Typed, OtherTyped, MarksTyped, Took
<1>4. sealed' = sealed
  BY <1>1 DEF Take, Refuse
<1>5. UNCHANGED <<lifecycle, registry, bridge, command, marks, words,
                  answered>>
  BY <1>1
<1> QED
  BY <1>2, <1>3, <1>4, <1>5
  DEF Typed, OtherTyped, LifecycleTypeOK, RegistryTypeOK, BridgeTyped,
      MarksTyped, lifecycle, registry, bridge, command, marks

LEMMA TellDecisionTyped ==
    ASSUME Typed, NEW a \in Answerer, TellDecision(a)
    PROVE  OtherTyped'
<1>1. words' \in [Worker -> Nat]
  <2>1. PICK i \in decision[a].on : LastWord(tickets[i].owner)
    BY DEF TellDecision
  <2>2. words \in [Worker -> Nat]
    BY DEF Typed, OtherTyped, MarksTyped
  <2> QED
    BY <2>1, <2>2, WordTyped
<1>2. ThreadsTyped'
  BY DEF Typed, OtherTyped, ThreadsTyped, TellDecision, Decides
<1>3. UNCHANGED <<lifecycle, registry, ledger, bridge, command, marks,
                  answered, takes>>
  BY DEF TellDecision
<1> QED
  BY <1>1, <1>2, <1>3
  DEF Typed, OtherTyped, LifecycleTypeOK, RegistryTypeOK, BridgeTyped,
      MarksTyped, lifecycle, registry, ledger, bridge, command, marks

\* What the commands are made of.
CallNames == {"epoch", "tokens", "screens", "files", "pause", "resume",
              "bar", "seal"}

LEMMA CommandTyped ==
    ASSUME Typed, Command
    PROVE  OtherTyped'
<1>1. CASE SetPaused
  BY <1>1
  DEF Typed, OtherTyped, LifecycleTypeOK, RegistryTypeOK, BridgeTyped,
      ThreadsTyped, MarksTyped, SetPaused, NextCall, lifecycle, registry,
      ledger, threads, marks
<1>2. CASE CancelActions
  <2>1. RegistryTypeOK(Worker)'
    <3>0. RegistryTypeOK(Worker)
      BY DEF Typed, OtherTyped
    <3>1. CASE AdvanceEpoch
      BY <3>0, <3>1 DEF RegistryTypeOK, AdvanceEpoch, Registered
    <3>2. CASE CancelVictims
      BY <3>0, <3>2 DEF RegistryTypeOK, CancelVictims
    <3>3. CASE Bar
      BY <3>0, <3>3 DEF RegistryTypeOK, Bar, Registered
    <3> QED
      BY <1>2, <3>1, <3>2, <3>3 DEF CancelActions
  <2>2. UNCHANGED <<lifecycle, ledger, bridge, words, stopped, threads,
                    marks, answered, takes>>
    BY <1>2 DEF CancelActions, NextCall
  <2> QED
    BY <2>1, <2>2
    DEF Typed, OtherTyped, LifecycleTypeOK, BridgeTyped, ThreadsTyped,
        MarksTyped, lifecycle, ledger, bridge, threads, marks
<1>3. CASE DiscardScreens
  BY <1>3
  DEF Typed, OtherTyped, LifecycleTypeOK, RegistryTypeOK, BridgeTyped,
      ThreadsTyped, MarksTyped, DiscardScreens, NextCall, RevokeKinds,
      lifecycle, registry, bridge, threads, marks
<1>4. CASE DiscardFiles
  <2>1. ASSUME NEW w \in Worker
        PROVE  Cardinality({i \in OpenIn(tickets, FileKinds) :
                               tickets[i].owner = w}) \in Nat
    <3>1. {i \in OpenIn(tickets, FileKinds) : tickets[i].owner = w}
             \subseteq Ticket
      BY DEF OpenIn
    <3> QED
      BY <3>1, TicketAssumption, FS_Subset, FS_CardinalityType
  <2>2. words' \in [Worker -> Nat]
    BY <1>4, <2>1 DEF Typed, OtherTyped, MarksTyped, DiscardFiles
  <2> QED
    BY <1>4, <2>2
    DEF Typed, OtherTyped, LifecycleTypeOK, RegistryTypeOK, BridgeTyped,
        ThreadsTyped, MarksTyped, DiscardFiles, NextCall, RevokeKinds,
        lifecycle, registry, threads, marks
<1>5. CASE SealLedger
  BY <1>5
  DEF Typed, OtherTyped, LifecycleTypeOK, RegistryTypeOK, BridgeTyped,
      ThreadsTyped, MarksTyped, SealLedger, NextCall, Seal, lifecycle,
      registry, bridge, threads, marks
<1>6. CASE FinishCommand
  BY <1>6
  DEF Typed, OtherTyped, LifecycleTypeOK, RegistryTypeOK, BridgeTyped,
      ThreadsTyped, MarksTyped, FinishCommand, EndTransition, registry,
      ledger, bridge, threads, command, marks, told
<1> QED
  BY <1>1, <1>2, <1>3, <1>4, <1>5, <1>6 DEF Command

LEMMA StartCommandTyped ==
    ASSUME Typed, NEW c, StartCommand(c)
    PROVE  OtherTyped'
  BY DEF Typed, OtherTyped, LifecycleTypeOK, RegistryTypeOK, BridgeTyped,
         ThreadsTyped, MarksTyped, StartCommand, StartTransition, registry,
         ledger, bridge, threads, marks, told

LEMMA ExpireTyped ==
    ASSUME Typed, Expire
    PROVE  OtherTyped'
  BY DEF Typed, OtherTyped, LifecycleTypeOK, RegistryTypeOK, BridgeTyped,
         ThreadsTyped, MarksTyped, Expire, TimePasses, lifecycle, registry,
         ledger, bridge, threads, command, marks, told

LEMMA StutterTyped ==
    ASSUME Typed, UNCHANGED vars
    PROVE  Typed'
  BY DEF Typed, OtherTyped, LifecycleTypeOK, RegistryTypeOK, BridgeTyped,
         ThreadsTyped, MarksTyped, vars, lifecycle, registry, ledger, bridge,
         threads, command, marks, told


-----------------------------------------------------------------------------
(* What the steps do to the ledger. *)

\* An identity stays what it was, or is settled in a way that answers nobody:
\* it was a screen prompt, or it ran out.
Quietly(i) ==
    /\ tickets'[i].kind = tickets[i].kind
    /\ tickets'[i].owner = tickets[i].owner
    /\ \/ tickets'[i].state = tickets[i].state
       \/ tickets[i].state = "open" /\ tickets'[i].state = "late"
       \/ tickets[i].state = "late" /\ tickets'[i].state = "expired"
       \/ tickets[i].state \in OpenStates /\ tickets'[i].state = "closed"
       \/ /\ tickets[i].kind \in ScreenKinds
          /\ tickets[i].state \in OpenStates
          /\ tickets'[i].state \in
                TicketStates \ (OpenStates \cup {"unissued"})

QuietLedger == tickets' \in Book /\ \A i \in Ticket : Quietly(i)

\* A new prompt, and the others as they were.
Fresh(i, k, w) ==
    /\ tickets' \in Book
    /\ tickets[i].state = "unissued"
    /\ tickets'[i].state = "open"
    /\ tickets'[i].kind = k
    /\ tickets'[i].owner = w
    /\ \A j \in Ticket \ {i} : Quietly(j)

\* An open prompt is taken, and the others are as they were.
Spent(i) ==
    /\ tickets' \in Book
    /\ tickets[i].state = "open" /\ tickets'[i].state = "used"
    /\ tickets'[i].kind = tickets[i].kind
    /\ tickets'[i].owner = tickets[i].owner
    /\ \A j \in Ticket \ {i} : Quietly(j)

LEMMA SameIsQuiet ==
    ASSUME tickets \in Book, tickets' = tickets
    PROVE  QuietLedger
  BY DEF QuietLedger, Quietly

LEMMA ExpiringIsQuiet ==
    ASSUME tickets \in Book, tickets' = ExpiredNow
    PROVE  QuietLedger
  BY ExpiredIs DEF QuietLedger, Quietly

LEMMA RefusingIsQuiet ==
    ASSUME tickets \in Book, NEW kinds, NEW i, Refuse(i, kinds)
    PROVE  QuietLedger
  BY RefusedIs, SameIsQuiet, ExpiringIsQuiet

LEMMA TakingSpends ==
    ASSUME tickets \in Book, NEW kinds, NEW i \in Ticket, Take(i, kinds)
    PROVE  Spent(i) /\ tickets[i].kind \in kinds
  BY TakenIs, ExpiredIs DEF Spent, Quietly

LEMMA IssueFileIsFresh ==
    ASSUME tickets \in Book, NEW w \in Worker, NEW k \in FileKinds,
           Issue(tickets, k, w)
    PROVE  \E i \in Ticket : Fresh(i, k, w)
<1>1. k \in Kind /\ w \in Owner
  BY TurnAssumption DEF Owner
<1> QED
  BY <1>1, IssuedIs DEF Fresh, Quietly

LEMMA RevokedIs ==
    ASSUME tickets \in Book, NEW kinds, NEW r \in TicketStates
    PROVE  /\ RevokedFrom(tickets, kinds, r) \in Book
           /\ \A i \in Ticket :
                 /\ RevokedFrom(tickets, kinds, r)[i].state =
                       IF /\ tickets[i].state \in OpenStates
                          /\ tickets[i].kind \in kinds
                       THEN r ELSE tickets[i].state
                 /\ RevokedFrom(tickets, kinds, r)[i].kind = tickets[i].kind
                 /\ RevokedFrom(tickets, kinds, r)[i].owner = tickets[i].owner
  BY SettledIs DEF RevokedFrom, OpenIn

LEMMA IssueScreenIsFresh ==
    ASSUME tickets \in Book, NEW w \in Worker, IssueScreen(w)
    PROVE  \E i \in Ticket : Fresh(i, "screen", w)
<1> DEFINE t == RevokedFrom(tickets, {"screen"}, "superseded")
<1>1. /\ "screen" \in Kind /\ w \in Owner
      /\ "superseded" \in TicketStates \ (OpenStates \cup {"unissued"})
  BY TurnAssumption DEF Owner, ScreenKinds, TicketStates, OpenStates
<1>2. /\ t \in Book
      /\ \A i \in Ticket :
            /\ t[i].state = IF /\ tickets[i].state \in OpenStates
                               /\ tickets[i].kind \in {"screen"}
                            THEN "superseded" ELSE tickets[i].state
            /\ t[i].kind = tickets[i].kind
            /\ t[i].owner = tickets[i].owner
  BY <1>1, RevokedIs
<1>3. Issue(t, "screen", w)
  BY DEF IssueScreen
<1> HIDE DEF t
<1>4. PICK i \in Ticket : /\ t[i].state = "unissued"
                          /\ tickets' \in Book
                          /\ tickets'[i].state = "open"
                          /\ tickets'[i].kind = "screen"
                          /\ tickets'[i].owner = w
                          /\ \A j \in Ticket \ {i} : tickets'[j] = t[j]
  BY <1>1, <1>2, <1>3, IssuedIs
<1>5. \A j \in Ticket \ {i} : Quietly(j)
  BY <1>1, <1>2, <1>4 DEF Quietly, ScreenKinds
<1>6. tickets[i].state = "unissued"
  BY <1>1, <1>2, <1>4
<1> QED
  BY <1>4, <1>5, <1>6 DEF Fresh

LEMMA IssuePaintDoes ==
    ASSUME tickets \in Book, NEW w \in Worker, IssuePaint(w)
    PROVE  \/ Go(w, "painting", "outcome") /\ QuietLedger
           \/ /\ Go(w, "painting", "ending")
              /\ \E i \in Ticket : Fresh(i, "paint", w)
<1>1. CASE OpenNow({"paint"}) # {}
  BY <1>1, ExpiringIsQuiet DEF IssuePaint
<1>2. CASE OpenNow({"paint"}) = {}
  <2>1. "paint" \in Kind /\ w \in Owner
    BY TurnAssumption DEF Owner, ScreenKinds
  <2>2. Issue(ExpiredNow, "paint", w) /\ Go(w, "painting", "ending")
    BY <1>2 DEF IssuePaint
  <2>3. PICK i \in Ticket :
           /\ ExpiredNow[i].state = "unissued"
           /\ tickets' \in Book
           /\ tickets'[i].state = "open"
           /\ tickets'[i].kind = "paint"
           /\ tickets'[i].owner = w
           /\ \A j \in Ticket \ {i} : tickets'[j] = ExpiredNow[j]
    BY <2>1, <2>2, ExpiredIs, IssuedIs
  <2>4. Fresh(i, "paint", w)
    BY <2>3, ExpiredIs DEF Fresh, Quietly
  <2> QED
    BY <2>2, <2>4
<1> QED
  BY <1>1, <1>2

LEMMA DiscardScreensIsQuiet ==
    ASSUME tickets \in Book, DiscardScreens
    PROVE  QuietLedger
<1>1. "revoked" \in TicketStates \ (OpenStates \cup {"unissued"})
  BY DEF TicketStates, OpenStates
<1>2. tickets' = RevokedFrom(tickets, ScreenKinds, "revoked")
  BY DEF DiscardScreens, RevokeKinds
<1> QED
  BY <1>1, <1>2, RevokedIs DEF QuietLedger, Quietly

LEMMA SealIsQuiet ==
    ASSUME tickets \in Book, Seal
    PROVE  QuietLedger
<1>1. "closed" \in TicketStates
  BY DEF TicketStates
<1>2. tickets' = RevokedFrom(tickets, Kind, "closed")
  BY DEF Seal, RevokedFrom
<1> QED
  BY <1>1, <1>2, RevokedIs DEF QuietLedger, Quietly

LEMMA TimeIsQuiet ==
    ASSUME tickets \in Book, TimePasses
    PROVE  QuietLedger
<1>1. PICK i \in Ticket : /\ tickets[i].state = "open"
                          /\ tickets' = [tickets EXCEPT ![i].state = "late"]
  BY DEF TimePasses
<1>2. tickets' \in Book
  BY <1>1 DEF Book, Record, TicketStates, OpenStates
<1>3. ASSUME NEW j \in Ticket
      PROVE  Quietly(j)
  BY <1>1 DEF Quietly, Book, Record
<1> QED
  BY <1>2, <1>3 DEF QuietLedger

\* The requests whose file prompts are open are answered by the command.
Discarded ==
    /\ tickets' \in Book
    /\ \A i \in Ticket :
          /\ tickets'[i].kind = tickets[i].kind
          /\ tickets'[i].owner = tickets[i].owner
          /\ tickets'[i].state = IF /\ tickets[i].state \in OpenStates
                                    /\ tickets[i].kind \in FileKinds
                                 THEN "revoked" ELSE tickets[i].state

LEMMA DiscardFilesDiscards ==
    ASSUME tickets \in Book, DiscardFiles
    PROVE  Discarded
<1>1. "revoked" \in TicketStates
  BY DEF TicketStates
<1>2. tickets' = RevokedFrom(tickets, FileKinds, "revoked")
  BY DEF DiscardFiles, RevokeKinds
<1> QED
  BY <1>1, <1>2, RevokedIs DEF Discarded

-----------------------------------------------------------------------------
(* Every step keeps the types. *)

LEMMA TurnKeepsBook ==
    ASSUME tickets \in Book, NEW w \in Worker, Turn(w)
    PROVE  tickets' \in Book
<1>1. CASE UNCHANGED ledger
  BY <1>1 DEF ledger
<1>2. CASE BeginFileAction(w)
  BY <1>2, ExpiringIsQuiet DEF BeginFileAction, QuietLedger
<1>3. CASE IssueFile(w)
  <2>1. "file" \in FileKinds /\ "write" \in FileKinds
    BY DEF FileKinds
  <2>2. Issue(tickets, "file", w) \/ Issue(tickets, "write", w)
    BY <1>3 DEF IssueFile
  <2>3. ASSUME NEW k \in FileKinds, Issue(tickets, k, w)
        PROVE  tickets' \in Book
    BY <2>3, IssueFileIsFresh DEF Fresh
  <2> QED
    BY <2>1, <2>2, <2>3
<1>4. CASE ResolveLeased(w)
  BY <1>4, TakingSpends, RefusingIsQuiet
  DEF ResolveLeased, ledger, Spent, QuietLedger
<1>5. CASE IssueScreen(w)
  BY <1>5, IssueScreenIsFresh DEF Fresh
<1>6. CASE IssuePaint(w)
  BY <1>6, IssuePaintDoes DEF Fresh, QuietLedger
<1>7. CASE AnswerPrompt(w)
  BY <1>7, TakingSpends, RefusingIsQuiet
  DEF AnswerPrompt, Spent, QuietLedger
<1>8. CASE \/ BeginTurn(w)
         \/ Count(w)
         \/ MarkStart(w)
         \/ Interrupted(w)
         \/ Answer(w)
         \/ Speak(w)
         \/ Outcome(w)
  BY <1>1, <1>8 DEF BeginTurn, Count, MarkStart, Interrupted, Answer, Speak,
     Outcome, EndThread, ledger
<1>9. CASE \/ ClearBusy(w)
         \/ ReportCancelled(w)
         \/ LeaveIll(w)
         \/ LeaveTurn(w)
         \/ ReportAgain(w)
         \/ BeginAction(w)
         \/ Register(w)
  BY <1>1, <1>9 DEF ClearBusy, ReportCancelled, LeaveIll, LeaveTurn,
     ReportAgain, BeginAction, Register, EndThread, ledger
<1>10. CASE \/ Checkpoint(w)
          \/ EndComputerAction(w)
          \/ Prepared(w)
          \/ ReadLease(w)
          \/ IssueFails(w)
          \/ WriteFile(w)
          \/ BeginPrompt(w)
  BY <1>1, <1>10 DEF Checkpoint, EndComputerAction, Prepared, ReadLease,
     IssueFails, WriteFile, BeginPrompt, EndThread, ledger
<1>11. CASE \E p \in {"running", "preparing"} : ToldStopped(w, p)
  BY <1>1, <1>11 DEF ToldStopped
<1> QED
  BY <1>2, <1>3, <1>4, <1>5, <1>6, <1>7, <1>8, <1>9, <1>10, <1>11 DEF Turn

LEMMA TurnTyped ==
    ASSUME Typed, NEW w \in Worker, Turn(w)
    PROVE  Typed'
<1>1. tickets' \in Book
  BY TurnKeepsBook DEF Typed
<1>2. OtherTyped'
  BY BeginTurnTyped, CountTyped, MarkStartTyped, InterruptedTyped,
     AnswerTyped, SpeakTyped, OutcomeTyped, ClearBusyTyped,
     ReportCancelledTyped, LeaveIllTyped, LeaveTurnTyped, ReportAgainTyped,
     BeginActionTyped, RegisterTyped, CheckpointTyped,
     EndComputerActionTyped, ToldStoppedTyped, BeginFileActionTyped,
     PreparedTyped, ReadLeaseTyped, IssueFileTyped, IssueFailsTyped,
     ResolveLeasedTyped, WriteFileTyped, BeginPromptTyped, IssueScreenTyped,
     IssuePaintTyped, AnswerPromptTyped DEF Turn
<1> QED
  BY <1>1, <1>2 DEF Typed

LEMMA DecisionTyped ==
    ASSUME Typed, NEW a \in Answerer, Decision(a)
    PROVE  Typed'
<1>1. tickets' \in Book
  <2>1. CASE TakeDecision(a)
    BY <2>1, TakingSpends, RefusingIsQuiet
    DEF Typed, TakeDecision, Spent, QuietLedger
  <2>2. CASE UNCHANGED ledger
    BY <2>2 DEF Typed, ledger
  <2> QED
    BY <2>1, <2>2
    DEF Decision, ReadDecision, CarryOut, GrantLease, TellDecision, ledger
<1>2. OtherTyped'
  BY ReadDecisionTyped, TakeDecisionTyped, CarryOutTyped, GrantLeaseTyped,
     TellDecisionTyped DEF Decision
<1> QED
  BY <1>1, <1>2 DEF Typed

LEMMA CommandKeepsBook ==
    ASSUME tickets \in Book, Command
    PROVE  tickets' \in Book
<1>1. CASE DiscardScreens
  BY <1>1, DiscardScreensIsQuiet DEF QuietLedger
<1>2. CASE DiscardFiles
  BY <1>2, DiscardFilesDiscards DEF Discarded
<1>3. CASE SealLedger
  BY <1>3, SealIsQuiet DEF SealLedger, QuietLedger
<1>4. CASE SetPaused \/ CancelActions \/ FinishCommand
  BY <1>4 DEF SetPaused, CancelActions, FinishCommand, ledger
<1> QED
  BY <1>1, <1>2, <1>3, <1>4 DEF Command

LEMMA InitTyped == Init => Typed
<1> SUFFICES ASSUME Init
             PROVE  Typed
  OBVIOUS
<1>1. tickets \in Book
  <2>1. \E k \in Kind : TRUE
    BY TurnAssumption DEF FileKinds
  <2>2. (CHOOSE k \in Kind : TRUE) \in Kind
    BY <2>1
  <2>3. "unissued" \in TicketStates /\ NoWorker \in Owner
    BY DEF TicketStates, Owner
  <2> QED
    BY <2>2, <2>3 DEF Init, LedgerInit, Book, Record
<1>2. OtherTyped
  BY DEF Init, LifecycleInit, RegistryInit, LedgerInit, OtherTyped,
         LifecycleTypeOK, RegistryTypeOK, BridgeTyped, ThreadsTyped,
         MarksTyped, Places
<1> QED
  BY <1>1, <1>2 DEF Typed

LEMMA NextTyped ==
    ASSUME Typed, [Next]_vars
    PROVE  Typed'
<1>1. ASSUME NEW c, StartCommand(c)
      PROVE  Typed'
  BY <1>1, StartCommandTyped DEF Typed, StartCommand, ledger
<1>2. CASE Command
  BY <1>2, CommandTyped, CommandKeepsBook DEF Typed
<1>3. CASE Expire
  <2>1. tickets' \in Book
    BY <1>3, TimeIsQuiet DEF Typed, Expire, ledger, QuietLedger
  <2> QED
    BY <1>3, <2>1, ExpireTyped DEF Typed
<1>4. CASE UNCHANGED vars
  BY <1>4, StutterTyped
<1> QED
  BY <1>1, <1>2, <1>3, <1>4, TurnTyped, DecisionTyped DEF Next

LEMMA AlwaysTyped == Spec => []Typed
<1>1. Typed /\ [Next]_vars => Typed'
  BY NextTyped
<1> QED
  BY <1>1, InitTyped, PTL DEF Spec

\* Whatever the threads, the identities and the number of the commands are,
\* the variables hold what the code can put in them.
THEOREM TurnTypeCorrect == Spec => []TypeOK
<1>1. Typed => TypeOK
  BY DEF Typed, OtherTyped, BridgeTyped, ThreadsTyped, MarksTyped, Book,
         Record, Owner, LedgerTypeOK, TypeOK
<1> QED
  BY <1>1, AlwaysTyped, PTL

-----------------------------------------------------------------------------
(* One turn at a time. *)

\* A turn that has been counted goes on, and has not ended.
AtWork(w) ==
    /\ pc[w] \in BusyPlaces
    /\ \E p \in BusyPlaces : pc' = [pc EXCEPT ![w] = p]
    /\ UNCHANGED <<active, busy>>

\* What is not one of the steps at which a turn comes or goes.
Work(w) ==
    \/ MarkStart(w)
    \/ Interrupted(w)
    \/ Answer(w)
    \/ Speak(w)
    \/ Outcome(w)
    \/ BeginAction(w)
    \/ Register(w)
    \/ Checkpoint(w)
    \/ EndComputerAction(w)
    \/ BeginFileAction(w)
    \/ Prepared(w)
    \/ ReadLease(w)
    \/ IssueFile(w)
    \/ IssueFails(w)
    \/ ResolveLeased(w)
    \/ WriteFile(w)
    \/ BeginPrompt(w)
    \/ IssueScreen(w)
    \/ IssuePaint(w)
    \/ AnswerPrompt(w)
    \/ \E p \in {"running", "preparing"} : ToldStopped(w, p)

LEMMA WorkIsAtWork ==
    ASSUME Typed, NEW w \in Worker, Work(w)
    PROVE  AtWork(w)
<1>1. CASE MarkStart(w)
  BY <1>1 DEF AtWork, BusyPlaces, MarkStart, Mark, Go, lifecycle, bridge
<1>2. CASE Interrupted(w)
  BY <1>2 DEF AtWork, BusyPlaces, Interrupted, Go, lifecycle, bridge
<1>3. CASE Answer(w)
  BY <1>3 DEF AtWork, BusyPlaces, Answer, MayPublish, PublishLast, LastWord,
     Go, lifecycle, bridge
<1>4. CASE Speak(w)
  BY <1>4 DEF AtWork, BusyPlaces, Speak, MayPublish, Go, lifecycle, bridge
<1>5. CASE Outcome(w)
  BY <1>5 DEF AtWork, BusyPlaces, Outcome, PublishLast, LastWord, Go,
     lifecycle, bridge
<1>6. CASE BeginAction(w)
  BY <1>6 DEF AtWork, BusyPlaces, BeginAction, CheckAction, Go, lifecycle,
     bridge
<1>7. CASE Register(w)
  BY <1>7 DEF AtWork, BusyPlaces, Register, RegisterAction, Typed,
     OtherTyped, ThreadsTyped, threads, lifecycle, bridge
<1>8. CASE Checkpoint(w)
  BY <1>8 DEF AtWork, BusyPlaces, Checkpoint, Go, lifecycle, bridge
<1>9. CASE EndComputerAction(w)
  BY <1>9 DEF AtWork, BusyPlaces, EndComputerAction, EndAction, Go,
     lifecycle, bridge
<1>10. CASE BeginFileAction(w)
  BY <1>10 DEF AtWork, BusyPlaces, BeginFileAction, Go, lifecycle, bridge
<1>11. CASE Prepared(w)
  BY <1>11 DEF AtWork, BusyPlaces, Prepared, Go, lifecycle, bridge
<1>12. CASE ReadLease(w)
  BY <1>12 DEF AtWork, BusyPlaces, ReadLease, Go, lifecycle, bridge
<1>13. CASE IssueFile(w)
  BY <1>13 DEF AtWork, BusyPlaces, IssueFile, Go, Issue, lifecycle, bridge
<1>14. CASE IssueFails(w)
  BY <1>14 DEF AtWork, BusyPlaces, IssueFails, Go, lifecycle, bridge
<1>15. CASE ResolveLeased(w)
  BY <1>15 DEF AtWork, BusyPlaces, ResolveLeased, Go, Took, Take, Refuse,
     lifecycle, bridge
<1>16. CASE WriteFile(w)
  BY <1>16 DEF AtWork, BusyPlaces, WriteFile, Go, lifecycle, bridge
<1>17. CASE BeginPrompt(w)
  BY <1>17 DEF AtWork, BusyPlaces, BeginPrompt, Go, lifecycle, bridge
<1>18. CASE IssueScreen(w)
  BY <1>18 DEF AtWork, BusyPlaces, IssueScreen, Go, Issue, lifecycle, bridge
<1>19. CASE IssuePaint(w)
  BY <1>19 DEF AtWork, BusyPlaces, IssuePaint, Go, Issue, lifecycle, bridge
<1>20. CASE AnswerPrompt(w)
  BY <1>20 DEF AtWork, BusyPlaces, AnswerPrompt, Go, Took, LastWord, Take,
     Refuse, lifecycle, bridge
<1>21. CASE \E p \in {"running", "preparing"} : ToldStopped(w, p)
  BY <1>21 DEF AtWork, BusyPlaces, ToldStopped, PublishLast, Go, bridge
<1> QED
  BY <1>1, <1>2, <1>3, <1>4, <1>5, <1>6, <1>7, <1>8, <1>9, <1>10, <1>11,
     <1>12, <1>13, <1>14, <1>15, <1>16, <1>17, <1>18, <1>19, <1>20, <1>21 DEF
     Work

LEMMA WorkOrBound ==
    ASSUME NEW w, Turn(w)
    PROVE  \/ Work(w)
           \/ BeginTurn(w) \/ Count(w) \/ ClearBusy(w) \/ ReportCancelled(w)
           \/ LeaveIll(w) \/ LeaveTurn(w) \/ ReportAgain(w)
  BY DEF Turn, Work

LEMMA TurnKeepsOneTurn ==
    ASSUME Typed, OneTurn, NEW w \in Worker, Turn(w)
    PROVE  OneTurn'
<1> USE TurnAssumption DEF Typed, OtherTyped, ThreadsTyped, OneTurn
<1>1. CASE Work(w)
  BY <1>1, WorkIsAtWork DEF AtWork, TurnPlaces
<1>2. CASE BeginTurn(w)
  <2>1. pc[w] = "new" /\ busy' = busy
    BY <1>2 DEF BeginTurn, bridge
  <2>2. CASE Admission(paused, busy) = "entered"
    <3>1. active = NoWorker /\ ~busy
      BY <2>2 DEF Admission
    <3>2. active' = w /\ pc' = [pc EXCEPT ![w] = "entered"]
      BY <1>2, <2>2 DEF BeginTurn, Enter, Go
    <3> QED
      BY <2>1, <3>1, <3>2 DEF TurnPlaces, BusyPlaces
  <2>3. CASE Admission(paused, busy) # "entered"
    <3>1. active' = active /\ pc' = [pc EXCEPT ![w] = "done"]
      BY <1>2, <2>3 DEF BeginTurn, Enter, Go
    <3> QED
      BY <2>1, <3>1 DEF TurnPlaces, BusyPlaces
  <2> QED
    BY <2>2, <2>3
<1>3. CASE Count(w)
  BY <1>3 DEF Count, Go, TurnPlaces, BusyPlaces, lifecycle
<1>4. CASE ClearBusy(w)
  BY <1>4 DEF ClearBusy, Go, TurnPlaces, BusyPlaces, lifecycle
<1>5. CASE ReportCancelled(w)
  BY <1>5
  DEF ReportCancelled, Claim, Go, TurnPlaces, BusyPlaces, bridge
<1>6. CASE LeaveIll(w)
  BY <1>6 DEF LeaveIll, Leave, Go, TurnPlaces, BusyPlaces, bridge
<1>7. CASE LeaveTurn(w)
  BY <1>7
  DEF LeaveTurn, Leave, EndThread, Go, TurnPlaces, BusyPlaces, bridge
<1>8. CASE ReportAgain(w)
  BY <1>8 DEF ReportAgain, EndThread, Go, TurnPlaces, BusyPlaces, bridge
<1> QED
  BY <1>1, <1>2, <1>3, <1>4, <1>5, <1>6, <1>7, <1>8, WorkOrBound

LEMMA NextKeepsOneTurn ==
    ASSUME Typed, OneTurn, [Next]_vars
    PROVE  OneTurn'
<1>1. CASE UNCHANGED <<pc, active, busy>>
  BY <1>1 DEF OneTurn
<1>2. ASSUME NEW a \in Answerer, Decision(a)
      PROVE  UNCHANGED <<pc, active, busy>>
  BY <1>2 DEF Decision, ReadDecision, TakeDecision, CarryOut, GrantLease,
              TellDecision, lifecycle, bridge
<1>3. ASSUME NEW c, StartCommand(c)
      PROVE  UNCHANGED <<pc, active, busy>>
  BY <1>3 DEF StartCommand, StartTransition, threads, bridge
<1>4. CASE Command
  BY <1>1, <1>4
  DEF Command, SetPaused, CancelActions, DiscardScreens, DiscardFiles,
      SealLedger, FinishCommand, NextCall, EndTransition, lifecycle, bridge,
      threads
<1>5. CASE Expire \/ UNCHANGED vars
  BY <1>1, <1>5 DEF Expire, vars, lifecycle, bridge, threads
<1> QED
  BY <1>1, <1>2, <1>3, <1>4, <1>5, TurnKeepsOneTurn DEF Next

LEMMA InitOneTurn == Init => OneTurn
  BY TurnAssumption
  DEF Init, LifecycleInit, OneTurn, TurnPlaces, BusyPlaces

\* One turn at a time holds the foreground, however many threads ask for it,
\* and the busy flag is up exactly while it works (ForegroundLifecycle.begin).
THEOREM OneTurnCorrect == Spec => []OneTurn
<1>1. Typed /\ OneTurn /\ [Next]_vars => OneTurn'
  BY NextKeepsOneTurn
<1> QED
  BY <1>1, InitOneTurn, AlwaysTyped, PTL DEF Spec

-----------------------------------------------------------------------------
(* Stop does not reach the next turn. *)

\* What the command in progress has still to call, and what it found: while
\* an epoch is to be advanced or tokens are to be cancelled, nobody holds the
\* foreground but a turn the command cancelled.
Alone == active \in stopped \cup {NoWorker}

CallsInv ==
    /\ calls \in Seq(CallNames)
    /\ calls # <<>> => inTransition
    /\ \A n \in 1..Len(calls) :
          /\ calls[n] \in {"epoch", "tokens", "bar"} => Alone
          /\ calls[n] \in {"epoch", "bar"} =>
                n + 1 \in 1..Len(calls) /\ calls[n + 1] = "tokens"
          /\ calls[n] = "bar" => shut

StopInv ==
    /\ CallsInv
    /\ stopped = cancelled
    /\ victims # {} => calls # <<>> /\ Head(calls) = "tokens"
    /\ victims \subseteq stopped
    /\ barred => shut
    /\ shut => Alone
    /\ aborted \subseteq stopped

\* Only a turn that acts has an action, and a turn that no command found is
\* not stopped.
Free(w) ==
    /\ action[w] = "registered" => pc[w] \in {"acting", "native"}
    /\ w \notin stopped /\ pc[w] \in BusyPlaces \ {"counted"} => ~Stopped(w)

GateInv == StopInv /\ \A w \in Worker : Free(w)

\* Steps that leave the commands and the registry alone.
SameCommand ==
    UNCHANGED <<calls, inTransition, stopped, cancelled, shut, epoch, barred,
                victims>>

SameActions == UNCHANGED <<turnEpoch, action, aborted>>

\* The work that has nothing to do with the registry of actions.
Calm(w) ==
    \/ Interrupted(w)
    \/ Answer(w)
    \/ Speak(w)
    \/ Outcome(w)
    \/ BeginFileAction(w)
    \/ Prepared(w)
    \/ ReadLease(w)
    \/ IssueFile(w)
    \/ IssueFails(w)
    \/ ResolveLeased(w)
    \/ WriteFile(w)
    \/ BeginPrompt(w)
    \/ IssueScreen(w)
    \/ IssuePaint(w)
    \/ AnswerPrompt(w)
    \/ \E p \in {"running", "preparing"} : ToldStopped(w, p)

\* It is none of an action's, and comes after the mark.
LEMMA CalmIs ==
    ASSUME NEW w \in Worker, Calm(w)
    PROVE  /\ SameCommand /\ SameActions
           /\ pc[w] \notin {"counted", "acting", "native"}
<1>1. CASE Interrupted(w)
  BY <1>1 DEF SameCommand, SameActions, Interrupted, Go, lifecycle, registry,
     command
<1>2. CASE Answer(w)
  BY <1>2 DEF SameCommand, SameActions, Answer, MayPublish, PublishLast,
     LastWord, Go, lifecycle, registry, command
<1>3. CASE Speak(w)
  BY <1>3 DEF SameCommand, SameActions, Speak, MayPublish, Go, lifecycle,
     registry, command
<1>4. CASE Outcome(w)
  BY <1>4 DEF SameCommand, SameActions, Outcome, PublishLast, LastWord, Go,
     lifecycle, registry, command
<1>5. CASE BeginFileAction(w)
  BY <1>5 DEF SameCommand, SameActions, BeginFileAction, Go, lifecycle,
     registry, command
<1>6. CASE Prepared(w)
  BY <1>6 DEF SameCommand, SameActions, Prepared, Go, lifecycle, registry,
     command
<1>7. CASE ReadLease(w)
  BY <1>7 DEF SameCommand, SameActions, ReadLease, Go, lifecycle, registry,
     command
<1>8. CASE IssueFile(w)
  BY <1>8 DEF SameCommand, SameActions, IssueFile, Go, Issue, lifecycle,
     registry, command
<1>9. CASE IssueFails(w)
  BY <1>9 DEF SameCommand, SameActions, IssueFails, Go, lifecycle, registry,
     command
<1>10. CASE ResolveLeased(w)
  BY <1>10 DEF SameCommand, SameActions, ResolveLeased, Go, Took, Take,
     Refuse, lifecycle, registry, command
<1>11. CASE WriteFile(w)
  BY <1>11 DEF SameCommand, SameActions, WriteFile, Go, lifecycle, registry,
     command
<1>12. CASE BeginPrompt(w)
  BY <1>12 DEF SameCommand, SameActions, BeginPrompt, Go, lifecycle,
     registry, command
<1>13. CASE IssueScreen(w)
  BY <1>13 DEF SameCommand, SameActions, IssueScreen, Go, Issue, lifecycle,
     registry, command
<1>14. CASE IssuePaint(w)
  BY <1>14 DEF SameCommand, SameActions, IssuePaint, Go, Issue, lifecycle,
     registry, command
<1>15. CASE AnswerPrompt(w)
  BY <1>15 DEF SameCommand, SameActions, AnswerPrompt, Go, Took, LastWord,
     Take, Refuse, lifecycle, registry, command
<1>16. CASE \E p \in {"running", "preparing"} : ToldStopped(w, p)
  BY <1>16 DEF SameCommand, SameActions, ToldStopped, PublishLast, Go,
     registry, command
<1> QED
  BY <1>1, <1>2, <1>3, <1>4, <1>5, <1>6, <1>7, <1>8, <1>9, <1>10, <1>11,
     <1>12, <1>13, <1>14, <1>15, <1>16 DEF Calm

LEMMA WorkIsCalm ==
    ASSUME NEW w, Work(w)
    PROVE  \/ Calm(w) \/ MarkStart(w) \/ BeginAction(w) \/ Register(w)
           \/ Checkpoint(w) \/ EndComputerAction(w)
  BY DEF Work, Calm

\* While nobody else takes the foreground, the calls mean what they meant.
LEMMA SameCommandKeeps ==
    ASSUME StopInv, SameCommand, UNCHANGED aborted,
           active' \in {active, NoWorker}
    PROVE  StopInv'
  BY DEF StopInv, CallsInv, Alone, SameCommand

\* A turn that is counted and goes on in an action, or begins to.
LEMMA WorkKeepsGate ==
    ASSUME Typed, OneTurn, GateInv, NEW w \in Worker, Work(w)
    PROVE  GateInv'
<1>1. /\ pc[w] \in BusyPlaces /\ active = w
      /\ \E p \in BusyPlaces : pc' = [pc EXCEPT ![w] = p]
      /\ UNCHANGED <<active, busy>>
  BY WorkIsAtWork DEF AtWork, OneTurn, TurnPlaces
<1>2. /\ pc \in [Worker -> Places]
      /\ action \in [Worker -> {"none", "checked", "registered"}]
      /\ turnEpoch \in [Worker -> Nat \cup {Unmarked}]
  BY DEF Typed, OtherTyped, ThreadsTyped, RegistryTypeOK
<1>3. CASE Calm(w)
  <2>1. StopInv'
    BY <1>1, <1>3, CalmIs, SameCommandKeeps DEF GateInv, SameActions
  <2>2. \A v \in Worker : Free(v)'
    BY <1>1, <1>2, <1>3, CalmIs
    DEF GateInv, Free, Stopped, SameCommand, SameActions
  <2> QED
    BY <2>1, <2>2 DEF GateInv
<1>4. CASE MarkStart(w)
  <2>1. StopInv'
    BY <1>1, <1>4, SameCommandKeeps
    DEF GateInv, SameCommand, MarkStart, Mark, lifecycle, command
  <2>2. barred => w \in stopped
    BY <1>1, TurnAssumption DEF GateInv, StopInv, Alone
  <2>3. \A v \in Worker : Free(v)'
    BY <1>1, <1>2, <1>4, <2>2
    DEF GateInv, Free, Stopped, MarkStart, Mark, Go, lifecycle, command
  <2> QED
    BY <2>1, <2>3 DEF GateInv
<1>5. CASE BeginAction(w)
  <2>1. pc[w] \in BusyPlaces \ {"counted"}
    BY <1>5 DEF BeginAction, Go, BusyPlaces
  <2>2. SameCommand
    BY <1>5 DEF SameCommand, BeginAction, CheckAction, lifecycle, command
  <2>3. aborted' \subseteq stopped
    BY <1>5, <2>1
    DEF GateInv, StopInv, Free, BeginAction, CheckAction
  <2>4. StopInv'
    BY <1>1, <2>2, <2>3 DEF GateInv, StopInv, CallsInv, Alone, SameCommand
  <2>5. \A v \in Worker : Free(v)'
    BY <1>2, <1>5, <2>1, <2>2
    DEF GateInv, Free, Stopped, SameCommand, BeginAction, CheckAction, Go
  <2> QED
    BY <2>4, <2>5 DEF GateInv
<1>6. CASE Register(w) \/ EndComputerAction(w)
  <2>1. SameCommand /\ UNCHANGED <<aborted, turnEpoch>>
    BY <1>6
    DEF SameCommand, Register, RegisterAction, EndComputerAction, EndAction,
        lifecycle, command
  <2>2. StopInv'
    BY <1>1, <2>1, SameCommandKeeps DEF GateInv
  <2>3. pc[w] \in {"acting", "native"}
    BY <1>6 DEF Register, EndComputerAction, Go
  <2>4. \A v \in Worker : Free(v)'
    <3>1. CASE Register(w)
      BY <1>2, <2>1, <2>3, <3>1
      DEF GateInv, Free, Stopped, SameCommand, Register, RegisterAction,
          threads, BusyPlaces
    <3>2. CASE EndComputerAction(w)
      BY <1>2, <2>1, <2>3, <3>2
      DEF GateInv, Free, Stopped, SameCommand, EndComputerAction, EndAction,
          Go, BusyPlaces
    <3> QED
      BY <1>6, <3>1, <3>2
  <2> QED
    BY <2>2, <2>4 DEF GateInv
<1>7. CASE Checkpoint(w)
  <2>1. SameCommand /\ SameActions
    BY <1>7
    DEF SameCommand, SameActions, Checkpoint, lifecycle, registry, command
  <2>2. StopInv'
    BY <1>1, <2>1, SameCommandKeeps DEF GateInv, SameActions
  <2>3. \A v \in Worker : Free(v)'
    BY <1>2, <1>7, <2>1
    DEF GateInv, Free, Stopped, SameCommand, SameActions, Checkpoint, Go,
        BusyPlaces
  <2> QED
    BY <2>2, <2>3 DEF GateInv
<1> QED
  BY <1>3, <1>4, <1>5, <1>6, <1>7, WorkIsCalm

\* Outside of a command, a turn may come and go.
LEMMA NoCommandNoCalls ==
    ASSUME StopInv, ~inTransition
    PROVE  calls = <<>> /\ victims = {}
  BY DEF StopInv, CallsInv

LEMMA BoundKeepsGate ==
    ASSUME Typed, OneTurn, GateInv, NEW w \in Worker,
           \/ BeginTurn(w) \/ Count(w) \/ ClearBusy(w) \/ ReportCancelled(w)
           \/ LeaveIll(w) \/ LeaveTurn(w) \/ ReportAgain(w)
    PROVE  GateInv'
<1>1. /\ pc \in [Worker -> Places]
      /\ action \in [Worker -> {"none", "checked", "registered"}]
      /\ turnEpoch \in [Worker -> Nat \cup {Unmarked}]
  BY DEF Typed, OtherTyped, ThreadsTyped, RegistryTypeOK
<1>2. CASE BeginTurn(w)
  <2>1. ~inTransition /\ calls = <<>> /\ victims = {}
    BY <1>2, NoCommandNoCalls DEF GateInv, BeginTurn, Enter
  <2>2. UNCHANGED <<calls, stopped, cancelled, epoch, barred, victims,
                    turnEpoch, action, aborted, shut, inTransition>>
    BY <1>2 DEF BeginTurn, Enter, registry, command
  <2>3. shut => active' = active
    BY <1>2 DEF BeginTurn, Enter, Admission
  <2>4. StopInv'
    BY <2>1, <2>2, <2>3 DEF GateInv, StopInv, CallsInv, Alone
  <2>5. pc[w] = "new"
        /\ pc' \in {[pc EXCEPT ![w] = "entered"], [pc EXCEPT ![w] = "done"]}
    BY <1>2 DEF BeginTurn, Go
  <2>6. \A v \in Worker : Free(v)'
    BY <1>1, <2>2, <2>5 DEF GateInv, Free, Stopped, BusyPlaces
  <2> QED
    BY <2>4, <2>6 DEF GateInv
<1>3. CASE Count(w) \/ ClearBusy(w) \/ ReportCancelled(w)
  <2>1. /\ SameCommand /\ SameActions
        /\ UNCHANGED active
    BY <1>3
    DEF SameCommand, SameActions, Count, ClearBusy, ReportCancelled, Claim,
        lifecycle, registry, command
  <2>2. StopInv'
    BY <2>1, SameCommandKeeps DEF GateInv, SameActions
  <2>3. /\ pc[w] \in {"entered", "ending", "raised", "reporting"}
        /\ \E p \in {"counted", "leaving", "reporting", "unwinding"} :
              pc' = [pc EXCEPT ![w] = p]
    BY <1>3 DEF Count, ClearBusy, ReportCancelled, Go
  <2>4. \A v \in Worker : Free(v)'
    BY <1>1, <2>1, <2>3
    DEF GateInv, Free, Stopped, SameCommand, SameActions, BusyPlaces
  <2> QED
    BY <2>2, <2>4 DEF GateInv
<1>4. CASE LeaveIll(w)
  <2>1. SameCommand /\ SameActions /\ active' \in {active, NoWorker}
    BY <1>4
    DEF SameCommand, SameActions, LeaveIll, Leave, turn, registry, command
  <2>2. StopInv'
    BY <2>1, SameCommandKeeps DEF GateInv, SameActions
  <2>3. pc[w] = "unwinding" /\ pc' = [pc EXCEPT ![w] = "left"]
    BY <1>4 DEF LeaveIll, Go
  <2>4. \A v \in Worker : Free(v)'
    BY <1>1, <2>1, <2>3
    DEF GateInv, Free, Stopped, SameCommand, SameActions, BusyPlaces
  <2> QED
    BY <2>2, <2>4 DEF GateInv
<1>5. CASE LeaveTurn(w) \/ ReportAgain(w)
  <2>1. ~inTransition /\ calls = <<>> /\ victims = {}
    BY <1>5, NoCommandNoCalls DEF GateInv, LeaveTurn, Leave, ReportAgain
  <2>2. /\ UNCHANGED <<calls, inTransition, shut, epoch, barred, victims,
                       action>>
        /\ stopped' = stopped \ {w} /\ cancelled' = cancelled \ {w}
        /\ aborted' = aborted \ {w}
        /\ turnEpoch' = [turnEpoch EXCEPT ![w] = Unmarked]
    BY <1>5
    DEF LeaveTurn, Leave, ReportAgain, EndThread, DropTurn, DropThread
  <2>3. pc[w] \in {"leaving", "left"} /\ pc' = [pc EXCEPT ![w] = "done"]
    BY <1>5 DEF LeaveTurn, ReportAgain, Go
  <2>4. active' = IF active = w THEN NoWorker ELSE active
    BY <1>5, <2>3
    DEF LeaveTurn, Leave, ReportAgain, OneTurn, TurnPlaces, BusyPlaces, Go
  <2>5. StopInv'
    BY <2>1, <2>2, <2>4, TurnAssumption DEF GateInv, StopInv, CallsInv, Alone
  <2>6. \A v \in Worker : Free(v)'
    BY <1>1, <2>2, <2>3 DEF GateInv, Free, Stopped, BusyPlaces
  <2> QED
    BY <2>5, <2>6 DEF GateInv
<1> QED
  BY <1>2, <1>3, <1>4, <1>5

\* A command begins with the turn it finds cancelled, if it cancels.
LEMMA CallsOf ==
    ASSUME NEW c \in {"stop", "pause", "resume", "close"}
    PROVE  /\ Calls(c) \in Seq(CallNames)
           /\ \A n \in 1..Len(Calls(c)) :
                 /\ Calls(c)[n] \in {"epoch", "tokens", "bar"} => c # "resume"
                 /\ Calls(c)[n] \in {"epoch", "bar"} =>
                       /\ n + 1 \in 1..Len(Calls(c))
                       /\ Calls(c)[n + 1] = "tokens"
                 /\ Calls(c)[n] = "bar" => c = "close"
<1>1. CASE c = "stop"
  <2>1. Calls(c) = <<"epoch", "tokens", "screens", "files">>
    BY <1>1 DEF Calls
  <2>2. /\ Calls(c) \in Seq(CallNames) /\ Len(Calls(c)) = 4
        /\ Calls(c)[1] = "epoch"
        /\ Calls(c)[2] = "tokens"
        /\ Calls(c)[3] = "screens"
        /\ Calls(c)[4] = "files"
    BY <2>1 DEF CallNames
  <2>3. \A n \in 1..4 : n = 1 \/ n = 2 \/ n = 3 \/ n = 4
    OBVIOUS
  <2> QED
    BY <1>1, <2>2, <2>3
<1>2. CASE c = "pause"
  <2>1. Calls(c) = <<"pause", "files", "epoch", "tokens", "screens">>
    BY <1>2 DEF Calls
  <2>2. /\ Calls(c) \in Seq(CallNames) /\ Len(Calls(c)) = 5
        /\ Calls(c)[1] = "pause"
        /\ Calls(c)[2] = "files"
        /\ Calls(c)[3] = "epoch"
        /\ Calls(c)[4] = "tokens"
        /\ Calls(c)[5] = "screens"
    BY <2>1 DEF CallNames
  <2>3. \A n \in 1..5 : n = 1 \/ n = 2 \/ n = 3 \/ n = 4 \/ n = 5
    OBVIOUS
  <2> QED
    BY <1>2, <2>2, <2>3
<1>3. CASE c = "resume"
  <2>1. Calls(c) = <<"resume">>
    BY <1>3 DEF Calls
  <2>2. /\ Calls(c) \in Seq(CallNames) /\ Len(Calls(c)) = 1
        /\ Calls(c)[1] = "resume"
    BY <2>1 DEF CallNames
  <2>3. \A n \in 1..1 : n = 1
    OBVIOUS
  <2> QED
    BY <1>3, <2>2, <2>3
<1>4. CASE c = "close"
  <2>1. Calls(c) = <<"bar", "tokens", "screens", "files", "seal">>
    BY <1>4 DEF Calls
  <2>2. /\ Calls(c) \in Seq(CallNames) /\ Len(Calls(c)) = 5
        /\ Calls(c)[1] = "bar"
        /\ Calls(c)[2] = "tokens"
        /\ Calls(c)[3] = "screens"
        /\ Calls(c)[4] = "files"
        /\ Calls(c)[5] = "seal"
    BY <2>1 DEF CallNames
  <2>3. \A n \in 1..5 : n = 1 \/ n = 2 \/ n = 3 \/ n = 4 \/ n = 5
    OBVIOUS
  <2> QED
    BY <1>4, <2>2, <2>3
<1> QED
  BY <1>1, <1>2, <1>3, <1>4

LEMMA StartKeepsGate ==
    ASSUME Typed, GateInv, NEW c \in {"stop", "pause", "resume", "close"},
           StartCommand(c)
    PROVE  GateInv'
<1>1. /\ calls' = Calls(c) /\ inTransition' = TRUE
      /\ shut' = (shut \/ c = "close")
      /\ UNCHANGED <<active, epoch, barred, turnEpoch, action, aborted,
                     victims, pc>>
      /\ ~inTransition
  BY DEF StartCommand, StartTransition, registry, threads
<1>2. victims = {} /\ ~shut
  BY <1>1, NoCommandNoCalls DEF GateInv, StartCommand
<1>3. /\ stopped \subseteq stopped'
      /\ stopped' = cancelled'
      /\ c # "resume" => Alone'
  BY <1>1 DEF GateInv, StopInv, StartCommand, StartTransition, Alone
<1>4. CallsInv'
  BY <1>1, <1>3, CallsOf DEF CallsInv
<1>5. StopInv'
  BY <1>1, <1>2, <1>3, <1>4 DEF GateInv, StopInv
<1>6. \A v \in Worker : Free(v)'
  BY <1>1, <1>3 DEF GateInv, Free, Stopped
<1> QED
  BY <1>5, <1>6 DEF GateInv

\* The call made is the first, and those that remain keep their meaning.
LEMMA TailKeepsCalls ==
    ASSUME CallsInv, NEW op, NextCall(op),
           UNCHANGED <<active, inTransition, shut>>
    PROVE  /\ CallsInv'
           /\ op \in {"epoch", "bar"} =>
                 calls' # <<>> /\ Head(calls') = "tokens"
           /\ op \in {"epoch", "tokens", "bar"} => Alone
           /\ op = "bar" => shut
<1>1. /\ calls \in Seq(CallNames) /\ calls # <<>> /\ calls[1] = op
      /\ calls' = Tail(calls) /\ stopped' = stopped
  BY DEF CallsInv, NextCall
<1>2. /\ calls' \in Seq(CallNames) /\ Len(calls') = Len(calls) - 1
      /\ \A n \in 1..Len(calls') : calls'[n] = calls[n + 1]
  BY <1>1
<1>3. ASSUME NEW n \in 1..Len(calls')
      PROVE  /\ n + 1 \in 1..Len(calls)
             /\ n + 2 \in 1..Len(calls) => n + 1 \in 1..Len(calls')
  BY <1>1, <1>2
<1>4. CallsInv'
  <2>1. ASSUME NEW n \in 1..Len(calls')
        PROVE  /\ calls'[n] \in {"epoch", "tokens", "bar"} => Alone'
               /\ calls'[n] \in {"epoch", "bar"} =>
                     n + 1 \in 1..Len(calls') /\ calls'[n + 1] = "tokens"
               /\ calls'[n] = "bar" => shut'
    <3>1. /\ calls[n + 1] \in {"epoch", "tokens", "bar"} => Alone
          /\ calls[n + 1] \in {"epoch", "bar"} =>
                n + 2 \in 1..Len(calls) /\ calls[n + 2] = "tokens"
          /\ calls[n + 1] = "bar" => shut
      BY <1>3 DEF CallsInv
    <3> QED
      BY <1>1, <1>2, <1>3, <3>1 DEF Alone
  <2> QED
    BY <1>1, <1>2, <2>1 DEF CallsInv
<1>5. 1 \in 1..Len(calls)
  BY <1>1
<1>6. op \in {"epoch", "bar"} => calls' # <<>> /\ Head(calls') = "tokens"
  <2>1. calls[1] \in {"epoch", "bar"} =>
           1 + 1 \in 1..Len(calls) /\ calls[1 + 1] = "tokens"
    BY <1>5 DEF CallsInv
  <2>2. 1 + 1 \in 1..Len(calls) => 1 \in 1..Len(calls')
    BY <1>2
  <2> QED
    BY <1>1, <1>2, <2>1, <2>2
<1> QED
  BY <1>1, <1>4, <1>5, <1>6 DEF CallsInv

LEMMA CommandKeepsGate ==
    ASSUME Typed, OneTurn, GateInv, Command
    PROVE  GateInv'
<1>1. CASE \/ SetPaused \/ DiscardScreens \/ DiscardFiles \/ SealLedger
  <2>1. UNCHANGED <<lifecycle, registry, stopped, pc>>
    BY <1>1
    DEF SetPaused, DiscardScreens, DiscardFiles, SealLedger, NextCall, threads
  <2>2. PICK op : NextCall(op) /\ op # "tokens"
    BY <1>1 DEF SetPaused, DiscardScreens, DiscardFiles, SealLedger
  <2>3. CallsInv'
    BY <2>1, <2>2, TailKeepsCalls DEF GateInv, StopInv, lifecycle
  <2>4. victims = {}
    BY <2>2 DEF GateInv, StopInv, NextCall
  <2>5. StopInv'
    BY <2>1, <2>3, <2>4 DEF GateInv, StopInv, Alone, lifecycle, registry
  <2>6. \A v \in Worker : Free(v)'
    BY <2>1 DEF GateInv, Free, Stopped, registry
  <2> QED
    BY <2>5, <2>6 DEF GateInv
<1>2. CASE FinishCommand
  <2>1. /\ UNCHANGED <<registry, calls, stopped, pc, active, shut, cancelled>>
        /\ calls = <<>>
    BY <1>2 DEF FinishCommand, EndTransition, threads, command
  <2>2. StopInv'
    BY <2>1 DEF GateInv, StopInv, CallsInv, Alone, registry
  <2>3. \A v \in Worker : Free(v)'
    BY <2>1 DEF GateInv, Free, Stopped, registry
  <2> QED
    BY <2>2, <2>3 DEF GateInv
<1>3. CASE CancelActions
  <2>1. UNCHANGED <<lifecycle, stopped, pc, turnEpoch, action>>
    BY <1>3
    DEF CancelActions, NextCall, AdvanceEpoch, CancelVictims, Bar, threads
  <2>2. PICK op \in {"epoch", "tokens", "bar"} :
           /\ NextCall(op)
           /\ op = "epoch" => AdvanceEpoch
           /\ op = "tokens" => CancelVictims
           /\ op = "bar" => Bar
    BY <1>3 DEF CancelActions
  <2>3. /\ CallsInv' /\ Alone
        /\ op \in {"epoch", "bar"} => calls' # <<>> /\ Head(calls') = "tokens"
        /\ op = "bar" => shut
    BY <2>1, <2>2, TailKeepsCalls DEF GateInv, StopInv, lifecycle
  <2>4. \A v \in Worker : pc[v] \in BusyPlaces => v \in stopped
    BY <2>3, TurnAssumption DEF OneTurn, TurnPlaces, Alone
  <2>5. Registered \subseteq stopped
    BY <2>4 DEF GateInv, Free, Registered, BusyPlaces, Typed, OtherTyped,
                RegistryTypeOK
  <2>6. StopInv'
    BY <2>1, <2>2, <2>3, <2>5
    DEF GateInv, StopInv, Alone, AdvanceEpoch, CancelVictims, Bar, lifecycle
  <2>7. \A v \in Worker : Free(v)'
    BY <2>1, <2>4 DEF GateInv, Free
  <2> QED
    BY <2>6, <2>7 DEF GateInv
<1> QED
  BY <1>1, <1>2, <1>3 DEF Command

LEMMA NextKeepsGate ==
    ASSUME Typed, OneTurn, GateInv, [Next]_vars
    PROVE  GateInv'
<1>1. CASE UNCHANGED <<lifecycle, registry, command, pc>>
  BY <1>1
  DEF GateInv, StopInv, CallsInv, Alone, Free, Stopped, lifecycle, registry,
      command
<1>2. ASSUME NEW a \in Answerer, Decision(a)
      PROVE  UNCHANGED <<lifecycle, registry, command, pc>>
  BY <1>2 DEF Decision, ReadDecision, TakeDecision, CarryOut, GrantLease,
              TellDecision
<1>3. CASE Expire \/ UNCHANGED vars
  BY <1>1, <1>3 DEF Expire, vars, threads
<1>4. ASSUME NEW w \in Worker, Turn(w)
      PROVE  GateInv'
  BY <1>4, WorkOrBound, WorkKeepsGate, BoundKeepsGate
<1> QED
  BY <1>1, <1>2, <1>3, <1>4, StartKeepsGate, CommandKeepsGate DEF Next

LEMMA InitGate == Init => GateInv
<1> SUFFICES ASSUME Init
             PROVE  GateInv
  OBVIOUS
<1>1. calls = <<>> /\ calls \in Seq(CallNames) /\ Len(calls) = 0
  BY DEF Init
<1>2. StopInv
  BY <1>1
  DEF Init, LifecycleInit, RegistryInit, StopInv, CallsInv, Alone
<1>3. \A w \in Worker : Free(w)
  BY DEF Init, RegistryInit, Free, BusyPlaces
<1> QED
  BY <1>2, <1>3 DEF GateInv

LEMMA AlwaysGate == Spec => [](OneTurn /\ GateInv)
<1>1. Typed /\ OneTurn /\ GateInv /\ [Next]_vars => GateInv'
  BY NextKeepsGate
<1> QED
  BY <1>1, InitGate, AlwaysTyped, OneTurnCorrect, PTL DEF Spec

\* Stop never poisons the next command: a turn that no command found is free
\* to infer, to publish and to act, whatever the commands before it were.
THEOREM NextTurnCorrect == Spec => []NextTurnIsFree
<1>1. GateInv => NextTurnIsFree
  BY DEF GateInv, StopInv, Free, NextTurnIsFree
<1> QED
  BY <1>1, AlwaysGate, PTL

-----------------------------------------------------------------------------
(* Stop holds. *)

\* What a turn asks before it goes on.
Asks(w) ==
    /\ w \in answered' => w \in answered \/ w \notin cancelled
    /\ pc[w] = "acting" /\ pc'[w] = "native" =>
          action[w] = "registered" /\ w \notin aborted
    /\ pc[w] = "preparing" /\ pc'[w] \in {"writing", "confirming"} =>
          ~Stopped(w)
    /\ pc[w] = "running" /\ pc'[w] \in {"preparing", "asking", "painting"} =>
          ~Stopped(w)

LEMMA TurnAsks ==
    ASSUME Typed, NEW w \in Worker, Turn(w)
    PROVE  Asks(w)
<1>0. pc \in [Worker -> Places]
  BY DEF Typed, OtherTyped, ThreadsTyped
<1>1. CASE BeginTurn(w)
  BY <1>0, <1>1 DEF BeginTurn, Asks, Go, told
<1>2. CASE Count(w)
  BY <1>0, <1>2 DEF Count, Asks, Go, told
<1>3. CASE MarkStart(w)
  BY <1>0, <1>3 DEF MarkStart, Asks, Go, told
<1>4. CASE Interrupted(w)
  BY <1>0, <1>4 DEF Interrupted, Asks, Go, told
<1>5. CASE Answer(w)
  BY <1>0, <1>5 DEF Answer, Asks, Go, MayPublish, told
<1>6. CASE Speak(w)
  BY <1>0, <1>6 DEF Speak, Asks, Go, MayPublish, told
<1>7. CASE Outcome(w)
  BY <1>0, <1>7 DEF Outcome, Asks, Go, told
<1>8. CASE ClearBusy(w)
  BY <1>0, <1>8 DEF ClearBusy, Asks, Go, told
<1>9. CASE ReportCancelled(w)
  BY <1>0, <1>9 DEF ReportCancelled, Asks, Go, told
<1>10. CASE LeaveIll(w)
  BY <1>0, <1>10 DEF LeaveIll, Asks, Go, told
<1>11. CASE LeaveTurn(w)
  BY <1>0, <1>11 DEF LeaveTurn, Asks, Go, EndThread, told
<1>12. CASE ReportAgain(w)
  BY <1>0, <1>12 DEF ReportAgain, Asks, Go, EndThread, told
<1>13. CASE BeginAction(w)
  BY <1>0, <1>13 DEF BeginAction, Asks, Go, told
<1>14. CASE Register(w)
  BY <1>0, <1>14 DEF Register, Asks, threads, told
<1>15. CASE Checkpoint(w)
  BY <1>0, <1>15 DEF Checkpoint, Asks, Go, told
<1>16. CASE EndComputerAction(w)
  BY <1>0, <1>16 DEF EndComputerAction, Asks, Go, told
<1>17. CASE BeginFileAction(w)
  BY <1>0, <1>17 DEF BeginFileAction, Asks, Go, told
<1>18. CASE Prepared(w)
  BY <1>0, <1>18 DEF Prepared, Asks, Go, MayGoOn, told
<1>19. CASE ReadLease(w)
  BY <1>0, <1>19 DEF ReadLease, Asks, Go, told
<1>20. CASE IssueFile(w)
  BY <1>0, <1>20 DEF IssueFile, Asks, Go, told
<1>21. CASE IssueFails(w)
  BY <1>0, <1>21 DEF IssueFails, Asks, Go, told
<1>22. CASE ResolveLeased(w)
  BY <1>0, <1>22 DEF ResolveLeased, Asks, Go, told
<1>23. CASE WriteFile(w)
  BY <1>0, <1>23 DEF WriteFile, Asks, Go, told
<1>24. CASE BeginPrompt(w)
  BY <1>0, <1>24 DEF BeginPrompt, Asks, Go, told
<1>25. CASE IssueScreen(w)
  BY <1>0, <1>25 DEF IssueScreen, Asks, Go, told
<1>26. CASE IssuePaint(w)
  BY <1>0, <1>26 DEF IssuePaint, Asks, Go, told
<1>27. CASE AnswerPrompt(w)
  BY <1>0, <1>27 DEF AnswerPrompt, Asks, Go, told
<1>28. CASE \E p \in {"running", "preparing"} : ToldStopped(w, p)
  BY <1>0, <1>28 DEF Asks, ToldStopped, Go
<1> QED
  BY <1>1, <1>2, <1>3, <1>4, <1>5, <1>6, <1>7, <1>8, <1>9, <1>10, <1>11,
     <1>12, <1>13, <1>14, <1>15, <1>16, <1>17, <1>18, <1>19, <1>20, <1>21,
     <1>22, <1>23, <1>24, <1>25, <1>26, <1>27, <1>28 DEF Turn

\* A turn moves itself only, and answers for itself only.
Own(w) ==
    \A v \in Worker \ {w} :
        pc'[v] = pc[v] /\ (v \in answered' => v \in answered)

LEMMA TurnIsOwn ==
    ASSUME Typed, NEW w \in Worker, Turn(w)
    PROVE  Own(w)
<1>0. pc \in [Worker -> Places]
  BY DEF Typed, OtherTyped, ThreadsTyped
<1>1. \A v \in Worker \ {w} : pc'[v] = pc[v]
  <2>1. CASE Work(w)
    BY <1>0, <2>1, WorkIsAtWork DEF AtWork
  <2>2. CASE \/ BeginTurn(w) \/ Count(w) \/ ClearBusy(w) \/ ReportCancelled(w)
             \/ LeaveIll(w) \/ LeaveTurn(w) \/ ReportAgain(w)
    BY <1>0, <2>2
    DEF BeginTurn, Count, ClearBusy, ReportCancelled, LeaveIll, LeaveTurn,
        ReportAgain, Go
  <2> QED
    BY <2>1, <2>2, WorkOrBound
<1>2. answered' \subseteq answered \cup {w}
  <2>1. CASE UNCHANGED answered
    BY <2>1
  <2>2. CASE Answer(w) \/ Speak(w) \/ LeaveTurn(w) \/ ReportAgain(w)
    BY <2>2 DEF Answer, Speak, LeaveTurn, ReportAgain, EndThread
  <2>3. CASE \/ BeginTurn(w)
             \/ Count(w)
             \/ MarkStart(w)
             \/ Interrupted(w)
             \/ Outcome(w)
             \/ ClearBusy(w)
             \/ ReportCancelled(w)
             \/ LeaveIll(w)
    BY <2>1, <2>3 DEF BeginTurn, Count, MarkStart, Interrupted, Outcome,
       ClearBusy, ReportCancelled, LeaveIll, told
  <2>4. CASE \/ BeginAction(w)
             \/ Register(w)
             \/ Checkpoint(w)
             \/ EndComputerAction(w)
             \/ (\E p \in {"running", "preparing"} : ToldStopped(w, p))
             \/ BeginFileAction(w)
             \/ Prepared(w)
             \/ ReadLease(w)
    BY <2>1, <2>4 DEF BeginAction, Register, Checkpoint, EndComputerAction,
       ToldStopped, BeginFileAction, Prepared, ReadLease, told
  <2>5. CASE \/ IssueFile(w)
             \/ IssueFails(w)
             \/ ResolveLeased(w)
             \/ WriteFile(w)
             \/ BeginPrompt(w)
             \/ IssueScreen(w)
             \/ IssuePaint(w)
             \/ AnswerPrompt(w)
    BY <2>1, <2>5 DEF IssueFile, IssueFails, ResolveLeased, WriteFile,
       BeginPrompt, IssueScreen, IssuePaint, AnswerPrompt, told
  <2> QED
    BY <2>2, <2>3, <2>4, <2>5 DEF Turn
<1> QED
  BY <1>1, <1>2 DEF Own

\* An action that is not aborted passed its check in this epoch or earlier;
\* when it was registered in this epoch, or waits for its token to be
\* cancelled, no snapshot missed it.
Counted(w) ==
    /\ pc[w] \in BusyPlaces \ {"counted"} => turnEpoch[w] # Unmarked
    /\ passed[w] # Unmarked => passed[w] <= epoch
    /\ pc[w] = "acting" /\ w \notin aborted =>
          /\ action[w] = "registered" => joined[w] = epoch \/ w \in victims
          /\ passed[w] = epoch => ~barred /\ turnEpoch[w] = epoch

HoldInv == \A w \in Worker : Counted(w)

\* What Counted needs to know of the types.
Marks ==
    /\ pc \in [Worker -> Places]
    /\ action \in [Worker -> {"none", "checked", "registered"}]
    /\ turnEpoch \in [Worker -> Nat \cup {Unmarked}]
    /\ passed \in [Worker -> Nat \cup {Unmarked}]
    /\ joined \in [Worker -> Nat \cup {Unmarked}]
    /\ epoch \in Nat /\ Unmarked \notin Nat

LEMMA TypedMarks == Typed => Marks
  BY TurnAssumption
  DEF Typed, OtherTyped, ThreadsTyped, MarksTyped, RegistryTypeOK, Marks

LEMMA WorkKeepsHold ==
    ASSUME Typed, HoldInv, NEW w \in Worker, Work(w)
    PROVE  HoldInv'
<1>0. Marks
  BY TypedMarks
<1>1. CASE Calm(w)
  <2>1. /\ SameCommand /\ SameActions
        /\ pc[w] \notin {"counted", "acting", "native"}
        /\ pc[w] \in BusyPlaces
        /\ \E p \in BusyPlaces : pc' = [pc EXCEPT ![w] = p]
    BY <1>1, CalmIs, WorkIsAtWork DEF AtWork
  <2>2. /\ pc'[w] # "acting" /\ joined' = joined
        /\ passed' \in {passed, [passed EXCEPT ![w] = epoch]}
    BY <1>0, <1>1
    DEF Marks, Calm, Interrupted, Answer, Speak, Outcome, ToldStopped,
        BeginFileAction, Prepared, ReadLease, IssueFile, IssueFails,
        ResolveLeased, WriteFile,
        BeginPrompt, IssueScreen, IssuePaint, AnswerPrompt, Go, marks
  <2>3. ASSUME NEW v \in Worker
        PROVE  Counted(v)'
    BY <1>0, <2>1, <2>2
    DEF HoldInv, Counted, Marks, SameCommand, SameActions
  <2> QED
    BY <2>3 DEF HoldInv
<1>2. CASE MarkStart(w)
  BY <1>0, <1>2
  DEF HoldInv, Counted, Marks, MarkStart, Mark, Go, marks
<1>3. CASE BeginAction(w)
  <2>1. pc[w] \in BusyPlaces \ {"counted"}
    BY <1>3 DEF BeginAction, Go, BusyPlaces
  <2>2. turnEpoch[w] # Unmarked
    BY <2>1 DEF HoldInv, Counted
  <2>3. ASSUME NEW v \in Worker
        PROVE  Counted(v)'
    BY <1>0, <1>3, <2>1, <2>2
    DEF HoldInv, Counted, Marks, BeginAction, CheckAction, Stopped, Go
  <2> QED
    BY <2>3 DEF HoldInv
<1>4. CASE Register(w)
  BY <1>0, <1>4
  DEF HoldInv, Counted, Marks, Register, RegisterAction, threads
<1>5. CASE Checkpoint(w)
  BY <1>0, <1>5
  DEF HoldInv, Counted, Marks, Checkpoint, Go, registry, marks, BusyPlaces
<1>6. CASE EndComputerAction(w)
  BY <1>0, <1>6
  DEF HoldInv, Counted, Marks, EndComputerAction, EndAction, Go, marks,
      BusyPlaces
<1> QED
  BY <1>1, <1>2, <1>3, <1>4, <1>5, <1>6, WorkIsCalm

LEMMA BoundKeepsHold ==
    ASSUME Typed, HoldInv, NEW w \in Worker,
           \/ BeginTurn(w) \/ Count(w) \/ ClearBusy(w) \/ ReportCancelled(w)
           \/ LeaveIll(w) \/ LeaveTurn(w) \/ ReportAgain(w)
    PROVE  HoldInv'
<1>0. Marks
  BY TypedMarks
<1>1. CASE LeaveTurn(w) \/ ReportAgain(w)
  <2>1. /\ pc' = [pc EXCEPT ![w] = "done"]
        /\ turnEpoch' = [turnEpoch EXCEPT ![w] = Unmarked]
        /\ passed' = [passed EXCEPT ![w] = Unmarked]
        /\ joined' = [joined EXCEPT ![w] = Unmarked]
        /\ aborted' = aborted \ {w}
        /\ UNCHANGED <<epoch, barred, action, victims>>
    BY <1>1 DEF LeaveTurn, ReportAgain, EndThread, DropThread, Go
  <2>2. ASSUME NEW v \in Worker
        PROVE  Counted(v)'
    BY <1>0, <2>1 DEF HoldInv, Counted, Marks, BusyPlaces
  <2> QED
    BY <2>2 DEF HoldInv
<1>2. CASE \/ BeginTurn(w) \/ Count(w) \/ ClearBusy(w) \/ ReportCancelled(w)
           \/ LeaveIll(w)
  <2>1. UNCHANGED <<registry, marks>>
    BY <1>2 DEF BeginTurn, Count, ClearBusy, ReportCancelled, LeaveIll
  <2>2. \E p \in {"entered", "done", "leaving", "counted", "reporting",
                  "unwinding", "left"} : pc' = [pc EXCEPT ![w] = p]
    BY <1>2
    DEF BeginTurn, Count, ClearBusy, ReportCancelled, LeaveIll, Go
  <2>3. ASSUME NEW v \in Worker
        PROVE  Counted(v)'
    BY <1>0, <2>1, <2>2
    DEF HoldInv, Counted, Marks, BusyPlaces, registry, marks
  <2> QED
    BY <2>3 DEF HoldInv
<1> QED
  BY <1>1, <1>2

LEMMA NextKeepsHold ==
    ASSUME Typed, HoldInv, [Next]_vars
    PROVE  HoldInv'
<1>0. Marks
  BY TypedMarks
<1>1. CASE UNCHANGED <<registry, marks, pc>>
  BY <1>1 DEF HoldInv, Counted, registry, marks
<1>2. ASSUME NEW a \in Answerer, Decision(a)
      PROVE  UNCHANGED <<registry, marks, pc>>
  BY <1>2 DEF Decision, ReadDecision, TakeDecision, CarryOut, GrantLease,
              TellDecision
<1>3. ASSUME NEW c, StartCommand(c)
      PROVE  UNCHANGED <<registry, marks, pc>>
  BY <1>3 DEF StartCommand, threads
<1>4. CASE Expire \/ UNCHANGED vars
  BY <1>1, <1>4 DEF Expire, vars, threads
<1>5. CASE \/ SetPaused \/ DiscardScreens \/ DiscardFiles \/ SealLedger
           \/ FinishCommand
  BY <1>1, <1>5
  DEF SetPaused, DiscardScreens, DiscardFiles, SealLedger, FinishCommand,
      NextCall, threads
<1>6. CASE CancelActions
  <2>1. UNCHANGED <<pc, marks, turnEpoch, action>>
    BY <1>6
    DEF CancelActions, NextCall, AdvanceEpoch, CancelVictims, Bar, threads
  <2>2. CASE AdvanceEpoch \/ Bar
    <3>1. /\ epoch' = epoch + 1 /\ victims' = Registered
          /\ aborted' = aborted
      BY <2>2 DEF AdvanceEpoch, Bar
    <3>2. ASSUME NEW v \in Worker
          PROVE  Counted(v)'
      BY <1>0, <2>1, <3>1 DEF HoldInv, Counted, Marks, marks, Registered
    <3> QED
      BY <3>2 DEF HoldInv
  <2>3. CASE CancelVictims
    BY <2>1, <2>3 DEF HoldInv, Counted, CancelVictims, marks
  <2> QED
    BY <1>6, <2>2, <2>3 DEF CancelActions
<1>7. ASSUME NEW w \in Worker, Turn(w)
      PROVE  HoldInv'
  BY <1>7, WorkOrBound, WorkKeepsHold, BoundKeepsHold
<1> QED
  BY <1>1, <1>2, <1>3, <1>4, <1>5, <1>6, <1>7 DEF Next, Command

LEMMA InitHold == Init => HoldInv
  BY TurnAssumption DEF Init, RegistryInit, HoldInv, Counted, BusyPlaces

LEMMA StepHolds ==
    ASSUME Typed, GateInv, HoldInv, [Next]_vars,
           NEW w \in stopped, ~inTransition
    PROVE  /\ w \in answered' => w \in answered
           /\ pc[w] = "acting" /\ pc'[w] = "native" => Late(w) \/ SlippedIn(w)
           /\ pc[w] = "preparing" /\ pc'[w] \in {"writing", "confirming"} =>
                 Late(w)
           /\ pc[w] = "running"
              /\ pc'[w] \in {"preparing", "asking", "painting"} => Late(w)
<1>0. Marks /\ w \in Worker /\ w \in cancelled
  BY TypedMarks DEF Typed, OtherTyped, MarksTyped, GateInv, StopInv
<1>1. CASE pc'[w] = pc[w] /\ (w \in answered' => w \in answered)
  BY <1>1
<1>2. CASE Turn(w)
  <2>1. Asks(w)
    BY <1>0, <1>2, TurnAsks
  <2>2. victims = {}
    BY NoCommandNoCalls DEF GateInv
  <2>3. ~Stopped(w) /\ pc[w] \in {"running", "preparing"} => Late(w)
    BY <1>0 DEF HoldInv, Counted, Stopped, Late, BusyPlaces
  <2>4. pc[w] = "acting" /\ action[w] = "registered" /\ w \notin aborted =>
           Late(w) \/ SlippedIn(w)
    BY <1>0, <2>2 DEF HoldInv, Counted, Late, SlippedIn
  <2> QED
    BY <1>0, <2>1, <2>3, <2>4 DEF Asks
<1>3. ASSUME NEW v \in Worker, Turn(v), v # w
      PROVE  pc'[w] = pc[w] /\ (w \in answered' => w \in answered)
  BY <1>0, <1>3, TurnIsOwn DEF Own
<1>4. ASSUME NEW a \in Answerer, Decision(a)
      PROVE  UNCHANGED <<pc, answered>>
  BY <1>4 DEF Decision, ReadDecision, TakeDecision, CarryOut, GrantLease,
              TellDecision, told
<1>5. ASSUME NEW c, StartCommand(c)
      PROVE  UNCHANGED <<pc, answered>>
  BY <1>5 DEF StartCommand, threads, told
<1>6. CASE Command \/ Expire \/ UNCHANGED vars
  <2>1. UNCHANGED <<pc, answered>>
    BY <1>6
    DEF Command, SetPaused, CancelActions, DiscardScreens, DiscardFiles,
        SealLedger, FinishCommand, NextCall, Expire, vars, threads, told
  <2> QED
    BY <1>1, <2>1
<1> QED
  BY <1>1, <1>2, <1>3, <1>4, <1>5, <1>6 DEF Next

LEMMA AlwaysHolds == Spec => []HoldInv
<1>1. Typed /\ HoldInv /\ [Next]_vars => HoldInv'
  BY NextKeepsHold
<1> QED
  BY <1>1, InitHold, AlwaysTyped, PTL DEF Spec

\* A turn that a command found running publishes no answer, and starts no
\* native step, no file write and no prompt after the command is acknowledged,
\* but for a check it passed before the epoch advanced and a start it marked
\* after it, for any number of turns and commands.
THEOREM StopCorrect == Spec => StopHolds
<1>1. Typed /\ GateInv /\ HoldInv /\ [Next]_vars =>
        [\A w \in stopped : ~inTransition =>
          /\ w \in answered' => w \in answered
          /\ pc[w] = "acting" /\ pc'[w] = "native" => Late(w) \/ SlippedIn(w)
          /\ pc[w] = "preparing" /\ pc'[w] \in {"writing", "confirming"} =>
                Late(w)
          /\ pc[w] = "running"
             /\ pc'[w] \in {"preparing", "asking", "painting"} => Late(w)
        ]_vars
  BY StepHolds
<1> QED
  BY <1>1, AlwaysTyped, AlwaysGate, AlwaysHolds, PTL DEF Spec, StopHolds

-----------------------------------------------------------------------------
(* One last word, from whoever owes it. *)

\* Where a turn has its last word to say, where it cannot have asked for an
\* identity of a file action yet, and where it leaves without a word.
Owing == {"new", "entered", "counted", "running", "speaking", "looking",
          "drawing", "acting", "native", "outcome", "preparing",
          "confirming", "leasing", "prompting", "writing", "asking",
          "painting", "raised", "reporting"}
Early == {"new", "entered", "counted", "running", "preparing", "confirming",
          "leasing", "prompting"}
Gone == {"ending", "leaving", "done"}

Decided(i) == \E a \in Answerer : i \in decision[a].on

\* What is left behind for somebody else to answer.
Owed(w) ==
    \E i \in Ticket :
        /\ tickets[i].owner = w
        /\ \/ tickets[i].kind \in ScreenKinds
           \/ tickets[i].state \in OpenStates \cup {"expired", "closed"}
           \/ Decided(i)

\* A request's last word: it is the turn's to say, or an open identity's, of
\* which a turn issues one for a file action.
Account(w) ==
    /\ words[w] \in {0, 1}
    /\ pc[w] \in Owing => words[w] = 0
    /\ w \in terminal \cup reported => words[w] = 1
    /\ pc[w] \in {"unwinding", "left"} => w \in terminal \cup reported
    /\ pc[w] \in Gone \cup {"leased"} /\ words[w] = 0 => Owed(w)
    /\ \A i \in Ticket :
          tickets[i].owner = w /\ tickets[i].kind \in FileKinds =>
            /\ pc[w] \notin Early
            /\ tickets[i].state \in OpenStates =>
                  words[w] = 0 /\ pc[w] \in Gone \cup {"leased"}
            /\ pc[w] = "leased" => tickets[i].kind = "write"
            /\ \A j \in Ticket :
                  tickets[j].owner = w /\ tickets[j].kind \in FileKinds =>
                    i = j

\* Who decides holds one identity, which it alone took, and for which nobody
\* has said the word.
Holds(a) ==
    /\ decision[a].at \in {"idle", "taking"} => decision[a].on = {}
    /\ \A i \in decision[a].on :
          /\ decision[a].on = {i}
          /\ tickets[i].kind = "file" /\ tickets[i].state = "used"
          /\ words[tickets[i].owner] = 0 /\ pc[tickets[i].owner] \in Gone
          /\ \A b \in Answerer : i \in decision[b].on => a = b

IssuedInv ==
    \A i \in Ticket :
        tickets[i].state = "unissued" <=> tickets[i].owner = NoWorker

WordsInv ==
    /\ IssuedInv
    /\ \A w \in Worker : Account(w)
    /\ \A a \in Answerer : Holds(a)

\* The types this part needs.
WordTypes ==
    /\ tickets \in Book
    /\ pc \in [Worker -> Places]
    /\ words \in [Worker -> Nat]
    /\ decision \in [Answerer -> [at : {"idle", "taking", "approved",
                                        "granting", "telling"},
                                  on : SUBSET Ticket]]

LEMMA TypedWords == Typed => WordTypes
  BY DEF Typed, OtherTyped, ThreadsTyped, MarksTyped, WordTypes

\* A step that is not this request's.
Apart(v) ==
    /\ pc'[v] = pc[v] /\ words'[v] = words[v]
    /\ v \in terminal' <=> v \in terminal
    /\ v \in reported' <=> v \in reported
    /\ \A i \in Ticket :
          tickets[i].owner = v \/ tickets'[i].owner = v => Quietly(i)
    /\ \A i \in Ticket : tickets[i].owner = v => (Decided(i)' <=> Decided(i))

LEMMA QuietKeepsOwed ==
    ASSUME NEW i \in Ticket, Quietly(i),
           \/ tickets[i].kind \in ScreenKinds
           \/ tickets[i].state \in OpenStates \cup {"expired", "closed"}
    PROVE  \/ tickets'[i].kind \in ScreenKinds
           \/ tickets'[i].state \in OpenStates \cup {"expired", "closed"}
  BY DEF Quietly, OpenStates

LEMMA ApartKeepsAccount ==
    ASSUME NEW v \in Worker, Account(v), Apart(v)
    PROVE  Account(v)'
<1>1. ASSUME Owed(v)
      PROVE  Owed(v)'
  <2>1. PICK i \in Ticket :
           /\ tickets[i].owner = v
           /\ \/ tickets[i].kind \in ScreenKinds
              \/ tickets[i].state \in OpenStates \cup {"expired", "closed"}
              \/ Decided(i)
    BY <1>1 DEF Owed
  <2>2. Quietly(i) /\ (Decided(i)' <=> Decided(i)) /\ tickets'[i].owner = v
    BY <2>1 DEF Apart, Quietly
  <2> QED
    BY <2>1, <2>2, QuietKeepsOwed DEF Owed
<1>2. ASSUME NEW i \in Ticket, tickets'[i].owner = v
      PROVE  /\ tickets[i].owner = v
             /\ tickets'[i].kind = tickets[i].kind
             /\ tickets'[i].state \in OpenStates =>
                   tickets[i].state \in OpenStates
  BY <1>2 DEF Apart, Quietly, OpenStates
<1> QED
  BY <1>1, <1>2 DEF Account, Apart

\* The same for an answerer.
LEMMA QuietKeepsHolds ==
    ASSUME WordTypes, NEW a \in Answerer, Holds(a), QuietLedger,
           decision' = decision,
           \A i \in decision[a].on :
              words'[tickets[i].owner] = 0 /\ pc'[tickets[i].owner] \in Gone
    PROVE  Holds(a)'
<1>1. ASSUME NEW i \in decision[a].on
      PROVE  /\ tickets'[i].kind = "file" /\ tickets'[i].state = "used"
             /\ tickets'[i].owner = tickets[i].owner
  <2>1. i \in Ticket /\ Quietly(i)
    BY DEF WordTypes, QuietLedger
  <2> QED
    BY <2>1 DEF Holds, Quietly, OpenStates
<1> QED
  BY <1>1 DEF Holds

LEMMA QuietKeepsIssued ==
    ASSUME WordTypes, IssuedInv, QuietLedger
    PROVE  IssuedInv'
  BY DEF IssuedInv, QuietLedger, Quietly, OpenStates

\* A step of one turn that leaves the ledger quiet.
ByItself(w) ==
    /\ QuietLedger
    /\ decision' = decision
    /\ \A v \in Worker \ {w} :
          /\ pc'[v] = pc[v] /\ words'[v] = words[v]
          /\ v \in terminal' <=> v \in terminal
          /\ v \in reported' <=> v \in reported

\* It keeps the accounts when it keeps its own, and keeps what the answerers
\* rely on.
LEMMA ByItselfKeepsWords ==
    ASSUME WordTypes, WordsInv, NEW w \in Worker, ByItself(w), Account(w)',
           pc[w] \in Gone /\ words[w] = 0 => pc'[w] \in Gone /\ words'[w] = 0
    PROVE  WordsInv'
<1>1. ASSUME NEW v \in Worker
      PROVE  Account(v)'
  <2>1. v # w => Apart(v)
    BY DEF ByItself, Apart, QuietLedger, Decided
  <2> QED
    BY <2>1, ApartKeepsAccount DEF WordsInv
<1>2. ASSUME NEW a \in Answerer
      PROVE  Holds(a)'
  <2>1. ASSUME NEW i \in decision[a].on
        PROVE  /\ words'[tickets[i].owner] = 0
               /\ pc'[tickets[i].owner] \in Gone
    <3>1. /\ i \in Ticket /\ tickets[i].state = "used"
          /\ words[tickets[i].owner] = 0 /\ pc[tickets[i].owner] \in Gone
      BY DEF WordsInv, Holds, WordTypes
    <3>2. tickets[i].owner \in Worker
      BY <3>1 DEF WordsInv, IssuedInv, WordTypes, Book, Record, Owner
    <3> QED
      BY <3>1, <3>2 DEF ByItself
  <2> QED
    BY <2>1, QuietKeepsHolds DEF WordsInv, ByItself
<1> QED
  BY <1>1, <1>2, QuietKeepsIssued DEF WordsInv, ByItself


\* The kinds of step of a turn that leave the ledger quiet: it goes on, it says
\* its last word, it reports its cancellation, or it leaves.
GoesOn(w) ==
    /\ pc[w] \in Owing
    /\ \E q \in Owing : /\ pc' = [pc EXCEPT ![w] = q]
                        /\ q \in Early => pc[w] \in Early
    /\ UNCHANGED <<words, terminal, reported, decision>>
    /\ QuietLedger

SaysLast(w) ==
    /\ pc[w] \in Owing
    /\ \E q \in Gone : pc' = [pc EXCEPT ![w] = q]
    /\ LastWord(w)
    /\ terminal' \in {terminal, terminal \cup {w}}
    /\ UNCHANGED <<reported, decision>>
    /\ QuietLedger

Reports(w) ==
    /\ Go(w, "reporting", "unwinding")
    /\ IF MayClaim(w) THEN LastWord(w) /\ reported' = reported \cup {w}
                      ELSE UNCHANGED <<words, reported>>
    /\ UNCHANGED <<terminal, decision>>
    /\ QuietLedger

Leaves(w) ==
    /\ \/ Go(w, "unwinding", "left") /\ UNCHANGED <<terminal, reported>>
       \/ /\ Go(w, "ending", "leaving") \/ Go(w, "leaving", "done")
             \/ Go(w, "left", "done")
          /\ terminal' \in {terminal, terminal \ {w}}
          /\ reported' \in {reported, reported \ {w}}
    /\ UNCHANGED <<words, decision>>
    /\ QuietLedger

\* An identity is issued to the turn, and its word is owed.
Asked(w) ==
    /\ \/ /\ Go(w, "prompting", "ending")
          /\ \E i \in Ticket : Fresh(i, "file", w)
       \/ /\ Go(w, "leasing", "leased")
          /\ \E i \in Ticket : Fresh(i, "write", w)
       \/ /\ pc[w] \in Owing /\ pc' = [pc EXCEPT ![w] = "ending"]
          /\ \E i \in Ticket, k \in ScreenKinds : Fresh(i, k, w)
    /\ UNCHANGED <<words, terminal, reported, decision>>

\* The lease answers for the turn's own write, or does not.
Leased(w) ==
    /\ \/ /\ Go(w, "leased", "writing")
          /\ \E i \in Ticket : tickets[i].owner = w /\ Spent(i)
                              /\ tickets[i].kind \in FileKinds
       \/ Go(w, "leased", "ending") /\ QuietLedger
    /\ UNCHANGED <<words, terminal, reported, decision>>

Kinds(w) ==
    \/ GoesOn(w) \/ SaysLast(w) \/ Reports(w) \/ Leaves(w) \/ Asked(w)
    \/ Leased(w)

LEMMA TurnIsOfAKind ==
    ASSUME Typed, WordsInv, NEW w \in Worker, Turn(w)
    PROVE  Kinds(w)
<1>0. WordTypes /\ tickets \in Book
  BY TypedWords DEF WordTypes
<1>1. CASE BeginTurn(w)
  <2>1. QuietLedger /\ pc[w] = "new"
        /\ UNCHANGED <<terminal, reported, decision>>
    BY <1>0, <1>1, SameIsQuiet DEF BeginTurn, Enter, ledger
  <2>2. CASE Admission(paused, busy) = "entered"
    BY <1>1, <2>1, <2>2 DEF BeginTurn, Go, GoesOn, Owing, Early, Kinds
  <2>3. CASE Admission(paused, busy) # "entered"
    BY <1>1, <2>1, <2>3 DEF BeginTurn, Go, SaysLast, Owing, Gone, Kinds
  <2> QED
    BY <2>2, <2>3
<1>2. CASE Count(w)
  <2>1. QuietLedger /\ pc[w] = "entered"
        /\ UNCHANGED <<terminal, reported, decision>>
    BY <1>0, <1>2, SameIsQuiet DEF Count, Go, ledger, lifecycle
  <2>2. CASE paused \/ busy
    BY <1>2, <2>1, <2>2 DEF Count, Go, SaysLast, Owing, Gone, Kinds
  <2>3. CASE ~(paused \/ busy)
    BY <1>2, <2>1, <2>3 DEF Count, Go, GoesOn, Owing, Early, Kinds
  <2> QED
    BY <2>2, <2>3
<1>3. CASE Answer(w) \/ Outcome(w)
           \/ \E p \in {"running", "preparing"} : ToldStopped(w, p)
  <2>1. QuietLedger
    BY <1>0, <1>3, SameIsQuiet DEF Answer, Outcome, ToldStopped, ledger
  <2>2. /\ LastWord(w) /\ terminal' = terminal \cup {w}
        /\ UNCHANGED <<reported, decision>>
    BY <1>3 DEF Answer, Outcome, ToldStopped, PublishLast
  <2>3. pc[w] \in Owing /\ pc' = [pc EXCEPT ![w] = "ending"]
    BY <1>3 DEF Answer, Outcome, ToldStopped, Go, Owing
  <2> QED
    BY <2>1, <2>2, <2>3 DEF SaysLast, Gone, Kinds
<1>4. CASE \/ MarkStart(w) \/ Interrupted(w) \/ Speak(w) \/ BeginAction(w)
           \/ Checkpoint(w) \/ EndComputerAction(w) \/ Prepared(w)
           \/ ReadLease(w) \/ IssueFails(w) \/ WriteFile(w) \/ BeginPrompt(w)
  <2>1. QuietLedger
    BY <1>0, <1>4, SameIsQuiet DEF MarkStart, Interrupted, Speak,
       BeginAction, Checkpoint, EndComputerAction, Prepared, ReadLease,
       IssueFails, WriteFile, BeginPrompt, ledger
  <2>2. UNCHANGED <<words, terminal, reported, decision>>
    BY <1>4 DEF MarkStart, Interrupted, Speak, BeginAction, Checkpoint,
       EndComputerAction, Prepared, ReadLease, IssueFails, WriteFile,
       BeginPrompt, lifecycle, told
  <2>3. pc[w] \in Owing
        /\ \E q \in Owing : /\ pc' = [pc EXCEPT ![w] = q]
                            /\ q \in Early => pc[w] \in Early
    BY <1>4 DEF MarkStart, Interrupted, Speak, BeginAction, Checkpoint,
       EndComputerAction, Prepared, ReadLease, IssueFails, WriteFile,
       BeginPrompt, Go, Owing, Early
  <2> QED
    BY <2>1, <2>2, <2>3 DEF GoesOn, Kinds
<1>5. CASE Register(w)
  <2>1. QuietLedger
    BY <1>0, <1>5, SameIsQuiet DEF Register, ledger
  <2>2. UNCHANGED <<words, terminal, reported, decision, pc>>
    BY <1>5 DEF Register, lifecycle, told, threads
  <2>3. pc[w] \in Owing /\ pc' = [pc EXCEPT ![w] = pc[w]]
    BY <1>0, <1>5, <2>2 DEF Register, Owing, WordTypes
  <2> QED
    BY <2>1, <2>2, <2>3 DEF GoesOn, Kinds
<1>6. CASE BeginFileAction(w)
  <2>1. QuietLedger
    BY <1>0, <1>6, ExpiringIsQuiet DEF BeginFileAction
  <2> QED
    BY <1>6, <2>1
    DEF BeginFileAction, Go, lifecycle, told, Owing, Early, GoesOn, Kinds
<1>7. CASE ClearBusy(w)
  <2>1. QuietLedger
    BY <1>0, <1>7, SameIsQuiet DEF ClearBusy, ledger
  <2>2. UNCHANGED <<words, terminal, reported, decision>>
    BY <1>7 DEF ClearBusy, lifecycle, told
  <2>3. CASE Go(w, "ending", "leaving")
    BY <2>1, <2>2, <2>3 DEF Leaves, Kinds
  <2>4. CASE Go(w, "raised", "reporting")
    BY <2>1, <2>2, <2>4 DEF Go, GoesOn, Owing, Early, Kinds
  <2> QED
    BY <1>7, <2>3, <2>4 DEF ClearBusy
<1>8. CASE ReportCancelled(w)
  <2>1. QuietLedger
    BY <1>0, <1>8, SameIsQuiet DEF ReportCancelled, ledger
  <2> QED
    BY <1>8, <2>1 DEF ReportCancelled, Claim, Reports, Kinds
<1>9. CASE LeaveIll(w)
  <2>1. QuietLedger
    BY <1>0, <1>9, SameIsQuiet DEF LeaveIll, ledger
  <2> QED
    BY <1>9, <2>1 DEF LeaveIll, turn, told, Leaves, Kinds
<1>10. CASE LeaveTurn(w)
  <2>1. QuietLedger
    BY <1>0, <1>10, SameIsQuiet DEF LeaveTurn, EndThread, ledger
  <2> QED
    BY <1>10, <2>1 DEF LeaveTurn, EndThread, DropTurn, Leaves, Kinds
<1>11. CASE ReportAgain(w)
  <2>1. QuietLedger
    BY <1>0, <1>11, SameIsQuiet DEF ReportAgain, EndThread, ledger
  <2>2. ~MayClaim(w)
    BY <1>11 DEF WordsInv, Account, ReportAgain, Go, MayClaim
  <2> QED
    BY <1>11, <2>1, <2>2 DEF ReportAgain, EndThread, DropTurn, Leaves, Kinds
<1>12. CASE IssueFile(w)
  <2>1. UNCHANGED <<words, terminal, reported, decision>>
    BY <1>12 DEF IssueFile, lifecycle, told
  <2>2. "file" \in FileKinds /\ "write" \in FileKinds
    BY DEF FileKinds
  <2>3. CASE Go(w, "prompting", "ending") /\ Issue(tickets, "file", w)
    BY <1>0, <2>1, <2>2, <2>3, IssueFileIsFresh DEF Asked, Kinds
  <2>4. CASE Go(w, "leasing", "leased") /\ Issue(tickets, "write", w)
    BY <1>0, <2>1, <2>2, <2>4, IssueFileIsFresh DEF Asked, Kinds
  <2> QED
    BY <1>12, <2>3, <2>4 DEF IssueFile
<1>13. CASE IssueScreen(w)
  <2>1. UNCHANGED <<words, terminal, reported, decision>>
    BY <1>13 DEF IssueScreen, lifecycle, told
  <2>2. PICK i \in Ticket : Fresh(i, "screen", w)
    BY <1>0, <1>13, IssueScreenIsFresh
  <2>3. pc[w] \in Owing /\ pc' = [pc EXCEPT ![w] = "ending"]
    BY <1>13 DEF IssueScreen, Go, Owing
  <2> QED
    BY <2>1, <2>2, <2>3 DEF Asked, ScreenKinds, Kinds
<1>14. CASE IssuePaint(w)
  <2>1. UNCHANGED <<words, terminal, reported, decision>>
    BY <1>14 DEF IssuePaint, lifecycle, told
  <2>2. CASE Go(w, "painting", "outcome") /\ QuietLedger
    BY <2>1, <2>2 DEF Go, GoesOn, Owing, Early, Kinds
  <2>3. CASE /\ Go(w, "painting", "ending")
             /\ \E i \in Ticket : Fresh(i, "paint", w)
    <3>1. pc[w] \in Owing /\ pc' = [pc EXCEPT ![w] = "ending"]
      BY <2>3 DEF Go, Owing
    <3> QED
      BY <2>1, <2>3, <3>1 DEF Asked, ScreenKinds, Kinds
  <2> QED
    BY <1>0, <1>14, <2>2, <2>3, IssuePaintDoes
<1>15. CASE ResolveLeased(w)
  <2>1. UNCHANGED <<words, terminal, reported, decision>>
    BY <1>15 DEF ResolveLeased, lifecycle
  <2>2. PICK i \in Ticket :
           /\ tickets[i].owner = w
           /\ \/ Take(i, FileKinds) /\ Go(w, "leased", "writing")
              \/ /\ UNCHANGED ledger \/ Refuse(i, FileKinds)
                 /\ Go(w, "leased", "ending")
    BY <1>15 DEF ResolveLeased
  <2>3. CASE Take(i, FileKinds) /\ Go(w, "leased", "writing")
    BY <1>0, <2>1, <2>2, <2>3, TakingSpends DEF Leased, Kinds
  <2>4. CASE /\ UNCHANGED ledger \/ Refuse(i, FileKinds)
             /\ Go(w, "leased", "ending")
    <3>1. QuietLedger
      BY <1>0, <2>4, SameIsQuiet, RefusingIsQuiet DEF ledger
    <3> QED
      BY <2>1, <2>4, <3>1 DEF Leased, Kinds
  <2> QED
    BY <2>2, <2>3, <2>4
<1>16. CASE AnswerPrompt(w)
  <2>1. UNCHANGED <<terminal, reported, decision>>
    BY <1>16 DEF AnswerPrompt, lifecycle
  <2>2. QuietLedger
    <3>1. PICK i \in Ticket : Take(i, ScreenKinds) \/ Refuse(i, ScreenKinds)
      BY <1>16 DEF AnswerPrompt
    <3>2. CASE Take(i, ScreenKinds)
      BY <1>0, <3>2, TakingSpends
      DEF Spent, QuietLedger, Quietly, TicketStates, OpenStates
    <3> QED
      BY <1>0, <3>1, <3>2, RefusingIsQuiet
  <2>3. \/ Go(w, "running", "ending") /\ LastWord(w)
        \/ Go(w, "running", "looking") /\ UNCHANGED words
        \/ Go(w, "running", "drawing") /\ UNCHANGED words
    BY <1>16 DEF AnswerPrompt
  <2> QED
    BY <2>1, <2>2, <2>3
    DEF Go, Owing, Early, Gone, GoesOn, SaysLast, Kinds
<1> QED
  BY <1>1, <1>2, <1>3, <1>4, <1>5, <1>6, <1>7, <1>8, <1>9, <1>10, <1>11,
     <1>12, <1>13, <1>14, <1>15, <1>16 DEF Turn

\* Whatever its kind, the step leaves the accounts in order.
LEMMA SaysLastKeepsWords ==
    ASSUME WordTypes, WordsInv, NEW w \in Worker, SaysLast(w)
    PROVE  WordsInv'
<1>1. /\ Account(w) /\ words[w] = 0 /\ words' = [words EXCEPT ![w] = 1]
      /\ pc[w] \notin Gone \cup {"leased"}
      /\ pc'[w] \in Gone
  <2>1. Account(w) /\ pc[w] \in Owing
    BY DEF WordsInv, SaysLast
  <2>2. words[w] = 0
    BY <2>1 DEF Account
  <2>3. words' = [words EXCEPT ![w] = 1]
    BY <2>2 DEF SaysLast, LastWord, WordTypes
  <2>4. pc[w] \notin Gone \cup {"leased"}
    BY <2>1 DEF Owing, Gone
  <2>5. pc'[w] \in Gone
    BY DEF SaysLast, WordTypes
  <2> QED
    BY <2>1, <2>2, <2>3, <2>4, <2>5
<1>2. ASSUME NEW i \in Ticket, tickets'[i].owner = w,
             tickets'[i].kind \in FileKinds
      PROVE  /\ tickets[i].owner = w /\ tickets[i].kind \in FileKinds
             /\ tickets'[i].state \notin OpenStates
  <2>1. Quietly(i)
    BY DEF SaysLast, QuietLedger
  <2> QED
    BY <1>1, <1>2, <2>1 DEF Quietly, Account, OpenStates
<1>3. Account(w)'
  <2>1. words'[w] = 1
    BY <1>1 DEF WordTypes
  <2>2. pc'[w] \notin Owing \cup Early \cup {"unwinding", "left", "leased"}
    BY <1>1 DEF Owing, Early, Gone
  <2> QED
    BY <1>1, <1>2, <2>1, <2>2 DEF Account
<1>4. ByItself(w)
  BY DEF ByItself, SaysLast, LastWord, WordTypes
<1> QED
  BY <1>1, <1>3, <1>4, ByItselfKeepsWords

LEMMA GoesOnKeepsWords ==
    ASSUME WordTypes, WordsInv, NEW w \in Worker, GoesOn(w)
    PROVE  WordsInv'
<1>1. /\ Account(w) /\ words[w] = 0 /\ words' = words
      /\ pc[w] \notin Gone \cup {"leased"}
      /\ pc'[w] \in Owing
      /\ pc'[w] \in Early => pc[w] \in Early
      /\ w \notin terminal \cup reported
  BY DEF WordsInv, Account, GoesOn, WordTypes, Owing, Gone
<1>2. ASSUME NEW i \in Ticket, tickets'[i].owner = w,
             tickets'[i].kind \in FileKinds
      PROVE  /\ tickets[i].owner = w /\ tickets[i].kind \in FileKinds
             /\ tickets'[i].state \notin OpenStates
  <2>1. Quietly(i)
    BY DEF GoesOn, QuietLedger
  <2> QED
    BY <1>1, <1>2, <2>1 DEF Quietly, Account, OpenStates
<1>3. Account(w)'
  <2>1. pc'[w] \notin Gone \cup {"unwinding", "left", "leased"}
    BY <1>1 DEF Owing, Gone
  <2>2. w \notin terminal' \cup reported'
    BY <1>1 DEF GoesOn
  <2> QED
    BY <1>1, <1>2, <2>1, <2>2 DEF Account
<1>4. ByItself(w)
  BY DEF ByItself, GoesOn, WordTypes
<1> QED
  BY <1>1, <1>3, <1>4, ByItselfKeepsWords

LEMMA ReportsKeepsWords ==
    ASSUME WordTypes, WordsInv, NEW w \in Worker, Reports(w)
    PROVE  WordsInv'
<1>1. /\ Account(w) /\ words[w] = 0 /\ MayClaim(w)
      /\ pc[w] = "reporting" /\ pc'[w] = "unwinding"
  BY DEF WordsInv, Account, Reports, Go, WordTypes, Owing, MayClaim
<1>2. /\ words' = [words EXCEPT ![w] = 1] /\ words'[w] = 1
      /\ reported' = reported \cup {w}
  BY <1>1 DEF Reports, LastWord, WordTypes
<1>3. ASSUME NEW i \in Ticket, tickets'[i].owner = w,
             tickets'[i].kind \in FileKinds
      PROVE  /\ tickets[i].owner = w /\ tickets[i].kind \in FileKinds
             /\ tickets'[i].state \notin OpenStates
  <2>1. Quietly(i)
    BY DEF Reports, QuietLedger
  <2> QED
    BY <1>1, <1>3, <2>1 DEF Quietly, Account, OpenStates, Gone
<1>4. Account(w)'
  BY <1>1, <1>2, <1>3 DEF Account, Owing, Early, Gone
<1>5. ByItself(w)
  BY <1>2 DEF ByItself, Reports, Go, WordTypes
<1> QED
  BY <1>1, <1>4, <1>5, ByItselfKeepsWords DEF Gone

LEMMA OwedStays ==
    ASSUME NEW w, Owed(w), QuietLedger, decision' = decision
    PROVE  Owed(w)'
<1>1. PICK i \in Ticket :
         /\ tickets[i].owner = w
         /\ \/ tickets[i].kind \in ScreenKinds
            \/ tickets[i].state \in OpenStates \cup {"expired", "closed"}
            \/ Decided(i)
  BY DEF Owed
<1>2. Quietly(i) /\ tickets'[i].owner = w
  BY <1>1 DEF QuietLedger, Quietly
<1>3. Decided(i) => Decided(i)'
  BY DEF Decided
<1> QED
  BY <1>1, <1>2, <1>3, QuietKeepsOwed DEF Owed

LEMMA LeavesKeepsWords ==
    ASSUME WordTypes, WordsInv, NEW w \in Worker, Leaves(w)
    PROVE  WordsInv'
<1>1. /\ Account(w) /\ words' = words /\ decision' = decision
      /\ QuietLedger
  BY DEF WordsInv, Leaves
<1>2. ASSUME NEW i \in Ticket, tickets'[i].owner = w,
             tickets'[i].kind \in FileKinds
      PROVE  /\ tickets[i].owner = w
             /\ tickets'[i].kind = tickets[i].kind
             /\ tickets'[i].state \in OpenStates =>
                   tickets[i].state \in OpenStates
  BY <1>1, <1>2 DEF QuietLedger, Quietly, OpenStates
<1>3. Owed(w) => Owed(w)'
  BY <1>1, OwedStays
<1>4. CASE Go(w, "unwinding", "left") /\ UNCHANGED <<terminal, reported>>
  <2>1. pc[w] = "unwinding" /\ pc'[w] = "left"
    BY <1>4 DEF Go, WordTypes
  <2>2. Account(w)'
    BY <1>1, <1>2, <1>3, <1>4, <2>1 DEF Account, Owing, Early, Gone
  <2>3. ByItself(w)
    BY <1>1, <1>4 DEF ByItself, Go, WordTypes
  <2> QED
    BY <2>1, <2>2, <2>3, ByItselfKeepsWords DEF Gone
<1>5. CASE /\ Go(w, "ending", "leaving") \/ Go(w, "leaving", "done")
              \/ Go(w, "left", "done")
           /\ terminal' \in {terminal, terminal \ {w}}
           /\ reported' \in {reported, reported \ {w}}
  <2>1. /\ pc[w] \in {"ending", "leaving", "left"}
        /\ pc'[w] \in {"leaving", "done"}
    BY <1>5 DEF Go, WordTypes
  <2>2. w \in terminal' \cup reported' => w \in terminal \cup reported
    BY <1>5
  <2>3. Account(w)'
    BY <1>1, <1>2, <1>3, <2>1, <2>2 DEF Account, Owing, Early, Gone
  <2>4. ByItself(w)
    BY <1>1, <1>5 DEF ByItself, Go, WordTypes
  <2> QED
    BY <1>1, <2>1, <2>3, <2>4, ByItselfKeepsWords DEF Gone
<1> QED
  BY <1>4, <1>5 DEF Leaves

\* A new identity is nobody's before, and its owner's after.
LEMMA AskedKeepsWords ==
    ASSUME WordTypes, WordsInv, NEW w \in Worker, Asked(w)
    PROVE  WordsInv'
<1>1. PICK i \in Ticket, k \in FileKinds \cup ScreenKinds :
         /\ Fresh(i, k, w)
         /\ k \in FileKinds => pc[w] \in Early
         /\ pc[w] \in Owing
         /\ pc'[w] \in {"ending", "leased"}
         /\ pc'[w] = "leased" => k = "write"
  <2>1. CASE /\ Go(w, "prompting", "ending")
             /\ \E i \in Ticket : Fresh(i, "file", w)
    BY <2>1 DEF Go, WordTypes, Early, Owing, FileKinds
  <2>2. CASE /\ Go(w, "leasing", "leased")
             /\ \E i \in Ticket : Fresh(i, "write", w)
    BY <2>2 DEF Go, WordTypes, Early, Owing, FileKinds
  <2>3. CASE /\ pc[w] \in Owing /\ pc' = [pc EXCEPT ![w] = "ending"]
             /\ \E i \in Ticket, k \in ScreenKinds : Fresh(i, k, w)
    <3>1. PICK i \in Ticket, k \in ScreenKinds : Fresh(i, k, w)
      BY <2>3
    <3>2. k \notin FileKinds /\ pc'[w] = "ending"
      BY <2>3 DEF ScreenKinds, FileKinds, WordTypes
    <3> QED
      BY <2>3, <3>1, <3>2
  <2> QED
    BY <2>1, <2>2, <2>3 DEF Asked
<1>2. /\ Account(w) /\ words[w] = 0 /\ w \notin terminal \cup reported
      /\ UNCHANGED <<words, terminal, reported, decision>>
  BY <1>1 DEF WordsInv, Account, Asked
<1>3. pc' = [pc EXCEPT ![w] = pc'[w]]
  BY <1>1 DEF Asked, Go, WordTypes
<1>4. /\ tickets[i].owner = NoWorker /\ tickets'[i].owner = w
      /\ tickets'[i].state = "open" /\ tickets'[i].kind = k
      /\ \A j \in Ticket \ {i} : Quietly(j)
  BY <1>1 DEF Fresh, WordsInv, IssuedInv
<1>5. ASSUME NEW v \in Worker
      PROVE  Account(v)'
  <2>1. CASE v # w
    <3>1. Apart(v)
      BY <1>2, <1>3, <1>4, <2>1, TurnAssumption
      DEF Apart, WordTypes, Decided
    <3> QED
      BY <3>1, ApartKeepsAccount DEF WordsInv
  <2>2. CASE v = w
    <3>1. Owed(w)'
      BY <1>4 DEF Owed, OpenStates
    <3>2. ASSUME NEW j \in Ticket, tickets'[j].owner = w, j # i,
                 tickets'[j].kind \in FileKinds
          PROVE  /\ k \notin FileKinds
                 /\ tickets'[j].state \notin OpenStates
      <4>1. /\ tickets[j].owner = w /\ tickets[j].kind \in FileKinds
            /\ tickets'[j].state \in OpenStates =>
                  tickets[j].state \in OpenStates
        BY <1>4, <3>2 DEF Quietly, OpenStates
      <4> QED
        BY <1>1, <1>2, <4>1 DEF Account, Owing, Gone
    <3>3. ASSUME NEW j \in Ticket, tickets'[j].owner = w, j # i,
                 tickets'[j].kind \in FileKinds
          PROVE  /\ \A l \in Ticket :
                       /\ tickets'[l].owner = w
                       /\ tickets'[l].kind \in FileKinds
                       => j = l
      <4>1. tickets[j].owner = w /\ tickets[j].kind \in FileKinds
        BY <1>4, <3>3 DEF Quietly
      <4>2. ASSUME NEW l \in Ticket, tickets'[l].owner = w,
                   tickets'[l].kind \in FileKinds
            PROVE  j = l
        <5>1. l # i
          BY <1>4, <3>2, <3>3, <4>2
        <5>2. tickets[l].owner = w /\ tickets[l].kind \in FileKinds
          BY <1>4, <4>2, <5>1 DEF Quietly
        <5> QED
          BY <1>2, <4>1, <5>2 DEF Account
      <4> QED
        BY <4>2
    <3>4. pc'[w] \in {"ending", "leased"}
          /\ pc'[w] \notin Owing \cup Early \cup {"unwinding", "left"}
      BY <1>1 DEF Owing, Early
    <3>5. ASSUME NEW j \in Ticket, tickets'[j].owner = w,
                 tickets'[j].kind \in FileKinds
          PROVE  /\ pc'[w] = "leased" => tickets'[j].kind = "write"
                 /\ \A l \in Ticket :
                       /\ tickets'[l].owner = w
                       /\ tickets'[l].kind \in FileKinds
                       => j = l
      <4>1. CASE j = i
        BY <1>1, <1>4, <3>2, <3>5, <4>1
      <4>2. CASE j # i
        <5>1. k \notin FileKinds
          BY <3>2, <3>5, <4>2
        <5> QED
          BY <1>1, <3>3, <3>5, <4>2, <5>1 DEF FileKinds
      <4> QED
        BY <4>1, <4>2
    <3>6. words'[w] = 0 /\ w \notin terminal' \cup reported'
      BY <1>2
    <3>7. Account(w)'
      BY <3>1, <3>4, <3>5, <3>6 DEF Account, Gone
    <3> QED
      BY <2>2, <3>7
  <2> QED
    BY <2>1, <2>2
<1>6. ASSUME NEW a \in Answerer
      PROVE  Holds(a)'
  <2>1. ASSUME NEW j \in decision[a].on
        PROVE  /\ tickets'[j].kind = "file" /\ tickets'[j].state = "used"
               /\ tickets'[j].owner = tickets[j].owner
               /\ words'[tickets'[j].owner] = 0
               /\ pc'[tickets'[j].owner] \in Gone
    <3>1. /\ j \in Ticket /\ tickets[j].state = "used"
          /\ tickets[j].kind = "file"
          /\ words[tickets[j].owner] = 0 /\ pc[tickets[j].owner] \in Gone
      BY DEF WordsInv, Holds, WordTypes
    <3>2. j # i /\ tickets[j].owner # w
      BY <1>1, <3>1 DEF Fresh, Owing, Gone
    <3>3. tickets[j].owner \in Worker
      BY <3>1 DEF WordsInv, IssuedInv, WordTypes, Book, Record, Owner
    <3>4. Quietly(j)
      BY <1>4, <3>1, <3>2
    <3> QED
      BY <1>2, <1>3, <3>1, <3>2, <3>3, <3>4
      DEF WordTypes, Quietly, OpenStates
  <2> QED
    BY <1>2, <2>1 DEF WordsInv, Holds
<1>7. IssuedInv'
  <2>1. ASSUME NEW j \in Ticket
        PROVE  tickets'[j].state = "unissued" <=>
                  tickets'[j].owner = NoWorker
    BY <1>4, TurnAssumption DEF WordsInv, IssuedInv, Quietly, OpenStates
  <2> QED
    BY <2>1 DEF IssuedInv
<1> QED
  BY <1>5, <1>6, <1>7 DEF WordsInv

LEMMA LeasedKeepsWords ==
    ASSUME WordTypes, WordsInv, NEW w \in Worker, Leased(w)
    PROVE  WordsInv'
<1>0. /\ Account(w) /\ pc[w] = "leased"
      /\ UNCHANGED <<words, terminal, reported, decision>>
  BY DEF WordsInv, Leased, Go
<1>1. CASE Go(w, "leased", "ending") /\ QuietLedger
  <2>1. Owed(w) => Owed(w)'
    BY <1>0, <1>1, OwedStays
  <2>2. ASSUME NEW i \in Ticket, tickets'[i].owner = w,
               tickets'[i].kind \in FileKinds
        PROVE  /\ tickets[i].owner = w
               /\ tickets'[i].kind = tickets[i].kind
               /\ tickets'[i].state \in OpenStates =>
                     tickets[i].state \in OpenStates
    BY <1>1, <2>2 DEF QuietLedger, Quietly, OpenStates
  <2>3. pc'[w] = "ending"
    BY <1>1 DEF Go, WordTypes
  <2>4. Account(w)'
    BY <1>0, <2>1, <2>2, <2>3 DEF Account, Owing, Early, Gone
  <2>5. ByItself(w)
    BY <1>0, <1>1 DEF ByItself, Go, WordTypes
  <2> QED
    BY <1>0, <2>4, <2>5, ByItselfKeepsWords DEF Gone
<1>2. CASE /\ Go(w, "leased", "writing")
           /\ \E i \in Ticket : tickets[i].owner = w /\ Spent(i)
                               /\ tickets[i].kind \in FileKinds
  <2>1. PICK i \in Ticket : /\ tickets[i].owner = w /\ Spent(i)
                            /\ tickets[i].kind \in FileKinds
    BY <1>2
  <2>2. /\ tickets[i].state = "open" /\ tickets'[i].state = "used"
        /\ tickets'[i].owner = w /\ tickets'[i].kind = tickets[i].kind
        /\ \A j \in Ticket \ {i} : Quietly(j)
    BY <2>1 DEF Spent
  <2>3. words[w] = 0 /\ w \notin terminal \cup reported
    BY <1>0, <2>1, <2>2 DEF Account, OpenStates
  <2>4. pc' = [pc EXCEPT ![w] = "writing"] /\ pc'[w] = "writing"
    BY <1>2 DEF Go, WordTypes
  <2>5. ASSUME NEW j \in Ticket, tickets'[j].owner = w,
               tickets'[j].kind \in FileKinds
        PROVE  j = i
    <3>1. tickets[j].owner = w /\ tickets[j].kind \in FileKinds
      BY <2>1, <2>2, <2>5 DEF Quietly
    <3> QED
      BY <1>0, <2>1, <3>1 DEF Account
  <2>6. Account(w)'
    <3>1. \A j \in Ticket :
             tickets'[j].owner = w /\ tickets'[j].kind \in FileKinds =>
                j = i /\ tickets'[j].state \notin OpenStates
      BY <2>2, <2>5 DEF OpenStates
    <3>2. words'[w] = 0 /\ w \notin terminal' \cup reported'
      BY <1>0, <2>3
    <3> QED
      BY <2>4, <3>1, <3>2 DEF Account, Owing, Early, Gone
  <2>7. ASSUME NEW v \in Worker
        PROVE  Account(v)'
    <3>1. CASE v # w
      <4>1. Apart(v)
        BY <1>0, <2>1, <2>2, <2>4, <3>1 DEF Apart, WordTypes, Decided
      <4> QED
        BY <4>1, ApartKeepsAccount DEF WordsInv
    <3> QED
      BY <2>6, <3>1
  <2>8. ASSUME NEW a \in Answerer
        PROVE  Holds(a)'
    <3>1. ASSUME NEW j \in decision[a].on
          PROVE  /\ tickets'[j].kind = "file" /\ tickets'[j].state = "used"
                 /\ words'[tickets'[j].owner] = 0
                 /\ pc'[tickets'[j].owner] \in Gone
      <4>1. /\ j \in Ticket /\ tickets[j].state = "used"
            /\ tickets[j].kind = "file"
            /\ words[tickets[j].owner] = 0 /\ pc[tickets[j].owner] \in Gone
        BY DEF WordsInv, Holds, WordTypes
      <4>2. j # i /\ tickets[j].owner # w
        BY <1>0, <2>2, <4>1 DEF Gone
      <4>3. tickets[j].owner \in Worker
        BY <4>1 DEF WordsInv, IssuedInv, WordTypes, Book, Record, Owner
      <4>4. Quietly(j)
        BY <2>2, <4>1, <4>2
      <4> QED
        BY <1>0, <2>4, <4>1, <4>2, <4>3, <4>4
        DEF WordTypes, Quietly, OpenStates
    <3> QED
      BY <1>0, <3>1 DEF WordsInv, Holds
  <2>9. IssuedInv'
    BY <2>1, <2>2, TurnAssumption DEF WordsInv, IssuedInv, Quietly, OpenStates
  <2> QED
    BY <2>7, <2>8, <2>9 DEF WordsInv
<1> QED
  BY <1>1, <1>2 DEF Leased

LEMMA TurnKeepsWords ==
    ASSUME Typed, WordsInv, NEW w \in Worker, Turn(w)
    PROVE  WordsInv'
  BY TypedWords, TurnIsOfAKind, GoesOnKeepsWords, SaysLastKeepsWords,
     ReportsKeepsWords, LeavesKeepsWords, AskedKeepsWords, LeasedKeepsWords
  DEF Kinds

\* A step of nobody's that leaves the ledger quiet, and who decides what.
LEMMA QuietKeepsWords ==
    ASSUME WordTypes, WordsInv, QuietLedger,
           UNCHANGED <<pc, words, terminal, reported>>,
           \A a \in Answerer : /\ decision'[a].on = decision[a].on
                               /\ decision'[a].at \in {"idle", "taking"} =>
                                     decision'[a].on = {}
    PROVE  WordsInv'
<1>1. ASSUME NEW v \in Worker
      PROVE  Account(v)'
  <2>1. Apart(v)
    BY DEF Apart, QuietLedger, Decided
  <2> QED
    BY <2>1, ApartKeepsAccount DEF WordsInv
<1>2. ASSUME NEW a \in Answerer
      PROVE  Holds(a)'
  <2>1. ASSUME NEW i \in decision[a].on
        PROVE  /\ tickets'[i].kind = "file" /\ tickets'[i].state = "used"
               /\ tickets'[i].owner = tickets[i].owner
    <3>1. i \in Ticket /\ Quietly(i)
      BY DEF WordTypes, QuietLedger
    <3> QED
      BY <3>1 DEF WordsInv, Holds, Quietly, OpenStates
  <2> QED
    BY <2>1 DEF WordsInv, Holds
<1> QED
  BY <1>1, <1>2, QuietKeepsIssued DEF WordsInv

\* A decision takes over the word of the identity it takes.
LEMMA TakeKeepsWords ==
    ASSUME WordTypes, WordsInv, NEW a \in Answerer, NEW i \in Ticket,
           Spent(i), tickets[i].kind = "file", decision[a].at = "taking",
           NEW at \in {"approved", "telling"},
           decision' = [decision EXCEPT ![a] = [at |-> at, on |-> {i}]],
           UNCHANGED <<pc, words, terminal, reported>>
    PROVE  WordsInv'
<1>1. PICK w \in Worker : w = tickets[i].owner
  BY DEF Spent, WordsInv, IssuedInv, WordTypes, Book, Record, Owner
<1>2. /\ tickets[i].state = "open" /\ tickets'[i].state = "used"
      /\ tickets'[i].owner = w /\ tickets'[i].kind = "file"
      /\ \A j \in Ticket \ {i} : Quietly(j)
      /\ tickets' \in Book
  BY <1>1 DEF Spent
<1>3. Account(w)
  BY DEF WordsInv
<1>4. words[w] = 0 /\ pc[w] \in Gone
  BY <1>1, <1>2, <1>3 DEF Account, OpenStates, FileKinds
<1>5. /\ decision[a].on = {}
      /\ decision'[a] = [at |-> at, on |-> {i}]
      /\ \A b \in Answerer \ {a} : decision'[b] = decision[b]
  BY DEF WordsInv, Holds, WordTypes
<1>6. ASSUME NEW v \in Worker
      PROVE  Account(v)'
  <2>1. CASE v # w
    <3>1. \A j \in Ticket :
             tickets[j].owner = v => (Decided(j)' <=> Decided(j))
      BY <1>1, <1>5, <2>1 DEF Decided
    <3>2. Apart(v)
      BY <1>1, <1>2, <2>1, <3>1 DEF Apart
    <3> QED
      BY <3>2, ApartKeepsAccount DEF WordsInv
  <2>2. CASE v = w
    <3>1. Owed(w)'
      BY <1>2, <1>5 DEF Owed, Decided
    <3>2. ASSUME NEW j \in Ticket, tickets'[j].owner = w,
                 tickets'[j].kind \in FileKinds
          PROVE  j = i
      <4>1. tickets[j].owner = w /\ tickets[j].kind \in FileKinds
        BY <1>1, <1>2, <3>2 DEF Quietly, FileKinds
      <4> QED
        BY <1>1, <1>3, <4>1 DEF Account, FileKinds
    <3>3. \A j \in Ticket :
             tickets'[j].owner = w /\ tickets'[j].kind \in FileKinds =>
                j = i /\ tickets'[j].state \notin OpenStates
      BY <1>2, <3>2 DEF OpenStates
    <3>4. pc'[w] \in Gone /\ words'[w] = 0
          /\ pc'[w] \notin Early \cup {"leased"}
      BY <1>4 DEF Gone, Early
    <3>5. Account(w)'
      BY <1>3, <3>1, <3>3, <3>4 DEF Account
    <3> QED
      BY <2>2, <3>5
  <2> QED
    BY <2>1, <2>2
<1>7. ASSUME NEW b \in Answerer
      PROVE  Holds(b)'
  <2>1. \A c \in Answerer : i \notin decision[c].on
    BY <1>2 DEF WordsInv, Holds
  <2>2. CASE b = a
    BY <1>2, <1>4, <1>5, <2>1, <2>2 DEF Holds
  <2>3. CASE b # a
    <3>1. ASSUME NEW j \in decision[b].on
          PROVE  /\ j # i
                 /\ tickets'[j].kind = "file" /\ tickets'[j].state = "used"
                 /\ tickets'[j].owner = tickets[j].owner
      <4>1. /\ j \in Ticket /\ tickets[j].state = "used" /\ j # i
            /\ tickets[j].kind = "file"
        BY <2>1 DEF WordsInv, Holds, WordTypes
      <4> QED
        BY <1>2, <4>1 DEF Quietly, OpenStates
    <3>2. \A j \in decision[b].on : j \notin decision'[a].on
      BY <1>5, <3>1
    <3> QED
      BY <1>5, <2>3, <3>1, <3>2 DEF WordsInv, Holds
  <2> QED
    BY <2>2, <2>3
<1>8. IssuedInv'
  BY <1>1, <1>2, TurnAssumption DEF WordsInv, IssuedInv, Quietly, OpenStates
<1> QED
  BY <1>6, <1>7, <1>8 DEF WordsInv

\* Who tells what became of it says the word, and lets the identity go.
LEMMA TellKeepsWords ==
    ASSUME Typed, WordsInv, NEW a \in Answerer, TellDecision(a)
    PROVE  WordsInv'
<1>0. WordTypes
  BY TypedWords
<1>1. /\ decision[a].at = "telling"
      /\ decision' = [decision EXCEPT ![a] = [at |-> "idle", on |-> {}]]
      /\ UNCHANGED <<tickets, pc, terminal, reported>>
  BY DEF TellDecision, Decides, ledger, lifecycle
<1>2. PICK i \in decision[a].on : LastWord(tickets[i].owner)
  BY DEF TellDecision
<1>3. /\ i \in Ticket /\ decision[a].on = {i}
      /\ tickets[i].kind = "file" /\ tickets[i].state = "used"
      /\ words[tickets[i].owner] = 0 /\ pc[tickets[i].owner] \in Gone
      /\ \A b \in Answerer : i \in decision[b].on => a = b
  BY <1>0, <1>2 DEF WordsInv, Holds, WordTypes
<1>4. PICK w \in Worker : w = tickets[i].owner
  BY <1>0, <1>3 DEF WordsInv, IssuedInv, WordTypes, Book, Record, Owner
<1>5. /\ Account(w) /\ words[w] = 0 /\ pc[w] \in Gone
      /\ words' = [words EXCEPT ![w] = 1]
  BY <1>0, <1>2, <1>3, <1>4 DEF WordsInv, LastWord, WordTypes
<1>6. /\ decision'[a] = [at |-> "idle", on |-> {}]
      /\ \A b \in Answerer \ {a} : decision'[b] = decision[b]
  BY <1>0, <1>1 DEF WordTypes
<1>7. \A j \in Ticket : Quietly(j)
  BY <1>1 DEF Quietly
<1>8. ASSUME NEW v \in Worker
      PROVE  Account(v)'
  <2>1. CASE v # w
    <3>1. \A j \in Ticket :
             tickets[j].owner = v => (Decided(j)' <=> Decided(j))
      BY <1>3, <1>4, <1>6, <2>1 DEF Decided
    <3>2. Apart(v)
      BY <1>0, <1>1, <1>5, <1>7, <2>1, <3>1 DEF Apart, WordTypes
    <3> QED
      BY <3>2, ApartKeepsAccount DEF WordsInv
  <2>2. CASE v = w
    <3>1. ASSUME NEW j \in Ticket, tickets[j].owner = w,
                 tickets[j].kind \in FileKinds
          PROVE  j = i /\ tickets[j].state \notin OpenStates
      <4>1. j = i
        BY <1>3, <1>4, <1>5, <3>1 DEF Account, FileKinds
      <4> QED
        BY <1>3, <4>1 DEF OpenStates
    <3>2. words'[w] = 1
      BY <1>0, <1>5 DEF WordTypes
    <3>3. pc[w] \notin Owing \cup Early \cup {"unwinding", "left", "leased"}
      BY <1>5 DEF Gone, Owing, Early
    <3>4. Account(w)'
      BY <1>1, <1>5, <3>1, <3>2, <3>3 DEF Account
    <3> QED
      BY <2>2, <3>4
  <2> QED
    BY <2>1, <2>2
<1>9. ASSUME NEW b \in Answerer
      PROVE  Holds(b)'
  <2>1. CASE b = a
    BY <1>6, <2>1 DEF Holds
  <2>2. CASE b # a
    <3>1. ASSUME NEW j \in decision[b].on
          PROVE  /\ words'[tickets[j].owner] = 0
                 /\ j \notin decision'[a].on
      <4>1. /\ j \in Ticket /\ tickets[j].kind = "file" /\ j # i
            /\ words[tickets[j].owner] = 0
        BY <1>0, <1>3, <2>2 DEF WordsInv, Holds, WordTypes
      <4>2. tickets[j].owner # w
        BY <1>3, <1>4, <1>5, <4>1 DEF Account, FileKinds
      <4> QED
        BY <1>0, <1>5, <1>6, <4>1, <4>2 DEF WordTypes
    <3> QED
      BY <1>1, <1>6, <2>2, <3>1 DEF WordsInv, Holds
  <2> QED
    BY <2>1, <2>2
<1> QED
  BY <1>1, <1>8, <1>9 DEF WordsInv, IssuedInv

LEMMA DecisionKeepsWords ==
    ASSUME Typed, WordsInv, NEW a \in Answerer, Decision(a)
    PROVE  WordsInv'
<1>0. WordTypes /\ tickets \in Book
  BY TypedWords DEF WordTypes
<1>1. decision[a].at \in {"idle", "taking"} => decision[a].on = {}
  BY DEF WordsInv, Holds
<1>2. ASSUME QuietLedger, UNCHANGED <<pc, words, terminal, reported>>,
             NEW at, decision' = [decision EXCEPT ![a] =
                                     [at |-> at, on |-> decision[a].on]],
             at \in {"idle", "taking"} => decision[a].on = {}
      PROVE  WordsInv'
  <2>1. \A b \in Answerer : /\ decision'[b].on = decision[b].on
                            /\ decision'[b].at \in {"idle", "taking"} =>
                                  decision'[b].on = {}
    BY <1>0, <1>2 DEF WordTypes, WordsInv, Holds
  <2> QED
    BY <1>0, <1>2, <2>1, QuietKeepsWords
<1>3. CASE ReadDecision(a) \/ CarryOut(a) \/ GrantLease(a)
  <2>1. QuietLedger /\ UNCHANGED <<pc, words, terminal, reported>>
    BY <1>0, <1>3, SameIsQuiet
    DEF ReadDecision, CarryOut, GrantLease, ledger, lifecycle, told
  <2>2. CASE ReadDecision(a)
    <3>1. /\ decision' = [decision EXCEPT ![a] =
                             [at |-> "taking", on |-> decision[a].on]]
          /\ decision[a].on = {}
      BY <1>1, <2>2 DEF ReadDecision, Decides
    <3> QED
      BY <1>2, <2>1, <3>1
  <2>3. CASE CarryOut(a) \/ GrantLease(a)
    <3>1. \E at \in {"granting", "telling"} :
             decision' = [decision EXCEPT ![a] =
                             [at |-> at, on |-> decision[a].on]]
      BY <2>3 DEF CarryOut, GrantLease, Decides
    <3> QED
      BY <1>2, <2>1, <3>1
  <2> QED
    BY <1>3, <2>2, <2>3
<1>4. CASE TakeDecision(a)
  <2>1. /\ UNCHANGED <<pc, words, terminal, reported>>
        /\ decision[a].at = "taking"
    BY <1>4 DEF TakeDecision, Decides, lifecycle
  <2>2. PICK i \in Ticket :
           /\ Shown(i)
           /\ \/ /\ Take(i, FileKinds)
                 /\ \E at \in {"approved", "telling"} :
                       decision' = [decision EXCEPT ![a] =
                                       [at |-> at, on |-> {i}]]
              \/ /\ Refuse(i, FileKinds)
                 /\ decision' = [decision EXCEPT ![a] =
                                    [at |-> "idle", on |-> {}]]
    BY <1>4 DEF TakeDecision, Decides
  <2>3. CASE Take(i, FileKinds)
             /\ \E at \in {"approved", "telling"} :
                   decision' = [decision EXCEPT ![a] =
                                   [at |-> at, on |-> {i}]]
    <3>1. Spent(i) /\ tickets[i].kind = "file"
      BY <1>0, <2>2, <2>3, TakingSpends DEF Shown, FileKinds
    <3> QED
      BY <1>0, <2>1, <2>3, <3>1, TakeKeepsWords
  <2>4. CASE Refuse(i, FileKinds)
             /\ decision' = [decision EXCEPT ![a] = [at |-> "idle", on |-> {}]]
    <3>1. QuietLedger
      BY <1>0, <2>4, RefusingIsQuiet
    <3> QED
      BY <1>1, <1>2, <2>1, <2>4, <3>1
  <2> QED
    BY <2>2, <2>3, <2>4
<1>5. CASE TellDecision(a)
  BY <1>5, TellKeepsWords
<1> QED
  BY <1>3, <1>4, <1>5 DEF Decision

\* The command answers the requests whose prompts it takes back.
LEMMA DiscardKeepsWords ==
    ASSUME Typed, WordsInv, DiscardFiles
    PROVE  WordsInv'
<1>0. WordTypes /\ tickets \in Book
  BY TypedWords DEF WordTypes
<1>1. /\ Discarded
      /\ UNCHANGED <<pc, terminal, reported, decision>>
  BY <1>0, DiscardFilesDiscards DEF DiscardFiles, NextCall, lifecycle, threads
<1> DEFINE open(v) == {i \in OpenIn(tickets, FileKinds) :
                          tickets[i].owner = v}
<1>2. \A v \in Worker : words'[v] = words[v] + Cardinality(open(v))
  BY DEF DiscardFiles
<1>3. ASSUME NEW v \in Worker, NEW i \in Ticket, tickets[i].owner = v,
             tickets[i].kind \in FileKinds, tickets[i].state \in OpenStates
      PROVE  words[v] = 0 /\ words'[v] = 1 /\ pc[v] \in Gone \cup {"leased"}
  <2>1. open(v) = {i}
    BY <1>3 DEF WordsInv, Account, OpenIn
  <2>2. Cardinality(open(v)) = 1
    BY <2>1, FS_Singleton
  <2> QED
    BY <1>2, <1>3, <2>2 DEF WordsInv, Account
<1>4. ASSUME NEW v \in Worker,
             \A i \in Ticket : tickets[i].owner = v
                               /\ tickets[i].kind \in FileKinds =>
                                  tickets[i].state \notin OpenStates
      PROVE  words'[v] = words[v]
  <2>1. open(v) = {}
    BY <1>4 DEF OpenIn
  <2>2. Cardinality(open(v)) = 0
    BY <2>1, FS_EmptySet
  <2> QED
    BY <1>0, <1>2, <2>2 DEF WordTypes
<1> HIDE DEF open
<1>5. \A i \in Ticket : /\ tickets'[i].kind = tickets[i].kind
                        /\ tickets'[i].owner = tickets[i].owner
                        /\ tickets[i].kind \in FileKinds =>
                              tickets'[i].state \notin OpenStates
                        /\ \/ tickets[i].kind \in FileKinds
                              /\ tickets[i].state \in OpenStates
                           \/ tickets'[i].state = tickets[i].state
  BY <1>1 DEF Discarded, OpenStates
<1>6. ASSUME NEW v \in Worker
      PROVE  Account(v)'
  <2>1. CASE \E i \in Ticket : /\ tickets[i].owner = v
                               /\ tickets[i].kind \in FileKinds
                               /\ tickets[i].state \in OpenStates
    <3>1. words[v] = 0 /\ words'[v] = 1 /\ pc[v] \in Gone \cup {"leased"}
      BY <1>3, <2>1
    <3>2. pc[v] \notin Owing \cup {"unwinding", "left"}
      BY <3>1 DEF Gone, Owing
    <3> QED
      BY <1>1, <1>5, <3>1, <3>2 DEF WordsInv, Account
  <2>2. CASE \A i \in Ticket : tickets[i].owner = v
                               /\ tickets[i].kind \in FileKinds =>
                                  tickets[i].state \notin OpenStates
    <3>1. words'[v] = words[v]
      BY <1>4, <2>2
    <3>2. Owed(v) => Owed(v)'
      <4>1. \A i \in Ticket : tickets[i].owner = v =>
               tickets'[i].state = tickets[i].state
        BY <1>5, <2>2
      <4>2. \A i \in Ticket : Decided(i)' <=> Decided(i)
        BY <1>1 DEF Decided
      <4> QED
        BY <1>5, <4>1, <4>2 DEF Owed
    <3> QED
      BY <1>1, <1>5, <3>1, <3>2 DEF WordsInv, Account
  <2> QED
    BY <2>1, <2>2
<1>7. ASSUME NEW a \in Answerer
      PROVE  Holds(a)'
  <2>1. ASSUME NEW i \in decision[a].on
        PROVE  /\ tickets'[i].kind = "file" /\ tickets'[i].state = "used"
               /\ tickets'[i].owner = tickets[i].owner
               /\ words'[tickets[i].owner] = 0
    <3>1. /\ i \in Ticket /\ tickets[i].kind = "file"
          /\ tickets[i].state = "used" /\ words[tickets[i].owner] = 0
      BY <1>0 DEF WordsInv, Holds, WordTypes
    <3>2. PICK v \in Worker : v = tickets[i].owner
      BY <1>0, <3>1 DEF WordsInv, IssuedInv, WordTypes, Book, Record, Owner
    <3>3. \A j \in Ticket : tickets[j].owner = v
                            /\ tickets[j].kind \in FileKinds =>
                               tickets[j].state \notin OpenStates
      BY <3>1, <3>2 DEF WordsInv, Account, FileKinds, OpenStates
    <3>4. words'[v] = 0
      BY <1>4, <3>1, <3>2, <3>3
    <3> QED
      BY <1>5, <3>1, <3>2, <3>4 DEF OpenStates
  <2> QED
    BY <1>1, <2>1 DEF WordsInv, Holds
<1>8. IssuedInv'
  BY <1>1 DEF Discarded, WordsInv, IssuedInv, OpenStates
<1> QED
  BY <1>6, <1>7, <1>8 DEF WordsInv

LEMMA NextKeepsWords ==
    ASSUME Typed, WordsInv, [Next]_vars
    PROVE  WordsInv'
<1>0. WordTypes /\ tickets \in Book
  BY TypedWords DEF WordTypes
<1>1. ASSUME QuietLedger, UNCHANGED <<pc, decision, words, terminal, reported>>
      PROVE  WordsInv'
  <2>1. \A a \in Answerer : /\ decision'[a].on = decision[a].on
                            /\ decision'[a].at \in {"idle", "taking"} =>
                                  decision'[a].on = {}
    BY <1>1 DEF WordsInv, Holds
  <2> QED
    BY <1>0, <1>1, <2>1, QuietKeepsWords
<1>2. ASSUME NEW c, StartCommand(c)
      PROVE  WordsInv'
  <2>1. QuietLedger
    BY <1>0, <1>2, SameIsQuiet DEF StartCommand, ledger
  <2> QED
    BY <1>1, <1>2, <2>1 DEF StartCommand, StartTransition, threads, told
<1>3. CASE SetPaused \/ CancelActions \/ FinishCommand \/ UNCHANGED vars
  <2>1. QuietLedger
    BY <1>0, <1>3, SameIsQuiet
    DEF SetPaused, CancelActions, FinishCommand, vars, ledger
  <2>2. UNCHANGED <<pc, decision, words, terminal, reported>>
    BY <1>3
    DEF SetPaused, CancelActions, FinishCommand, EndTransition, NextCall,
        vars, lifecycle, threads, told
  <2> QED
    BY <1>1, <2>1, <2>2
<1>4. CASE DiscardScreens
  <2>1. QuietLedger
    BY <1>0, <1>4, DiscardScreensIsQuiet
  <2> QED
    BY <1>1, <1>4, <2>1 DEF DiscardScreens, NextCall, lifecycle, threads
<1>5. CASE SealLedger
  <2>1. QuietLedger
    BY <1>0, <1>5, SealIsQuiet DEF SealLedger
  <2> QED
    BY <1>1, <1>5, <2>1 DEF SealLedger, NextCall, lifecycle, threads
<1>6. CASE Expire
  <2>1. QuietLedger
    BY <1>0, <1>6, TimeIsQuiet, SameIsQuiet DEF Expire, ledger
  <2> QED
    BY <1>1, <1>6, <2>1 DEF Expire, lifecycle, threads, told
<1> QED
  BY <1>2, <1>3, <1>4, <1>5, <1>6, TurnKeepsWords, DecisionKeepsWords,
     DiscardKeepsWords DEF Next, Command

LEMMA InitWords == Init => WordsInv
<1> SUFFICES ASSUME Init
             PROVE  WordsInv
  OBVIOUS
<1>1. IssuedInv
  BY DEF Init, LedgerInit, IssuedInv
<1>2. ASSUME NEW w \in Worker
      PROVE  Account(w)
  <2>1. \A i \in Ticket : tickets[i].owner # w
    BY TurnAssumption DEF Init, LedgerInit
  <2> QED
    BY <2>1 DEF Init, LifecycleInit, Account, Gone
<1>3. \A a \in Answerer : Holds(a)
  BY DEF Init, Holds
<1> QED
  BY <1>1, <1>2, <1>3 DEF WordsInv

LEMMA AlwaysWords == Spec => []WordsInv
<1>1. Typed /\ WordsInv /\ [Next]_vars => WordsInv'
  BY NextKeepsWords
<1> QED
  BY <1>1, InitWords, AlwaysTyped, PTL DEF Spec

\* A request hears one last word at most, whoever of the turn, the handlers of
\* its cancellation, the thread of a decision and the command says it.
THEOREM OneLastWordCorrect == Spec => []OneLastWord
<1>1. WordsInv => OneLastWord
  BY DEF WordsInv, Account, OneLastWord
<1> QED
  BY <1>1, AlwaysWords, PTL

\* A turn that ended without a last word left a prompt behind it for somebody
\* to settle.
THEOREM OwedAWordCorrect == Spec => []OwedAWord
<1>1. WordsInv => OwedAWord
  BY DEF WordsInv, Account, Owed, Decided, Gone, OwedAWord
<1> QED
  BY <1>1, AlwaysWords, PTL

-----------------------------------------------------------------------------
(* An identity is honoured once. *)

\* What has not been settled has not been taken.
Untaken ==
    \A i \in Ticket :
        tickets[i].state \in OpenStates \cup {"unissued"} => takes[i] = 0

\* What a step does to the ledger, and who took what.
Taking ==
    \/ /\ UNCHANGED takes
       /\ \/ QuietLedger \/ Discarded
          \/ \E i \in Ticket, k \in Kind, w \in Worker : Fresh(i, k, w)
    \/ \E i \in Ticket : Spent(i) /\ Took(i)

LEMMA TurnTakes ==
    ASSUME Typed, WordsInv, NEW w \in Worker, Turn(w)
    PROVE  Taking
<1>0. tickets \in Book
  BY DEF Typed
<1>1. CASE AnswerPrompt(w)
  BY <1>0, <1>1, TakingSpends, RefusingIsQuiet DEF AnswerPrompt, Taking
<1>2. CASE ResolveLeased(w)
  BY <1>0, <1>2, TakingSpends, RefusingIsQuiet, SameIsQuiet
  DEF ResolveLeased, Taking, ledger
<1>3. CASE ~AnswerPrompt(w) /\ ~ResolveLeased(w)
  <2>1. takes' = takes
    BY <1>3
    DEF Turn, BeginTurn, Count, MarkStart, Interrupted, Answer, Speak,
        Outcome, ClearBusy, ReportCancelled, LeaveIll, ReportAgain, LeaveTurn,
        EndThread, BeginAction, Register, Checkpoint, EndComputerAction,
        ToldStopped, BeginFileAction, Prepared, ReadLease, IssueFile,
        IssueFails, WriteFile, BeginPrompt, IssueScreen, IssuePaint, told
  <2>2. Kinds(w)
    BY TurnIsOfAKind
  <2>3. CASE Leased(w)
    <3>0. pc \in [Worker -> Places]
      BY TypedWords DEF WordTypes
    <3>1. Go(w, "leased", "ending") => Taking
      BY <2>1, <2>3, <3>0 DEF Leased, Go, Taking
    <3>2. ~Go(w, "leased", "writing")
      BY <1>3
      DEF Turn, BeginTurn, Count, MarkStart, Interrupted, Answer, Speak,
          Outcome, ClearBusy, ReportCancelled, LeaveIll, ReportAgain,
          LeaveTurn, BeginAction, Register, Checkpoint, EndComputerAction,
          ToldStopped, BeginFileAction, Prepared, ReadLease, IssueFile,
          IssueFails, WriteFile, BeginPrompt, IssueScreen, IssuePaint, Go
    <3> QED
      BY <2>3, <3>1, <3>2 DEF Leased
  <2>4. CASE Asked(w)
    <3>1. "file" \in Kind /\ "write" \in Kind /\ ScreenKinds \subseteq Kind
      BY TurnAssumption DEF FileKinds
    <3> QED
      BY <2>1, <2>4, <3>1 DEF Asked, Taking
  <2> QED
    BY <2>1, <2>2, <2>3, <2>4
    DEF Kinds, GoesOn, SaysLast, Reports, Leaves, Taking
<1> QED
  BY <1>1, <1>2, <1>3

LEMMA NextTakes ==
    ASSUME Typed, WordsInv, [Next]_vars
    PROVE  Taking
<1>0. tickets \in Book
  BY DEF Typed
<1>1. ASSUME NEW a \in Answerer, Decision(a)
      PROVE  Taking
  <2>1. CASE TakeDecision(a)
    BY <1>0, <2>1, TakingSpends, RefusingIsQuiet DEF TakeDecision, Taking
  <2>2. CASE ReadDecision(a) \/ CarryOut(a) \/ GrantLease(a) \/ TellDecision(a)
    BY <1>0, <2>2, SameIsQuiet
    DEF ReadDecision, CarryOut, GrantLease, TellDecision, ledger, told, Taking
  <2> QED
    BY <1>1, <2>1, <2>2 DEF Decision
<1>2. ASSUME NEW c, StartCommand(c)
      PROVE  Taking
  BY <1>0, <1>2, SameIsQuiet DEF StartCommand, ledger, told, Taking
<1>3. CASE Command
  <2>1. takes' = takes
    BY <1>3
    DEF Command, SetPaused, CancelActions, DiscardScreens, DiscardFiles,
        SealLedger, FinishCommand, NextCall, told
  <2>2. CASE DiscardScreens \/ DiscardFiles \/ SealLedger
    BY <1>0, <2>1, <2>2, DiscardScreensIsQuiet, DiscardFilesDiscards,
       SealIsQuiet DEF SealLedger, Taking
  <2>3. CASE SetPaused \/ CancelActions \/ FinishCommand
    BY <1>0, <2>1, <2>3, SameIsQuiet
    DEF SetPaused, CancelActions, FinishCommand, ledger, Taking
  <2> QED
    BY <1>3, <2>2, <2>3 DEF Command
<1>4. CASE Expire \/ UNCHANGED vars
  BY <1>0, <1>4, TimeIsQuiet, SameIsQuiet
  DEF Expire, vars, ledger, told, Taking
<1> QED
  BY <1>1, <1>2, <1>3, <1>4, TurnTakes DEF Next

LEMMA TakingKeepsUntaken ==
    ASSUME Typed, Untaken, Taking
    PROVE  /\ Untaken'
           /\ \A i \in Ticket : takes'[i] # takes[i] =>
                 takes'[i] = 1 /\ tickets[i].state = "open"
<1>0. takes \in [Ticket -> Nat]
  BY DEF Typed, OtherTyped, MarksTyped
<1>1. CASE UNCHANGED takes /\ (QuietLedger \/ Discarded)
  BY <1>1 DEF Untaken, QuietLedger, Quietly, Discarded, OpenStates
<1>2. CASE /\ UNCHANGED takes
           /\ \E i \in Ticket, k \in Kind, w \in Worker : Fresh(i, k, w)
  BY <1>2 DEF Untaken, Fresh, Quietly, OpenStates
<1>3. ASSUME NEW i \in Ticket, Spent(i), Took(i)
      PROVE  /\ Untaken'
             /\ \A j \in Ticket : takes'[j] # takes[j] =>
                   takes'[j] = 1 /\ tickets[j].state = "open"
  BY <1>0, <1>3 DEF Untaken, Spent, Took, Quietly, OpenStates
<1> QED
  BY <1>1, <1>2, <1>3 DEF Taking

\* An identity is honoured once, and only while it is open and in time,
\* whatever comes between its issue and the answer (ApprovalLedger.take).
THEOREM HonouredOnceCorrect == Spec => HonouredOnce
<1>1. Init => Untaken
  BY DEF Init, LedgerInit, Untaken
<1>2. Typed /\ WordsInv /\ Untaken /\ [Next]_vars => Untaken'
  BY NextTakes, TakingKeepsUntaken
<1>3. Typed /\ WordsInv /\ Untaken /\ [Next]_vars =>
         [\A i \in Ticket : takes'[i] # takes[i] =>
             takes'[i] = 1 /\ tickets[i].state = "open"]_vars
  BY NextTakes, TakingKeepsUntaken
<1> QED
  BY <1>1, <1>2, <1>3, AlwaysTyped, AlwaysWords, PTL DEF Spec, HonouredOnce
=============================================================================
