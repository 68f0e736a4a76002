-------------------------- MODULE ActionCancellation --------------------------
(***************************************************************************)
(* Cooperative cancellation of user-visible computer actions:              *)
(* core/action_cancellation.py.  begin() asks whether the turn was stopped *)
(* under the registry's lock, lets it go, and takes it again to register;  *)
(* cancel_all() advances the epoch and takes a snapshot under the lock and *)
(* cancels the snapshot's tokens after it.  Reasons are left out.          *)
(***************************************************************************)
EXTENDS Integers

CONSTANT Unmarked    \* the epoch of a thread that marked no turn

VARIABLES
    epoch,          \* ActiveActionRegistry._epoch
    barred,         \* ActiveActionRegistry._closed
    turnEpoch,      \* the epoch each thread's turn marked, or Unmarked
    action,         \* each thread's action: "none", "checked", "registered"
    aborted,        \* threads whose action's token is cancelled
    victims         \* the snapshot of a cancel_all in progress

registry == <<epoch, barred, turnEpoch, action, aborted, victims>>

RegistryInit(Threads) ==
    /\ epoch = 0
    /\ barred = FALSE
    /\ turnEpoch = [w \in Threads |-> Unmarked]
    /\ action = [w \in Threads |-> "none"]
    /\ aborted = {}
    /\ victims = {}

RegistryTypeOK(Threads) ==
    /\ epoch \in Nat
    /\ barred \in BOOLEAN
    /\ turnEpoch \in [Threads -> Nat \cup {Unmarked}]
    /\ action \in [Threads -> {"none", "checked", "registered"}]
    /\ aborted \subseteq Threads
    /\ victims \subseteq Threads

\* mark_turn_start.
Mark(w) ==
    /\ turnEpoch' = [turnEpoch EXCEPT ![w] = epoch]
    /\ UNCHANGED <<epoch, barred, action, aborted, victims>>

\* Mutant: a thread asks about the whole process, not about its own turn.
StoppedEver(w) == barred \/ epoch # 0

\* stopped_since_turn_start.
Stopped(w) == barred \/ turnEpoch[w] \notin {Unmarked, epoch}

\* begin, up to the registration: the token is born cancelled or not.
CheckAction(w) ==
    /\ action' = [action EXCEPT ![w] = "checked"]
    /\ aborted' = IF Stopped(w) THEN aborted \cup {w} ELSE aborted \ {w}
    /\ UNCHANGED <<epoch, barred, turnEpoch, victims>>

RegisterAction(w) ==
    /\ action[w] = "checked"
    /\ action' = [action EXCEPT ![w] = "registered"]
    /\ UNCHANGED <<epoch, barred, turnEpoch, aborted, victims>>

\* The end of begin's scope.
EndAction(w) ==
    /\ action' = [action EXCEPT ![w] = "none"]
    /\ UNCHANGED <<epoch, barred, turnEpoch, aborted, victims>>

\* The mark is local to the thread.
DropThread(w) ==
    /\ turnEpoch' = [turnEpoch EXCEPT ![w] = Unmarked]
    /\ aborted' = aborted \ {w}
    /\ UNCHANGED <<epoch, barred, action, victims>>

Registered == {w \in DOMAIN action : action[w] = "registered"}

\* cancel_all, under the lock.
AdvanceEpoch ==
    /\ epoch' = epoch + 1
    /\ victims' = Registered
    /\ UNCHANGED <<barred, turnEpoch, action, aborted>>

\* cancel_all, after it.
CancelVictims ==
    /\ aborted' = aborted \cup victims
    /\ victims' = {}
    /\ UNCHANGED <<epoch, barred, turnEpoch, action>>

\* close, with the first half of its cancel_all: who asks in between is told
\* the same.
Bar ==
    /\ barred' = TRUE
    /\ epoch' = epoch + 1
    /\ victims' = Registered
    /\ UNCHANGED <<turnEpoch, action, aborted>>
=============================================================================
