---------------------------- MODULE PairingService ----------------------------
(***************************************************************************)
(* The one pairing window: core/link_pairing.py.  The service has no lock: *)
(* the person's thread opens and cancels, the accept loop closes a window  *)
(* that ran out, and the thread of a connection completes a pairing, each  *)
(* reading the window, then the registry, then changing either.            *)
(***************************************************************************)
EXTENDS LinkDevices

VARIABLES
    window,         \* PairingService._window
    overwritten     \* devices whose open window another's completion replaced

pairing == <<window, overwritten>>

NoWindow == [dev |-> NoDevice, used |-> FALSE, late |-> FALSE]

PairingInit ==
    /\ window = NoWindow
    /\ overwritten = {}

PairingTypeOK ==
    /\ window \in [dev : Device \cup {NoDevice}, used : BOOLEAN,
                   late : BOOLEAN]
    /\ overwritten \subseteq Device

\* expire_if_due: whether the window is to be closed.
Due == window.dev # NoDevice /\ ~window.used /\ window.late

\* complete, up to the registry.
Completes(d) == window.dev = d /\ ~window.used /\ ~window.late

\* The window's time runs out.
WindowEnds ==
    /\ window.dev # NoDevice /\ ~window.used /\ ~window.late
    /\ window' = [window EXCEPT !.late = TRUE]
    /\ UNCHANGED overwritten

\* cancel: the window is forgotten before its device is.
CloseWindow ==
    /\ window' = NoWindow
    /\ UNCHANGED overwritten

\* open: the new device's window.
ShowWindow(d) ==
    /\ window' = [dev |-> d, used |-> FALSE, late |-> FALSE]
    /\ UNCHANGED overwritten

\* complete, at its end: the window is marked used, whatever window there is
\* by then.
MarkUsed(d) ==
    /\ window' = [dev |-> d, used |-> TRUE, late |-> FALSE]
    /\ overwritten' = IF window.dev \notin {d, NoDevice} /\ ~window.used
                      THEN overwritten \cup {window.dev} ELSE overwritten
=============================================================================
