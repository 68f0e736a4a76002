--------------------------- MODULE ResourceGovernor ---------------------------
(***************************************************************************)
(* core/resource_governor.py: who holds a claim on the machine.            *)
(*                                                                         *)
(* A reservation is its remaining lease, counted in units of time; 0 is no *)
(* reservation.  An expired reservation and a missing one are the same     *)
(* thing because every method that looks drops the expired ones first.     *)
(* The media host (qronos_media/model_authority.py) shares the governor    *)
(* and holds its heavy claim `managed`: the clock never frees it.          *)
(***************************************************************************)
EXTENDS SafeQueue

CONSTANTS
    Media,          \* the media host as an owner of a heavy claim
    LeaseTicks      \* lease_seconds, in units of time

\* A task is submitted at some moment inside a unit of time and renewed once
\* in each: a lease of one unit could run out before the first renewal.
ASSUME LeaseAssumption ==
    /\ Media \notin Tasks
    /\ LeaseTicks \in Nat /\ LeaseTicks >= 2

VARIABLE lease      \* _reservations: units of time left, 0 for none

Owners == Tasks \cup {Media}
IsHeavy(o) == o \in Heavy \/ o = Media

\* heavy_owner() is not None
HeavyOwned == \E o \in Owners : IsHeavy(o) /\ lease[o] > 0

\* request(): heavy work is refused while any heavy reservation is live (the
\* requester's own included) and while the user asked for performance.
Granted(o, performanceMode) == IsHeavy(o) => ~HeavyOwned /\ ~performanceMode

Reserved(o) == [lease EXCEPT ![o] = LeaseTicks]
Released(o) == [lease EXCEPT ![o] = 0]

\* Mutant: leases are never renewed.
NotRenewed(S) == lease

\* renew() pushes a live lease out and does nothing for one that is gone.
Renewed(S) == [o \in Owners |-> IF o \in S /\ lease[o] > 0
                                THEN LeaseTicks ELSE lease[o]]

\* Mutant: every reservation is treated as managed.
NeverAged == lease

\* Mutant: time goes on below zero.
AgedPastZero == [o \in Owners |-> IF o = Media THEN lease[o] ELSE lease[o] - 1]

\* One unit of time; a managed reservation does not age.
Aged == [o \in Owners |-> IF o = Media \/ lease[o] = 0
                          THEN lease[o] ELSE lease[o] - 1]

GovernorInit == lease = [o \in Owners |-> 0]
GovernorTypeOK == lease \in [Owners -> 0 .. LeaseTicks]
=============================================================================
