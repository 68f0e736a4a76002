----------------------------- MODULE UpdateStore ----------------------------
(* core/local_update.py, LocalUpdateStore: the one staged package and what   *)
(* became of it.  Signatures, hashes and the copies on disk are abstracted:  *)
(* a package is its version and the kind it had when it was staged.          *)
EXTENDS Builds

VARIABLES phase,        \* "idle", "staged" or "handed_off"
          staged        \* the staged package, or None

storeVars == << phase, staged >>

Package == [version : Version, kind : Kinds]

ASSUME PackageAssumption == None \notin Package

StoreTypeOK == /\ phase \in {"idle", "staged", "handed_off"}
               /\ staged \in Package \union {None}
               /\ phase # "idle" => staged # None

StoreInit == phase = "idle" /\ staged = None

Stage(package) == phase' = "staged" /\ staged' = package

HandOff == /\ phase \in {"staged", "handed_off"}
           /\ phase' = "handed_off"
           /\ UNCHANGED staged

\* A mutant of Confirmed: a repair is believed without a receipt.
SameVersionIsEnough(running, evidence) ==
    IF staged = None THEN "nothing_staged"
    ELSE IF running # staged.version THEN "not_applied"
    ELSE "applied"

\* What confirm() concludes from the version that runs and the receipt.
Confirmed(running, evidence) ==
    IF staged = None THEN "nothing_staged"
    ELSE IF running # staged.version THEN "not_applied"
    ELSE IF staged.kind = "repair" /\ ~evidence THEN "unconfirmed"
    ELSE "applied"

\* Only a completed update changes the store's own file.
Confirm(running, evidence) ==
    IF Confirmed(running, evidence) = "applied"
    THEN phase' = "idle" /\ staged' = None
    ELSE UNCHANGED storeVars

DiscardStaged == phase' = "idle" /\ staged' = None
=============================================================================
