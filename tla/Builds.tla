------------------------------- MODULE Builds -------------------------------
(* What the modules of the updater share: the versions there are packages    *)
(* for, and how a package relates to the build that runs.  Every version     *)
(* changes the format of the single-file stores, so a version number is also *)
(* the number of the format its build writes; a build reads every older one. *)
EXTENDS Naturals

CONSTANTS Version,      \* the product versions, as numbers
          None          \* nothing: no package, no grant, no handoff

ASSUME VersionAssumption == Version \subseteq Nat \ {0} /\ None \notin Version

Kinds == {"upgrade", "repair", "rollback"}

\* local_update.verify_update: what installing this version would be.
Kind(version, running) == IF version > running THEN "upgrade"
                          ELSE IF version < running THEN "rollback"
                          ELSE "repair"
=============================================================================
