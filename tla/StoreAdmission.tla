---------------------------- MODULE StoreAdmission --------------------------
(* core/store_admission.py and the holds of core/update_service.py: who may  *)
(* be inside the stores.  Processes that open stores share one byte-range    *)
(* lock; the updater, and a start-up that puts data back, hold it alone and  *)
(* never wait for it.  The fence is the update mutex: it exists as long as   *)
(* the launching process or the installer has a handle of it, so it outlives *)
(* a launching process that dies, whose lock the system takes back.          *)
EXTENDS Naturals

CONSTANT Process        \* the processes that open stores

ASSUME ProcessAssumption == "launcher" \notin Process

VARIABLES shared,       \* the processes with a shared admission
          exclusive,    \* who holds it alone: at most one of them
          fence         \* who keeps the update mutex in existence

admissionVars == << shared, exclusive, fence >>

AdmissionTypeOK == /\ shared \subseteq Process
                   /\ exclusive \subseteq Process \union {"launcher"}
                   /\ fence \subseteq {"launcher", "installer"}

AdmissionInit == shared = {} /\ exclusive = {} /\ fence = {}

UpdateInProgress == fence # {}

\* A mutant of MayWrite: the lock alone, without asking for the fence.
LockAlone == exclusive = {}

\* admit_writer: the shared lock, and then no fence.
MayWrite == exclusive = {} /\ ~UpdateInProgress

\* admit_exclusive: granted only while nobody holds the lock at all.
MayExclude == exclusive = {} /\ shared = {}
=============================================================================
