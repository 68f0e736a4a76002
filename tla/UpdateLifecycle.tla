--------------------------- MODULE UpdateLifecycle --------------------------
(* core/update_service.py and core/startup_admission.py over the update      *)
(* store, the admission and the snapshots: asking for an update, approving   *)
(* it, launching the installer, and the start-up barrier every process goes  *)
(* through before it opens a store.                                          *)
(*                                                                           *)
(* The actors are the processes that open stores, the one process that       *)
(* launches, the installer, and a power cut.  A step is what happens between *)
(* two durable writes, so a crash falls between any two of them.  The        *)
(* barrier holds the store lock from its second look at the fence to its     *)
(* save; every other use of the lock is one step.                            *)
(*                                                                           *)
(* The installer is not in this repository's Python: it may install or fail, *)
(* and it replaces the program only while no process runs from it.           *)
EXTENDS UpdateStore, StoreAdmission, DataSnapshots

CONSTANTS Singleton,        \* processes whose instance mutex a launch needs
          MaxApprovals,     \* bound: packages approved
          MaxLaunches,      \* bound: installers, copies taken
          MaxCrashes,       \* bound: processes killed and power cuts
          MaxContent        \* bound: how often the data is written

ASSUME BoundsAssumption == /\ Singleton \subseteq Process
                           /\ {MaxApprovals, MaxLaunches, MaxCrashes,
                               MaxContent} \subseteq Nat

VARIABLES
    build,          \* the version that is installed, and runs
    \* update-lifecycle.json
    pending, grant, \* the request that waits for approval; the approved launch
    launching,      \* the claim of a launch, with the step it has reached
    handoff,        \* what was handed to an installer and is not resolved
    outcome,        \* what the last update came to
    receipts,       \* the nonces of the receipts in the receipts folder
    \* the processes
    at,             \* where each process is in its start
    judged,         \* the barrier's package and verdict on the receipts
    launcher,       \* the launching process: where it is and what it launches
    installer,      \* the installer that runs, or None
    \* history
    nonces,         \* installers started so far; also the last nonce
    approvals,      \* packages approved so far
    applied,        \* the nonces of the installations that took place
    truth,          \* what the stores of the installed build should hold
    crashes         \* processes killed and power cuts so far

lifecycle == << pending, grant, launching, handoff, outcome >>
history == << nonces, approvals, applied, truth, crashes >>
vars == << phase, staged, shared, exclusive, fence, data, snapshots, taken,
           build, lifecycle, receipts, at, judged, launcher, installer,
           history >>

\* The records of the lifecycle file, and of the processes.
Binding == [version : Version, kind : Kinds, restore : Nat]
ClaimRecord == [version : Version, step : {"claimed", "restoring", "starting"},
                restored : Nat, safety : Nat]
Handoff == [version : Version, kind : Kinds, restored : Nat, safety : Nat,
            nonce : Nat]
Outcome == [result : {"applied", "not_applied", "unconfirmed"},
            version : Version, kind : Kinds]
Judgement == [package : Package, evidence : BOOLEAN]
Running == [version : Version, nonce : Nat, restored : Nat]

ASSUME NoneAssumption ==
    /\ None \notin Binding /\ None \notin ClaimRecord
    /\ None \notin Handoff /\ None \notin Outcome
    /\ None \notin Judgement /\ None \notin Running

Idle == [at |-> "off", binding |-> None, safety |-> 0]

Init == /\ build \in Version
        /\ StoreInit /\ AdmissionInit /\ SnapshotsInit(build)
        /\ pending = None /\ grant = None /\ launching = None
        /\ handoff = None /\ outcome = None /\ receipts = {}
        /\ at = [p \in Process |-> "off"]
        /\ judged = None /\ launcher = Idle /\ installer = None
        /\ nonces = 0 /\ approvals = 0 /\ applied = {} /\ crashes = 0
        /\ truth = data

-----------------------------------------------------------------------------
(* The lifecycle file *)

\* _resolved_unconfirmed: this handoff was looked at once and is undecided.
ResolvedUnconfirmed ==
    /\ handoff # None /\ outcome # None
    /\ outcome.result = "unconfirmed"
    /\ outcome.version = handoff.version /\ outcome.kind = handoff.kind

\* A mutant of Pinned: an approved launch no longer pins its copy.
PinnedByWork ==
    UNION {{r.restored, r.safety} : r \in {launching, handoff} \ {None}}

\* _pinned: the copies an unresolved launch, handoff or approval refers to.
Pinned == (UNION {{r.restored, r.safety} :
                      r \in {launching, handoff} \ {None}})
          \union {g.restore : g \in {pending, grant} \ {None}}

\* The barrier holds the store lock from its second look at the fence on.
Inside == {"rechecking", "putting_back", "judging", "confirming",
           "recording_applied", "undoing", "recording_not_applied"}
LockFree == \A p \in Process : at[p] \notin Inside \ {"rechecking"}

Live == UpdateInProgress

-----------------------------------------------------------------------------
(* Asking for an update: operations of an admitted process.  It holds its    *)
(* shared admission, so no launch is alive.                                  *)

BindingFor(version) ==
    LET kind == Kind(version, build)
    IN  [version |-> version, kind |-> kind,
         restore |-> IF kind = "rollback" THEN CopyFor(version) ELSE 0]

Unresolved == launching # None

\* request: a rollback needs a copy of the data the old version can read.
Request(p, version) ==
    /\ at[p] = "open" /\ LockFree /\ ~Unresolved
    /\ LET binding == BindingFor(version)
       IN  /\ binding.kind = "rollback" => binding.restore # 0
           /\ pending' = binding
    /\ UNCHANGED << storeVars, admissionVars, snapshotVars, build, grant,
                    launching, handoff, outcome, receipts, at, judged,
                    launcher, installer, history >>

\* approve refuses: expired, forbidden, or the package is another one by now.
ApprovalRefused(p) ==
    /\ at[p] = "open" /\ LockFree /\ pending # None
    /\ pending' = None
    /\ UNCHANGED << storeVars, admissionVars, snapshotVars, build, grant,
                    launching, handoff, outcome, receipts, at, judged,
                    launcher, installer, history >>

\* approve: consumed, staged, and then granted in a save of its own, which a
\* crash may leave out.
Approve(p, granted) ==
    /\ at[p] = "open" /\ LockFree /\ pending # None /\ ~Unresolved
    /\ pending = BindingFor(pending.version)
    /\ approvals < MaxApprovals
    /\ pending' = None
    /\ Stage([version |-> pending.version, kind |-> pending.kind])
    /\ IF granted
       THEN /\ grant' = pending /\ outcome' = None
            /\ UNCHANGED << at, shared, crashes >>
       ELSE /\ crashes < MaxCrashes /\ crashes' = crashes + 1
            /\ at' = [at EXCEPT ![p] = "off"] /\ shared' = shared \ {p}
            /\ UNCHANGED << grant, outcome >>
    /\ approvals' = approvals + 1
    /\ UNCHANGED << exclusive, fence, snapshotVars, build, launching, handoff,
                    receipts, judged, launcher, installer,
                    nonces, applied, truth >>

\* discard: not while a handoff has data that may have to be put back.
Discard(p) ==
    /\ at[p] = "open" /\ LockFree /\ ~Unresolved
    /\ handoff # None => handoff.safety = 0
    /\ << staged, pending, grant, handoff >> # << None, None, None, None >>
    /\ DiscardStaged
    /\ pending' = None /\ grant' = None /\ handoff' = None
    /\ UNCHANGED << admissionVars, snapshotVars, build, launching, outcome,
                    receipts, at, judged, launcher, installer, history >>

\* The product writes its data.
Write(p) ==
    /\ at[p] = "open" /\ data.content < MaxContent
    /\ data' = [data EXCEPT !.content = @ + 1] /\ truth' = data'
    /\ UNCHANGED << storeVars, admissionVars, snapshots, taken, build,
                    lifecycle, receipts, at, judged, launcher, installer,
                    nonces, approvals, applied, crashes >>
-----------------------------------------------------------------------------
(* The launch.  It is one process of its own; it holds the stores alone and  *)
(* keeps the fence from Quiesce on, and lets go when it ends.                *)

StillOf(l) == [launcher EXCEPT !.at = l]

\* A mutant of Ended: the handle of the fence is left open.
EndedWithFence == /\ launcher' = Idle
                  /\ exclusive' = exclusive \ {"launcher"}
                  /\ fence' = fence

Ended == /\ launcher' = Idle
         /\ exclusive' = exclusive \ {"launcher"}
         /\ fence' = fence \ {"launcher"}

\* LaunchHold: the exclusive admission, then the fence and the mutexes.
Quiesce ==
    /\ launcher.at = "off" /\ grant # None
    /\ MayExclude /\ ~Live
    /\ \A p \in Singleton : at[p] = "off"
    /\ launcher' = StillOf("claiming")
    /\ exclusive' = {"launcher"} /\ fence' = {"launcher"}
    /\ UNCHANGED << storeVars, shared, snapshotVars, build, lifecycle,
                    receipts, at, judged, installer, history >>

\* _claim_launch: the grant is used up whether or not the launch is allowed.
Claim(allowed) ==
    /\ launcher.at = "claiming" /\ LockFree /\ launching = None
    /\ grant # None
    /\ grant' = None
    /\ IF allowed /\ phase = "staged" /\ staged.version = grant.version
       THEN /\ launching' = [version |-> grant.version, step |-> "claimed",
                             restored |-> 0, safety |-> 0]
            /\ launcher' = [at |-> "copying", binding |-> grant, safety |-> 0]
            /\ UNCHANGED << exclusive, fence >>
       ELSE Ended /\ UNCHANGED launching
    /\ UNCHANGED << storeVars, shared, snapshotVars, build, pending, handoff,
                    outcome, receipts, at, judged, installer, history >>

ClaimRefused ==
    /\ launcher.at = "claiming"
    /\ ~LockFree \/ launching # None \/ grant = None
    /\ Ended
    /\ UNCHANGED << storeVars, shared, snapshotVars, build, lifecycle,
                    receipts, at, judged, installer, history >>

\* An upgrade first keeps a copy of the data in its present format.
KeepCopy ==
    /\ launcher.at = "copying"
    /\ IF launcher.binding.kind = "upgrade"
       THEN /\ LockFree /\ taken < MaxLaunches
            /\ TakeSnapshot("upgrade", build, Pinned)
       ELSE UNCHANGED snapshotVars
    /\ launcher' = StillOf("handing_off")
    /\ UNCHANGED << storeVars, admissionVars, build, lifecycle, receipts, at,
                    judged, installer, history >>

\* Before either copy is on the list, the files of those too many are deleted.
DropCopy ==
    /\ LockFree /\ taken < MaxLaunches
    /\ \/ /\ launcher.at = "copying" /\ launcher.binding.kind = "upgrade"
          /\ DropOldest("upgrade", build, Pinned)
       \/ /\ launcher.at = "saving_data" /\ launcher.binding.restore \in Listed
          /\ DropOldest("pre_restore", build, Pinned)
    /\ UNCHANGED << storeVars, admissionVars, build, lifecycle, receipts, at,
                    judged, launcher, installer, history >>

\* store.handoff, which looks up the copy a rollback needs once more.
HandOver ==
    /\ launcher.at = "handing_off" /\ LockFree
    /\ launcher.binding.restore \in Listed \union {0}
    /\ HandOff
    /\ launcher' = StillOf(IF launcher.binding.restore = 0 THEN "starting"
                           ELSE "saving_data")
    /\ UNCHANGED << admissionVars, snapshotVars, build, lifecycle, receipts,
                    at, judged, installer, history >>

\* A rollback saves today's data first.  The copy it is about to put back is
\* not among the pinned ones at this moment: the grant is gone, and the claim
\* names the copy only from the next step on.
SaveData ==
    /\ launcher.at = "saving_data" /\ LockFree
    /\ launcher.binding.restore \in Listed /\ taken < MaxLaunches
    /\ TakeSnapshot("pre_restore", build, Pinned)
    /\ launcher' = [StillOf("replacing_data") EXCEPT !.safety = taken + 1]
    /\ UNCHANGED << storeVars, admissionVars, build, lifecycle, receipts, at,
                    judged, installer, history >>

\* The claim says so before the first file is replaced, which is not before
\* the files of the copy have all been read.
BeginReplacing ==
    /\ launcher.at = "replacing_data" /\ LockFree
    /\ launching' = [launching EXCEPT !.step = "restoring",
                                      !.safety = launcher.safety,
                                      !.restored = launcher.binding.restore]
    /\ launcher' = StillOf("replacing_files")
    /\ data' = IF launcher.binding.restore \in Whole THEN Torn ELSE data
    /\ UNCHANGED << storeVars, admissionVars, snapshots, taken, build,
                    pending, grant, handoff, outcome, receipts, at, judged,
                    installer, history >>

FinishReplacing ==
    /\ launcher.at = "replacing_files"
    /\ launcher.binding.restore \in Whole
    /\ data' = Snapshot(launcher.binding.restore).holds
    /\ launcher' = StillOf("starting")
    /\ UNCHANGED << storeVars, admissionVars, snapshots, taken, build,
                    lifecycle, receipts, at, judged, installer, history >>

\* _restore_or_revert: a restore that fails puts today's data back itself, or
\* leaves that to the barrier.  The claim stays either way.
ReplacingFails(reverted) ==
    /\ launcher.at = "replacing_files"
    /\ data' = IF reverted THEN Snapshot(launcher.safety).holds ELSE data
    /\ Ended
    /\ UNCHANGED << storeVars, shared, snapshots, taken, build, lifecycle,
                    receipts, at, judged, installer, history >>

\* A mutant of Recorded: the handoff is written only once the installer runs.
RecordedLate(record) == handoff

\* What the save before the start writes as the handoff.
Recorded(record) == record

\* The durable record of the start, before there is an installer.
RecordStart ==
    /\ launcher.at = "starting" /\ LockFree
    /\ nonces < MaxLaunches
    /\ handoff' = Recorded([version |-> launcher.binding.version,
                            kind |-> launcher.binding.kind,
                            restored |-> launcher.binding.restore,
                            safety |-> launcher.safety,
                            nonce |-> nonces + 1])
    /\ launching' = [launching EXCEPT !.step = "starting"]
    /\ nonces' = nonces + 1
    /\ launcher' = StillOf("spawning")
    /\ UNCHANGED << storeVars, admissionVars, snapshotVars, build, pending,
                    grant, outcome, receipts, at, judged, installer,
                    approvals, applied, truth, crashes >>

\* The installer is created with a handle of the fence.
Spawn ==
    /\ launcher.at = "spawning"
    /\ installer' = [version |-> launcher.binding.version, nonce |-> nonces,
                     restored |-> launcher.binding.restore]
    /\ fence' = fence \union {"installer"}
    /\ launcher' = StillOf("recording")
    /\ UNCHANGED << storeVars, shared, exclusive, snapshotVars, build,
                    lifecycle, receipts, at, judged, history >>

\* The record of the start may fail: the starting claim then stays.
RecordLaunched(saved) ==
    /\ launcher.at = "recording" /\ LockFree
    /\ launching' = IF saved THEN None ELSE launching
    /\ launcher' = StillOf("handing_over")
    /\ UNCHANGED << storeVars, admissionVars, snapshotVars, build, pending,
                    grant, handoff, outcome, receipts, at, judged,
                    installer, history >>

\* Let go once the installer holds the stores itself, or has ended.
LetGo ==
    /\ launcher.at = "handing_over"
    /\ Ended
    /\ UNCHANGED << storeVars, shared, snapshotVars, build, lifecycle,
                    receipts, at, judged, installer, history >>

\* NotStarted: Windows made no process, so today's data is put back at once.
NotStarted ==
    /\ launcher.at = "spawning"
    /\ data' = IF launcher.safety = 0 THEN data ELSE Torn
    /\ launcher' = StillOf("taking_back")
    /\ UNCHANGED << storeVars, admissionVars, snapshots, taken, build,
                    lifecycle, receipts, at, judged, installer, history >>

TakeBack ==
    /\ launcher.at = "taking_back"
    /\ data' = IF launcher.safety = 0 THEN data
               ELSE Snapshot(launcher.safety).holds
    /\ launcher' = StillOf("withdrawing")
    /\ UNCHANGED << storeVars, admissionVars, snapshots, taken, build,
                    lifecycle, receipts, at, judged, installer, history >>

\* The handoff goes, the claim is "claimed" again and _release_claim drops it.
Withdraw ==
    /\ launcher.at = "withdrawing" /\ LockFree
    /\ handoff' = None /\ launching' = None
    /\ Ended
    /\ UNCHANGED << storeVars, shared, snapshotVars, build, pending, grant,
                    outcome, receipts, at, judged, installer, history >>

\* Any other failure, a busy lock too: only a claim that restored and started
\* nothing goes, and only if that can be saved.
LaunchFails ==
    /\ launcher.at \in {"copying", "handing_off", "saving_data", "starting",
                        "spawning", "taking_back", "withdrawing"}
    /\ launching' = IF launching.step = "claimed" /\ LockFree
                    THEN None ELSE launching
    /\ Ended
    /\ UNCHANGED << storeVars, shared, snapshotVars, build, pending, grant,
                    handoff, outcome, receipts, at, judged, installer,
                    history >>

LauncherStep ==
    \/ \E allowed \in BOOLEAN : Claim(allowed)
    \/ ClaimRefused \/ KeepCopy \/ HandOver \/ SaveData \/ DropCopy
    \/ BeginReplacing \/ FinishReplacing
    \/ \E reverted \in BOOLEAN : ReplacingFails(reverted)
    \/ RecordStart \/ Spawn
    \/ \E saved \in BOOLEAN : RecordLaunched(saved)
    \/ LetGo \/ NotStarted \/ TakeBack \/ Withdraw \/ LaunchFails

-----------------------------------------------------------------------------
(* The installer                                                             *)

InstallerEnds ==
    /\ installer' = None /\ fence' = fence \ {"installer"}
    /\ UNCHANGED << storeVars, shared, exclusive, snapshotVars, lifecycle, at,
                    judged, launcher, nonces, approvals, crashes >>

\* It replaced the program; the receipt is the last thing it writes.
Install(receipt) ==
    /\ installer # None
    /\ \A p \in Process : at[p] = "off"
    /\ build' = installer.version
    /\ receipts' = receipts \union IF receipt THEN {installer.nonce} ELSE {}
    /\ applied' = applied \union {installer.nonce}
    /\ truth' = IF installer.restored \in Listed
                THEN Snapshot(installer.restored).holds ELSE truth
    /\ InstallerEnds

InstallFails ==
    /\ installer # None
    /\ UNCHANGED << build, receipts, applied, truth >>
    /\ InstallerEnds
-----------------------------------------------------------------------------
(* The start of a process: enter() of core/startup_admission.py              *)

Go(p, l) == at' = [at EXCEPT ![p] = l]

\* The instance mutex of a singleton, and the first look at the fence.
Start(p) ==
    /\ at[p] = "off" /\ ~Live
    /\ Go(p, "rechecking")
    /\ UNCHANGED << storeVars, admissionVars, snapshotVars, build, lifecycle,
                    receipts, judged, launcher, installer, history >>

\* _check_interrupted_claim: what a claim may not be found together with.
Inexplicable ==
    \/ /\ launching # None /\ launching.step = "starting"
       /\ \/ handoff = None \/ phase # "handed_off"
          \/ handoff.version # launching.version
          \/ handoff.restored # launching.restored
          \/ handoff.safety # launching.safety
    \/ launching # None /\ launching.step = "restoring" /\ handoff # None

\* A launch died while it replaced data.
Interrupted == launching # None /\ launching.step = "restoring"

\* recover_before_stores refuses: an update has started since, the claim makes
\* no sense, or someone still has the stores open.
StartRefused(p) ==
    /\ at[p] = "rechecking" /\ LockFree
    /\ Live \/ Inexplicable \/ (Interrupted /\ ~MayExclude)
    /\ Go(p, "off")
    /\ UNCHANGED << storeVars, admissionVars, snapshotVars, build, lifecycle,
                    receipts, judged, launcher, installer, history >>

\* A launch that died while it replaced data: its safety copy goes back.
PutBack(p) ==
    /\ at[p] = "rechecking" /\ LockFree /\ ~Live /\ ~Inexplicable
    /\ Interrupted /\ MayExclude
    /\ data' = Torn /\ exclusive' = {p}
    /\ Go(p, "putting_back")
    /\ UNCHANGED << storeVars, shared, fence, snapshots, taken, build,
                    lifecycle, receipts, judged, launcher, installer,
                    history >>

PutBackDone(p) ==
    /\ at[p] = "putting_back"
    /\ data' = Snapshot(launching.safety).holds /\ exclusive' = {}
    /\ Go(p, "judging")
    /\ UNCHANGED << storeVars, shared, fence, snapshots, taken, build,
                    lifecycle, receipts, judged, launcher, installer,
                    history >>

NothingToPutBack(p) ==
    /\ at[p] = "rechecking" /\ LockFree /\ ~Live /\ ~Inexplicable
    /\ ~Interrupted
    /\ Go(p, "judging")
    /\ UNCHANGED << storeVars, admissionVars, snapshotVars, build, lifecycle,
                    receipts, judged, launcher, installer, history >>

\* Nothing was handed off, or it was judged before: the claim goes.
Settled(p) ==
    /\ at[p] = "judging"
    /\ phase # "handed_off" \/ (launching = None /\ ResolvedUnconfirmed)
    /\ launching' = None /\ receipts' = {}
    /\ Go(p, "admission")
    /\ UNCHANGED << storeVars, admissionVars, snapshotVars, build, pending,
                    grant, handoff, outcome, judged, launcher, installer,
                    history >>

\* _receipt_verdict: only a receipt with this handoff's nonce is evidence.
Verdict == handoff # None /\ handoff.nonce \in receipts

\* Every receipt is judged and removed before anything is recorded.
Judge(p) ==
    /\ at[p] = "judging"
    /\ phase = "handed_off" /\ ~(launching = None /\ ResolvedUnconfirmed)
    /\ judged' = [package |-> staged,
                  evidence |-> Verdict /\ handoff.version = build]
    /\ receipts' = {}
    /\ Go(p, "confirming")
    /\ UNCHANGED << storeVars, admissionVars, snapshotVars, build, lifecycle,
                    launcher, installer, history >>

Judged(result) == [result |-> result, version |-> judged.package.version,
                   kind |-> judged.package.kind]

\* store.confirm, which saves the update store's own file.
ConfirmUpdate(p) ==
    /\ at[p] = "confirming"
    /\ Confirm(build, judged.evidence)
    /\ LET result == Confirmed(build, judged.evidence)
           safety == IF handoff = None THEN 0 ELSE handoff.safety
       IN  \/ /\ result = "applied" /\ Go(p, "recording_applied")
              /\ UNCHANGED << data, exclusive, launching, outcome >>
           \/ /\ result = "unconfirmed" /\ Go(p, "admission")
              /\ launching' = None
              /\ outcome' = Judged(result)
              /\ UNCHANGED << data, exclusive >>
           \/ /\ result = "not_applied"
              /\ IF safety = 0 THEN Go(p, "recording_not_applied")
                                    /\ UNCHANGED << data, exclusive >>
                 ELSE IF MayExclude
                 THEN Go(p, "undoing") /\ data' = Torn /\ exclusive' = {p}
                 ELSE Go(p, "off") /\ UNCHANGED << data, exclusive >>
              /\ UNCHANGED << launching, outcome >>
    /\ judged' = IF at'[p] \in {"admission", "off"} THEN None ELSE judged
    /\ UNCHANGED << shared, fence, snapshots, taken, build, pending, grant,
                    handoff, receipts, launcher, installer,
                    history >>

\* The rollback did not apply: the build that runs gets its own data back.
UndoDone(p) ==
    /\ at[p] = "undoing"
    /\ data' = Snapshot(handoff.safety).holds /\ exclusive' = {}
    /\ Go(p, "recording_not_applied")
    /\ UNCHANGED << storeVars, shared, fence, snapshots, taken, build,
                    lifecycle, receipts, judged, launcher, installer,
                    history >>

\* The barrier's one save of the lifecycle file.
RecordOutcome(p) ==
    /\ at[p] \in {"recording_applied", "recording_not_applied"}
    /\ launching' = None /\ handoff' = None
    /\ outcome' = Judged(IF at[p] = "recording_applied" THEN "applied"
                         ELSE "not_applied")
    /\ judged' = None /\ Go(p, "admission")
    /\ UNCHANGED << storeVars, admissionVars, snapshotVars, build, pending,
                    grant, receipts, launcher, installer, history >>

\* admit_writer
Admit(p) ==
    /\ at[p] = "admission"
    /\ IF MayWrite THEN shared' = shared \union {p} /\ Go(p, "second_look")
       ELSE shared' = shared /\ Go(p, "off")
    /\ UNCHANGED << storeVars, exclusive, fence, snapshotVars, build,
                    lifecycle, receipts, judged, launcher, installer,
                    history >>

\* A mutant of NothingPending: what was resolved stays resolved.
OnceIsEnough == TRUE

\* pending_on: no update ran between the barrier and the admission.
NothingPending ==
    launching = None /\ (handoff = None \/ ResolvedUnconfirmed)

\* The stores open; the product's own code brings the data to its format.
Open(p) ==
    /\ at[p] = "second_look" /\ LockFree /\ NothingPending
    /\ Go(p, "open")
    /\ data' = IF data = Torn THEN Torn ELSE [data EXCEPT !.format = build]
    /\ truth' = [truth EXCEPT !.format = build]
    /\ UNCHANGED << storeVars, admissionVars, snapshots, taken, build,
                    lifecycle, receipts, judged, launcher, installer,
                    nonces, approvals, applied, crashes >>

SecondLookRefused(p) ==
    /\ at[p] = "second_look" /\ LockFree /\ ~NothingPending
    /\ Go(p, "off") /\ shared' = shared \ {p}
    /\ UNCHANGED << storeVars, exclusive, fence, snapshotVars, build,
                    lifecycle, receipts, judged, launcher, installer,
                    history >>

StartStep(p) ==
    \/ StartRefused(p) \/ PutBack(p) \/ PutBackDone(p) \/ NothingToPutBack(p)
    \/ Settled(p) \/ Judge(p) \/ ConfirmUpdate(p) \/ UndoDone(p)
    \/ RecordOutcome(p) \/ Admit(p) \/ Open(p) \/ SecondLookRefused(p)

\* A mutant of Gone: a process that ends leaves its exclusive hold behind.
GoneHolding(p) == /\ Go(p, "off")
                  /\ shared' = shared \ {p} /\ exclusive' = exclusive

\* A process ends, from its stores or anywhere in its start.
Gone(p) == /\ Go(p, "off")
           /\ shared' = shared \ {p} /\ exclusive' = exclusive \ {p}

Close(p) ==
    /\ at[p] = "open" /\ Gone(p)
    /\ UNCHANGED << storeVars, fence, snapshotVars, build, lifecycle,
                    receipts, judged, launcher, installer, history >>

Kill(p) ==
    /\ at[p] \notin {"off", "open"} /\ crashes < MaxCrashes
    /\ crashes' = crashes + 1 /\ Gone(p)
    /\ judged' = IF at[p] \in Inside \ {"rechecking"} THEN None ELSE judged
    /\ UNCHANGED << storeVars, fence, snapshotVars, build, lifecycle,
                    receipts, launcher, installer,
                    nonces, approvals, applied, truth >>

KillLauncher ==
    /\ launcher.at # "off" /\ crashes < MaxCrashes
    /\ crashes' = crashes + 1 /\ Ended
    /\ UNCHANGED << storeVars, shared, snapshotVars, build, lifecycle,
                    receipts, at, judged, installer,
                    nonces, approvals, applied, truth >>

PowerCut ==
    /\ crashes < MaxCrashes /\ crashes' = crashes + 1
    /\ at' = [p \in Process |-> "off"] /\ launcher' = Idle /\ installer' = None
    /\ shared' = {} /\ exclusive' = {} /\ fence' = {}
    /\ judged' = None
    /\ UNCHANGED << storeVars, snapshotVars, build, lifecycle, receipts,
                    nonces, approvals, applied, truth >>

Asking(p) == \/ \E v \in Version : Request(p, v)
             \/ ApprovalRefused(p)
             \/ \E granted \in BOOLEAN : Approve(p, granted)
             \/ Discard(p)

Next == \/ \E p \in Process : Start(p) \/ StartStep(p) \/ Close(p) \/ Kill(p)
        \/ \E p \in Process : Asking(p) \/ Write(p)
        \/ Quiesce \/ LauncherStep \/ KillLauncher
        \/ \E receipt \in BOOLEAN : Install(receipt)
        \/ InstallFails \/ PowerCut

\* The person starts Qronos again whenever it is not running; every step of a
\* start, of a launch and of the installer comes to its end.  The store lock
\* is tried again and again for ten seconds, which a barrier does not take.
Fairness == /\ \A p \in Process : WF_vars(Start(p)) /\ SF_vars(StartStep(p))
            /\ WF_vars(LauncherStep)
            /\ WF_vars(\/ InstallFails
                       \/ \E receipt \in BOOLEAN : Install(receipt))

Spec == Init /\ [][Next]_vars /\ Fairness
-----------------------------------------------------------------------------
(* Properties                                                                *)

\* Places of a process in its start, and of the launching process.
Places == {"off", "admission", "second_look", "open"}
              \union Inside
Stages == {"off", "claiming", "copying", "handing_off", "saving_data",
           "replacing_data", "replacing_files", "starting", "spawning",
           "recording", "handing_over", "taking_back", "withdrawing"}

FileTypeOK == /\ pending \in Binding \union {None}
              /\ grant \in Binding \union {None}
              /\ launching \in ClaimRecord \union {None}
              /\ handoff \in Handoff \union {None}
              /\ outcome \in Outcome \union {None}

ProcessTypeOK == /\ build \in Version
                 /\ at \in [Process -> Places]
                 /\ judged \in Judgement \union {None}
                 /\ launcher \in [at : Stages, binding : Binding \union {None},
                                  safety : Nat]
                 /\ installer \in Running \union {None}

HistoryTypeOK == /\ nonces \in 0..MaxLaunches /\ approvals \in 0..MaxApprovals
                 /\ applied \subseteq 1..nonces /\ receipts \subseteq applied
                 /\ truth \in [format : Version, content : Nat]

\* The lock, the fence and the places of the processes agree on who holds what,
\* and one process at a time holds the lock of the update store.
HoldsAgree ==
    /\ shared = {p \in Process : at[p] \in {"second_look", "open"}}
    /\ \A p \in Process :
           p \in exclusive <=> at[p] \in {"putting_back", "undoing"}
    /\ "launcher" \in fence <=> launcher.at # "off"
    /\ "installer" \in fence <=> installer # None
    /\ \A p, q \in Process :
           {at[p], at[q]} \subseteq Inside \ {"rechecking"} => p = q

\* Every variable has its type, and what is held agrees.
TypeOK == /\ StoreTypeOK /\ AdmissionTypeOK /\ SnapshotsTypeOK
          /\ FileTypeOK /\ ProcessTypeOK /\ HistoryTypeOK /\ HoldsAgree

\* A process that has the stores open finds the data that belongs to its
\* build, whatever launch, installer or start died on the way: the data from
\* before a rollback that did not take place, the old copy after one that did,
\* never half of each (update_service.py:1338-1417 and 1444-1520).
DataIsTrue == \A p \in Process : at[p] = "open" => data = truth

\* Nobody is inside the stores while a launch or its installer is alive, also
\* when the launching process, and its lock with it, is gone.
AloneInStores == shared # {} => launcher.at = "off" /\ installer = None

\* An installer never runs without the durable record the next start resolves
\* it by, so no crash can make its outcome a guess.
InstallerOnRecord ==
    installer # None => /\ phase = "handed_off" /\ handoff # None
                        /\ handoff.nonce = installer.nonce
                        /\ handoff.version = installer.version

\* An update is recorded as applied only if that very installation took
\* place, and as not applied only if it did not.
HonestOutcome ==
    [][(/\ outcome' # outcome /\ outcome' # None /\ handoff # None
        /\ outcome'.version = handoff.version
        /\ outcome'.kind = handoff.kind) =>
            /\ outcome'.result = "applied" => handoff.nonce \in applied
            /\ outcome'.result = "not_applied" =>
                   handoff.nonce \notin applied]_vars

\* No build opens data in a format newer than it reads: a rollback is offered
\* only with a copy its version reads (update_service.py:78-80), and the copy
\* chosen then still is one when the version starts, whatever was approved,
\* copied, pruned or interrupted in between.
NeverNewer ==
    [][\A p \in Process : at[p] # "open" /\ at'[p] = "open"
                              => data.format <= build]_vars

\* The safety copies and the copies an approval refers to are never pruned,
\* and a safety copy can be put back: no launch that died while it deleted the
\* files of copies has taken those of one that a start may need.  An approval's
\* copy may have lost them (the list is all that is looked at when it is
\* offered); the restore then fails before it touches the data.
CopiesAreKept ==
    /\ {r.safety : r \in {launching, handoff} \ {None}}
           \subseteq Whole \union {0}
    /\ {g.restore : g \in {pending, grant} \ {None}}
           \subseteq Listed \union {0}

\* The two ways a handoff is left behind that no start resolves: the store has
\* another phase by now, or the next launch is interrupted while it replaces
\* data.
Stranded ==
    /\ handoff # None
    /\ \/ phase # "handed_off"
       \/ launching # None /\ launching.step = "restoring"

\* Whatever was interrupted, Qronos starts again, unless a handoff is stranded.
StartsAgain == []<>(\E p \in Process : at[p] = "open") \/ <>[]Stranded
=============================================================================
