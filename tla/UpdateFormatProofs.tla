-------------------------- MODULE UpdateFormatProofs --------------------------
(***************************************************************************)
(* Proof that no build opens data in a format newer than it reads, for any *)
(* versions, processes, limits, and deaths of processes and the machine.   *)
(***************************************************************************)
EXTENDS UpdateLifecycleProofs

\* The copy of this number, if it is still kept, is one this version reads;
\* no copy taken later has its number.
Fits(id, version) ==
    /\ id <= taken
    /\ \A s \in snapshots : s.id = id => s.holds.format <= version

\* The build reads what its stores should hold, a copy is one the build it is
\* from reads, and every rollback goes back to a copy that its version reads,
\* from the request on until the installer has ended.
FormatInv ==
    /\ truth.format <= build
    /\ \A s \in snapshots : s.holds.format <= s.from
    /\ pending # None => Fits(pending.restore, pending.version)
    /\ grant # None => Fits(grant.restore, grant.version)
    /\ Launched => Fits(launcher.binding.restore, launcher.binding.version)
    /\ installer # None => Fits(installer.restored, installer.version)

\* A request that is given up or approved, a launch that goes on or ends, and
\* an installer that ends leave the formats alone.
LEMMA FormatsStay ==
  ASSUME FormatInv, UNCHANGED <<build, snapshots, taken>>,
         truth'.format = truth.format,
         pending' \in {pending, None}, grant' \in {grant, pending, None},
         Launched' => Launched /\ launcher'.binding = launcher.binding,
         installer' \in {installer, None}
  PROVE  FormatInv'
  BY DEF FormatInv, Fits

\* The copy that is offered is one the version reads.
LEMMA CopyForFits ==
  ASSUME Inv, FormatInv, NEW v \in Version
  PROVE  Fits(CopyFor(v), v)
<1> DEFINE readable == {s.id : s \in {c \in snapshots :
                           c.reason = "upgrade" /\ c.from <= v}}
<1>t. /\ SnapshotsTypeOK /\ taken \in Nat
      /\ \A s \in snapshots : /\ s.id \in Nat \ {0} /\ s.id <= taken
                              /\ s.from \in Nat /\ s.holds.format \in Nat
  BY VersionsAre DEF Inv, TypeOK, SnapshotsTypeOK, Copy
<1>1. CASE readable = {}
  <2>1. CopyFor(v) = 0
    BY <1>1 DEF CopyFor
  <2> QED
    BY <1>t, <2>1 DEF Fits
<1>2. CASE readable # {}
  <2>1. readable \subseteq 0..taken
    BY <1>t
  <2>2. \E n \in readable : \A m \in readable : m <= n
    BY <1>2, <1>t, <2>1, Greatest
  <2>3. CopyFor(v) \in readable
    BY <1>2, <2>2 DEF CopyFor
  <2>4. PICK s \in snapshots : CopyFor(v) = s.id /\ s.from <= v
    BY <2>3
  <2>5. \A r \in snapshots : r.id = s.id => r = s
    BY <1>t DEF SnapshotsTypeOK
  <2>6. s.holds.format <= s.from
    BY DEF FormatInv
  <2>7. s.holds.format <= v
    BY <1>t, <2>4, <2>6, VersionsAre
  <2> QED
    BY <1>t, <2>4, <2>5, <2>7 DEF Fits
<1> QED
  BY <1>1, <1>2

\* A copy of data the build reads spoils no choice that was made before.
LEMMA TakingKeepsFormats ==
  ASSUME Inv, FormatInv, NEW reason, TakeSnapshot(reason, build, Pinned),
         data = truth, UNCHANGED <<build, truth>>,
         UNCHANGED <<pending, grant, installer>>,
         Launched, launcher'.binding = launcher.binding
  PROVE  FormatInv'
<1> DEFINE entry == Entry(reason, build)
<1>1. /\ snapshots' \subseteq snapshots \union {entry} /\ taken' = taken + 1
      /\ taken \in Nat
  BY PrunedIs DEF TakeSnapshot, Left, Inv, TypeOK, SnapshotsTypeOK
<1>2. entry.id = taken + 1 /\ entry.holds.format <= entry.from
  BY DEF Entry, FormatInv
<1> HIDE DEF entry
<1> DEFINE FitsThen(id, v) == /\ id <= taken'
                           /\ \A s \in snapshots' : s.id = id =>
                                                    s.holds.format <= v
<1>3. \A id \in Nat : \A v : Fits(id, v) => FitsThen(id, v)
  BY <1>1, <1>2 DEF Fits
<1>4. \A s \in snapshots' : s.holds.format <= s.from
  BY <1>1, <1>2 DEF FormatInv
<1>5. /\ pending # None => pending.restore \in Nat
      /\ grant # None => grant.restore \in Nat
      /\ launcher.binding.restore \in Nat
      /\ installer # None => installer.restored \in Nat
  BY DEF Inv, TypeOK, FileTypeOK, ProcessTypeOK, LaunchInv, Binding, Running
<1>6. /\ pending # None => FitsThen(pending.restore, pending.version)
      /\ grant # None => FitsThen(grant.restore, grant.version)
      /\ FitsThen(launcher.binding.restore, launcher.binding.version)
      /\ installer # None => FitsThen(installer.restored, installer.version)
  <2> HIDE DEF FitsThen
  <2> QED
    BY <1>3, <1>5 DEF FormatInv
<1> QED
  BY <1>4, <1>6 DEF FormatInv, Fits

-----------------------------------------------------------------------------
(* The steps that choose, take, or bring back a copy, and those that change  *)
(* the format. *)

LEMMA InitFormats == Init => FormatInv
<1> SUFFICES ASSUME Init PROVE FormatInv
  OBVIOUS
<1>1. /\ build \in Nat /\ truth.format = build /\ snapshots = {}
      /\ ~Launched
  BY VersionsAre DEF Init, SnapshotsInit, Launched, Idle
<1> QED
  BY <1>1 DEF Init, FormatInv

LEMMA RequestKeepsFormats ==
  ASSUME Inv, FormatInv, NEW p \in Process, NEW v \in Version, Request(p, v)
  PROVE  FormatInv'
<1>1. pending'.version = v
  BY DEF Request, BindingFor
<1>2. pending'.restore \in {0, CopyFor(v)}
  BY DEF Request, BindingFor
<1>3. Fits(CopyFor(v), v) /\ Fits(0, v)
  BY CopyForFits DEF Fits, Inv, TypeOK, SnapshotsTypeOK, Copy
<1>4. Fits(pending'.restore, pending'.version)
  BY <1>1, <1>2, <1>3
<1>5. UNCHANGED <<build, truth, snapshots, taken, grant, launcher, installer>>
  BY DEF Request, snapshotVars, history
<1> QED
  BY <1>4, <1>5 DEF FormatInv, Fits, Launched

LEMMA ClaimKeepsFormats ==
  ASSUME Inv, FormatInv, NEW allowed \in BOOLEAN, Claim(allowed)
  PROVE  FormatInv'
<1>1. \/ launcher'.binding = grant
      \/ ~Launched'
  BY DEF Claim, Ended, Idle, Launched
<1>2. /\ UNCHANGED <<build, truth, snapshots, taken, pending, installer>>
      /\ grant # None /\ grant' = None
  BY DEF Claim, snapshotVars, history
<1> QED
  BY <1>1, <1>2 DEF FormatInv, Fits

LEMMA WriteKeepsFormats ==
  ASSUME Inv, FormatInv, NEW p \in Process, Write(p)
  PROVE  FormatInv'
<1>1. data = truth /\ truth'.format = truth.format
  BY OpenIs DEF Write, Inv, TypeOK, HistoryTypeOK
<1> QED
  BY <1>1, FormatsStay DEF Write, Launched, lifecycle

\* The product brings the data to the format of the build that runs.
LEMMA OpenKeepsFormats ==
  ASSUME Inv, FormatInv, NEW p \in Process, Open(p)
  PROVE  FormatInv'
<1>1. truth'.format = build /\ build \in Nat
  BY VersionsAre DEF Open, Inv, TypeOK, HistoryTypeOK, ProcessTypeOK
<1> QED
  BY <1>1 DEF Open, FormatInv, Fits, Launched, lifecycle

LEMMA KeepCopyKeepsFormats ==
  ASSUME Inv, FormatInv, KeepCopy
  PROVE  FormatInv'
<1>1. Launched /\ Launched' /\ launcher'.binding = launcher.binding
  BY DEF KeepCopy, StillOf, Launched, Inv, TypeOK, ProcessTypeOK
<1>2. data = truth
  BY <1>1 DEF KeepCopy, Inv, LaunchInv, Launched, Claimed, Handed, DataInv,
              Interrupted, RolledBack, Harmless
<1> QED
  BY <1>1, <1>2, FormatsStay, TakingKeepsFormats
  DEF KeepCopy, lifecycle, history, snapshotVars

LEMMA SaveDataKeepsFormats ==
  ASSUME Inv, FormatInv, SaveData
  PROVE  FormatInv'
<1>1. Launched /\ launcher'.binding = launcher.binding
  BY DEF SaveData, StillOf, Launched, Inv, TypeOK, ProcessTypeOK
<1>2. data = truth
  BY <1>1 DEF SaveData, Inv, LaunchInv, Launched, Claimed, Handed, DataInv,
              Interrupted, RolledBack, Harmless
<1> QED
  BY <1>1, <1>2, TakingKeepsFormats DEF SaveData, lifecycle, history

\* A copy whose files go keeps its number, and what its entry says.
LEMMA DropCopyKeepsFormats ==
  ASSUME Inv, FormatInv, DropCopy
  PROVE  FormatInv'
<1>1. UNCHANGED <<build, truth, taken, pending, grant, launcher, installer>>
  BY DEF DropCopy, DropOldest, lifecycle, history
<1>2. PICK s \in snapshots :
          snapshots' = (snapshots \ {s}) \union {[s EXCEPT !.whole = FALSE]}
  BY DEF DropCopy, DropOldest
<1>3. s \in Copy
  BY DEF Inv, TypeOK, SnapshotsTypeOK
<1>4. \A r \in snapshots' :
          \E q \in snapshots : /\ r.id = q.id /\ r.from = q.from
                               /\ r.holds = q.holds
  BY <1>2, <1>3 DEF Copy
<1> QED
  BY <1>1, <1>4 DEF FormatInv, Fits, Launched

LEMMA SpawnKeepsFormats ==
  ASSUME Inv, FormatInv, Spawn
  PROVE  FormatInv'
<1>1. /\ Launched /\ launcher'.binding = launcher.binding
      /\ installer'.version = launcher.binding.version
      /\ installer'.restored = launcher.binding.restore
  BY DEF Spawn, StillOf, Launched, Inv, TypeOK, ProcessTypeOK
<1>2. UNCHANGED <<build, truth, snapshots, taken, pending, grant>>
  BY DEF Spawn, snapshotVars, lifecycle, history
<1> QED
  BY <1>1, <1>2 DEF FormatInv, Fits

\* What the new build finds is one it reads: an older build finds the copy
\* that was chosen for it, and any other build is not older than the last.
LEMMA InstallKeepsFormats ==
  ASSUME Inv, FormatInv, NEW receipt \in BOOLEAN, Install(receipt)
  PROVE  FormatInv'
<1>1. /\ installer \in Running /\ handoff # None /\ handoff \in Handoff
      /\ handoff.version = installer.version
      /\ handoff.nonce = installer.nonce
      /\ handoff.restored = installer.restored
      /\ handoff.nonce \notin applied
      /\ (handoff.restored # 0) <=> (handoff.kind = "rollback")
      /\ handoff.kind = Kind(handoff.version, build)
      /\ installer.restored # 0 => Keeps(installer.restored, data)
  BY DEF Install, Inv, TypeOK, ProcessTypeOK, FileTypeOK, HandoffInv,
         InstallerOnRecord, DataInv
<1>t. /\ build \in Nat /\ installer.version \in Nat
      /\ truth.format \in Nat /\ truth.format <= build
  BY <1>1, VersionsAre
  DEF FormatInv, Inv, TypeOK, ProcessTypeOK, HistoryTypeOK, Running
<1>2. truth'.format <= installer.version
  <2>1. CASE installer.restored = 0
    <3>1. truth' = truth
      BY <2>1, ListedIs DEF Install, Inv, TypeOK
    <3>2. handoff.kind # "rollback"
      BY <1>1, <2>1
    <3>3. build <= installer.version
      BY <1>1, <1>t, <3>2 DEF Kind
    <3> QED
      BY <1>t, <3>1, <3>3
  <2>2. CASE installer.restored # 0
    <3>1. PICK s \in snapshots : s.id = installer.restored /\ s.holds = data
      BY <1>1, <2>2 DEF Keeps
    <3>2. s.holds.format <= installer.version
      BY <1>1, <3>1, NoneIsNoRecord DEF FormatInv, Fits
    <3>3. truth' = data
      BY <1>1, <2>2, SnapshotIs DEF Install, Inv, TypeOK
    <3> QED
      BY <3>1, <3>2, <3>3
  <2> QED
    BY <2>1, <2>2
<1> QED
  BY <1>2
  DEF Install, InstallerEnds, FormatInv, Fits, Launched, lifecycle,
      snapshotVars

-----------------------------------------------------------------------------
(* Every step, and the theorem. *)

\* FormatInv follows from the initial condition and survives every step.
LEMMA NextKeepsFormats == Inv /\ FormatInv /\ [Next]_vars => FormatInv'
<1> SUFFICES ASSUME Inv, FormatInv, [Next]_vars
             PROVE  FormatInv'
  OBVIOUS
<1> USE DEF lifecycle, history, snapshotVars, Launched
<1>1. ASSUME NEW p \in Process, StartStep(p)
      PROVE  FormatInv'
  <2>1. CASE Open(p)
    BY <2>1, OpenKeepsFormats
  <2>2. CASE ~Open(p)
    BY <1>1, <2>2, FormatsStay
    DEF StartStep, StartRefused, PutBack, PutBackDone, NothingToPutBack,
        Settled, Judge, ConfirmUpdate, UndoDone, RecordOutcome, Admit,
        SecondLookRefused
  <2> QED
    BY <2>1, <2>2
<1>2. ASSUME NEW p \in Process, Start(p) \/ Close(p) \/ Kill(p)
      PROVE  FormatInv'
  BY <1>2, FormatsStay DEF Start, Close, Kill
<1>3. ASSUME NEW p \in Process, Asking(p) \/ Write(p)
      PROVE  FormatInv'
  <2>1. CASE ApprovalRefused(p) \/ Discard(p)
    BY <2>1, FormatsStay DEF ApprovalRefused, Discard
  <2>2. ASSUME NEW granted \in BOOLEAN, Approve(p, granted)
        PROVE  FormatInv'
    BY <2>2, FormatsStay DEF Approve
  <2> QED
    BY <1>3, <2>1, <2>2, RequestKeepsFormats, WriteKeepsFormats DEF Asking
<1>4. CASE LauncherStep
  <2>1. CASE \/ ClaimRefused \/ LetGo \/ Withdraw \/ LaunchFails
             \/ \E reverted \in BOOLEAN : ReplacingFails(reverted)
    BY <2>1, FormatsStay
    DEF ClaimRefused, ReplacingFails, LetGo, Withdraw, LaunchFails, Ended, Idle
  <2>2. CASE \/ HandOver \/ BeginReplacing \/ FinishReplacing \/ RecordStart
             \/ NotStarted \/ TakeBack
             \/ \E saved \in BOOLEAN : RecordLaunched(saved)
    <3>1. Launched /\ launcher'.binding = launcher.binding
      BY <2>2
      DEF HandOver, BeginReplacing, FinishReplacing, RecordStart, NotStarted,
          TakeBack, RecordLaunched, StillOf, Inv, TypeOK, ProcessTypeOK
    <3> QED
      BY <2>2, <3>1, FormatsStay
      DEF HandOver, BeginReplacing, FinishReplacing, RecordStart, NotStarted,
          TakeBack, RecordLaunched
  <2> QED
    BY <1>4, <2>1, <2>2, ClaimKeepsFormats, KeepCopyKeepsFormats,
       SaveDataKeepsFormats, DropCopyKeepsFormats, SpawnKeepsFormats
    DEF LauncherStep
<1>5. CASE Quiesce \/ KillLauncher \/ InstallFails \/ PowerCut
  <2>1. Launched' => Launched /\ launcher' = launcher
    BY <1>5
    DEF Quiesce, KillLauncher, InstallFails, InstallerEnds, PowerCut, Ended,
        Idle, StillOf, Inv, TypeOK, ProcessTypeOK
  <2> QED
    BY <1>5, <2>1, FormatsStay
    DEF Quiesce, KillLauncher, InstallFails, InstallerEnds, PowerCut
<1>6. CASE UNCHANGED vars
  BY <1>6, FormatsStay DEF vars
<1> QED
  BY <1>1, <1>2, <1>3, <1>4, <1>5, <1>6, InstallKeepsFormats DEF Next

\* What every build finds, and every copy that was chosen for one, is in a
\* format that build reads.
THEOREM FormatsAreRead == Spec => []FormatInv
<1>1. Init => FormatInv
  BY InitFormats
<1>2. Inv /\ FormatInv /\ [Next]_vars => FormatInv'
  BY NextKeepsFormats
<1> QED
  BY <1>1, <1>2, UpdateInvariant, PTL DEF Spec

\* Stores are opened by no other step than Open.
LEMMA OnlyOpenOpens ==
  ASSUME Inv, [Next]_vars, NEW p \in Process, at[p] # "open",
         at'[p] = "open"
  PROVE  Open(p)
<1> USE DEF Inv, TypeOK, ProcessTypeOK, Go
<1>1. ASSUME NEW q \in Process, StartStep(q) \/ Start(q) \/ Close(q) \/ Kill(q)
      PROVE  Open(p)
  <2>1. CASE Open(q)
    BY <2>1 DEF Open
  <2>2. CASE ~Open(q)
    BY <1>1, <2>2
    DEF StartStep, StartRefused, PutBack, PutBackDone, NothingToPutBack,
        Settled, Judge, ConfirmUpdate, UndoDone, RecordOutcome, Admit,
        SecondLookRefused, Start, Close, Kill, Gone
  <2> QED
    BY <2>1, <2>2
<1>2. ASSUME NEW q \in Process, Asking(q) \/ Write(q)
      PROVE  Open(p)
  BY <1>2 DEF Asking, Request, ApprovalRefused, Approve, Discard, Write
<1>3. CASE LauncherStep
  BY <1>3
  DEF LauncherStep, Claim, ClaimRefused, KeepCopy, HandOver, SaveData,
      BeginReplacing, FinishReplacing, ReplacingFails, RecordStart, Spawn,
      RecordLaunched, LetGo, NotStarted, TakeBack, Withdraw, LaunchFails,
      DropCopy
<1>4. CASE Quiesce \/ KillLauncher \/ InstallFails \/ PowerCut
           \/ \E receipt \in BOOLEAN : Install(receipt)
  BY <1>4 DEF Quiesce, KillLauncher, InstallFails, Install, InstallerEnds,
              PowerCut
<1>5. CASE UNCHANGED vars
  BY <1>5 DEF vars
<1> QED
  BY <1>1, <1>2, <1>3, <1>4, <1>5 DEF Next

\* No build opens data in a format newer than it reads.
THEOREM NeverNewerData == Spec => NeverNewer
<1> DEFINE Opens == \A p \in Process :
                        at[p] # "open" /\ at'[p] = "open" =>
                            data.format <= build
<1>1. ASSUME Inv, FormatInv, [Next]_vars, NEW p \in Process,
             at[p] # "open", at'[p] = "open"
      PROVE  data.format <= build
  <2>1. Open(p)
    BY <1>1, OnlyOpenOpens
  <2>2. launching = None /\ Harmless
    BY <1>1, <2>1
    DEF Open, NothingPending, ResolvedUnconfirmed, Inv, RequestInv,
        HandoffInv, Harmless
  <2>3. data = truth
    BY <1>1, <2>2 DEF Inv, DataInv, Interrupted, RolledBack, Harmless
  <2> QED
    BY <1>1, <2>3 DEF FormatInv
<1>2. Inv /\ FormatInv /\ [Next]_vars => [Opens]_vars
  BY <1>1
<1> QED
  BY <1>2, UpdateInvariant, FormatsAreRead, PTL DEF Spec, NeverNewer
=============================================================================
