------------------------ MODULE UpdateLifecycleProofs ------------------------
(***************************************************************************)
(* Proofs about updates and the data they leave behind, for any versions,  *)
(* processes, limits, and deaths of processes and of the machine.          *)
(***************************************************************************)
EXTENDS UpdateLifecycle, WellFoundedInduction, TLAPS

-----------------------------------------------------------------------------
(* The invariant. *)

\* Places inside the lock, and what the launching process has got to.
Judging == Inside \ {"rechecking"}
Claimed == {"copying", "handing_off", "saving_data", "replacing_data"}
Handed == {"spawning", "taking_back", "withdrawing", "recording",
           "handing_over"}
Spawned == {"recording", "handing_over"}
Launched == launcher.at \notin {"off", "claiming"}

\* A copy of this number has its files, and holds this.
Keeps(id, content) ==
    \E s \in snapshots : s.whole /\ s.id = id /\ s.holds = content

\* No data hangs on the handoff, or: the data was put back for a rollback that
\* has not taken place.
Harmless == handoff = None \/ handoff.safety = 0
RolledBack ==
    handoff # None /\ handoff.safety # 0 /\ handoff.nonce \notin applied

\* Who is alone with the stores, and with the lifecycle file.
AloneInv ==
    /\ AloneInStores
    /\ Launched \/ installer # None => LockFree
    /\ installer # None => launcher.at \in {"off"} \union Spawned

\* What was asked for, approved and staged fits the build that runs.
RequestInv ==
    /\ \A g \in {pending, grant} \ {None} :
           (g.restore # 0) <=> (g.kind = "rollback")
    /\ grant # None => /\ grant.kind = Kind(grant.version, build)
                       /\ ~Launched /\ installer = None
                       /\ launching = None /\ Harmless
    /\ phase = "staged" => staged.kind = Kind(staged.version, build)
    /\ outcome # None /\ outcome.result = "unconfirmed" =>
           outcome.kind = "repair"

\* The claim and the handoff of a launch say what the launch has done.
LaunchInv ==
    Launched =>
        LET binding == launcher.binding
        IN  /\ binding # None
            /\ (binding.restore # 0) <=> (binding.kind = "rollback")
            /\ launcher.at \notin Spawned =>
                   binding.kind = Kind(binding.version, build)
            /\ phase = IF launcher.at \in {"copying", "handing_off"}
                       THEN "staged" ELSE "handed_off"
            /\ staged.version = binding.version /\ staged.kind = binding.kind
            /\ launcher.at # "handing_over" => launching # None
            /\ launcher.at \in Claimed => launching.step = "claimed"
            /\ launcher.at \in {"copying", "handing_off", "saving_data"} =>
                   launcher.safety = 0
            /\ launcher.at \in {"saving_data", "replacing_data",
                                "replacing_files"} => binding.restore # 0
            /\ launcher.at \in {"replacing_data", "replacing_files"} =>
                   launcher.safety # 0
            /\ launcher.at \in {"starting"} \union Handed =>
                   (launcher.safety # 0) <=> (binding.restore # 0)
            /\ launcher.safety \in Whole \union {0}
            /\ \/ launcher.at = "replacing_files"
               \/ launcher.at = "starting" /\ launcher.safety # 0
               => /\ launching.step = "restoring"
                  /\ launching.safety = launcher.safety
            /\ launcher.at = "starting" /\ launcher.safety = 0 =>
                   launching.step = "claimed"
            /\ launcher.at \in Handed \ {"handing_over"} =>
                   launching.step = "starting"
            /\ launcher.at \notin Handed => Harmless
            /\ launcher.at \in Handed =>
                   /\ handoff = [version |-> binding.version,
                                 kind |-> binding.kind,
                                 restored |-> binding.restore,
                                 safety |-> launcher.safety,
                                 nonce |-> nonces]
                   /\ launcher.at \notin Spawned => nonces \notin applied

\* A handoff is of the build that runs if its installation took place, and
\* else of the kind it was approved as.
HandoffInv ==
    /\ handoff # None =>
           /\ handoff.nonce \in 1..nonces
           /\ (handoff.safety # 0) <=> (handoff.kind = "rollback")
           /\ (handoff.restored # 0) <=> (handoff.kind = "rollback")
           /\ IF handoff.nonce \in applied
              THEN handoff.version = build
              ELSE handoff.kind = Kind(handoff.version, build)
           /\ phase = "handed_off" /\ handoff.safety # 0 =>
                  staged.version = handoff.version /\ staged.kind = handoff.kind
    /\ InstallerOnRecord
    /\ installer # None => /\ handoff.restored = installer.restored
                           /\ handoff.nonce \notin applied

\* The data is what it should be, unless it is being replaced or was replaced
\* for nothing; a copy holds what it should be then.
DataInv ==
    /\ Interrupted \/ RolledBack \/ data = truth
    /\ Interrupted => Keeps(launching.safety, truth)
    /\ RolledBack => Keeps(handoff.safety, truth)
    /\ launcher.at = "replacing_data" => Keeps(launcher.safety, truth)
    /\ launcher.at \in {"starting", "spawning"}
       /\ launcher.binding.restore # 0 => Keeps(launcher.binding.restore, data)
    /\ installer # None =>
           /\ ~Interrupted
           /\ installer.restored # 0 => Keeps(installer.restored, data)
    /\ launcher.at = "withdrawing" => data = truth

\* What each process at the barrier has found out and put right, and what a
\* process with open stores may rely on.
BarrierInv ==
    \A p \in Process :
        /\ at[p] = "open" => launching = None /\ Harmless
        /\ at[p] = "putting_back" => Interrupted /\ handoff = None
        /\ at[p] \in Judging \ {"putting_back"} /\ Interrupted =>
               data = truth /\ handoff = None
        /\ at[p] \in {"confirming", "recording_applied", "undoing",
                      "recording_not_applied"} => judged # None
        /\ at[p] \in {"confirming", "recording_applied"} /\ judged.evidence =>
               handoff # None /\ handoff.nonce \in applied
        /\ at[p] = "confirming" =>
               phase = "handed_off" /\ judged.package = staged
        /\ at[p] = "recording_applied" =>
               /\ judged.package.version = build
               /\ judged.package.kind = "repair" => judged.evidence
               /\ ~RolledBack
        /\ at[p] \in {"undoing", "recording_not_applied"} =>
               judged.package.version # build
        /\ at[p] = "undoing" => RolledBack
        /\ at[p] = "recording_not_applied" => data = truth

\* CopiesAreKept, record by record: a copy is listed, and has its files too.
Kept(id) == id \in Listed \union {0}
Sound(id) == id \in Whole \union {0}
KeptInv == /\ launching # None => Sound(launching.safety)
           /\ handoff # None => Sound(handoff.safety)
           /\ pending # None => Kept(pending.restore)
           /\ grant # None => Kept(grant.restore)

Inv == /\ TypeOK /\ AloneInv /\ RequestInv /\ LaunchInv /\ HandoffInv
       /\ DataInv /\ BarrierInv /\ KeptInv

-----------------------------------------------------------------------------
(* The copies of the data. *)

Contents == [format : Version, content : Nat]

LEMMA VersionsAre ==
    /\ Version \subseteq Nat \ {0}
    /\ None \notin Version /\ 0 \notin Version
  BY VersionAssumption

LEMMA NoneIsNoRecord ==
    /\ None \notin Package /\ None \notin Binding /\ None \notin ClaimRecord
    /\ None \notin Handoff /\ None \notin Outcome /\ None \notin Judgement
    /\ None \notin Running
  BY PackageAssumption, NoneAssumption

LEMMA WholeIs ==
    /\ Whole \subseteq Listed
    /\ \A id : id \in Whole <=> \E s \in snapshots : s.whole /\ s.id = id
  BY DEF Whole, Listed

\* What a number looks up is the copy that has it.
LEMMA SnapshotIs ==
    ASSUME SnapshotsTypeOK, NEW id, NEW x, Keeps(id, x)
    PROVE  /\ Snapshot(id).holds = x /\ x \in Contents
           /\ id \in Whole /\ id \in Listed
<1>1. PICK s \in snapshots : s.whole /\ s.id = id /\ s.holds = x
  BY DEF Keeps
<1>2. Snapshot(id) = s
  BY <1>1 DEF Snapshot, SnapshotsTypeOK
<1>3. s \in Copy
  BY <1>1 DEF SnapshotsTypeOK
<1> QED
  BY <1>1, <1>2, <1>3, WholeIs DEF Copy, Contents

LEMMA ListedIs ==
    ASSUME SnapshotsTypeOK, NEW id \in Listed
    PROVE  id \in Nat \ {0}
<1>1. PICK s \in snapshots : s.id = id
  BY DEF Listed
<1>2. s \in Copy
  BY <1>1 DEF SnapshotsTypeOK
<1> QED
  BY <1>1, <1>2 DEF Copy

LEMMA KeptIsThere ==
    ASSUME SnapshotsTypeOK, NEW id \in Whole
    PROVE  /\ Keeps(id, Snapshot(id).holds)
           /\ Snapshot(id).holds \in Contents
<1>1. PICK s \in snapshots : s.whole /\ s.id = id
  BY WholeIs
<1>2. Keeps(id, s.holds)
  BY <1>1 DEF Keeps
<1> QED
  BY <1>2, SnapshotIs

\* A non-empty set of numbers up to a bound has a greatest one.
LEMMA Greatest ==
    ASSUME NEW bound \in Nat, NEW S, S \subseteq 0..bound, S # {}
    PROVE  \E n \in S : \A m \in S : m <= n
<1> DEFINE T == {bound - n : n \in S}
<1> DEFINE R == {ss \in Nat \X Nat : ss[1] < ss[2]}
<1>1. IsWellFoundedOn(R, Nat)
  BY NatLessThanWellFounded DEF OpToRel
<1>2. T \subseteq Nat /\ T # {}
  <2>1. \A n \in S : n \in Nat /\ n <= bound
    OBVIOUS
  <2>2. T # {}
    OBVIOUS
  <2> QED
    BY <2>1, <2>2
<1> HIDE DEF R
<1>3. PICK x \in T : \A y \in T : ~ (<<y, x>> \in R)
  BY <1>1, <1>2, WFMin
<1>4. PICK n \in S : x = bound - n
  OBVIOUS
<1>5. ASSUME NEW m \in S
      PROVE  m <= n
  <2>1. bound - m \in T /\ <<bound - m, x>> \notin R
    BY <1>3
  <2> QED
    BY <1>2, <1>4, <2>1 DEF R
<1> QED
  BY <1>5

\* The copy a rollback is offered is one of those that are kept.
LEMMA CopyForIs ==
    ASSUME SnapshotsTypeOK, NEW v
    PROVE  CopyFor(v) \in Listed \union {0}
<1> DEFINE readable == {s.id : s \in {c \in snapshots :
                           c.reason = "upgrade" /\ c.from <= v}}
<1>1. readable \subseteq Listed /\ readable \subseteq 0..taken
  BY DEF Listed, SnapshotsTypeOK, Copy
<1>2. CASE readable # {}
  <2>1. \E n \in readable : \A m \in readable : m <= n
    BY <1>1, <1>2, Greatest DEF SnapshotsTypeOK
  <2> QED
    BY <1>1, <1>2, <2>1 DEF CopyFor
<1> QED
  BY <1>2 DEF CopyFor

LEMMA PrunedIs ==
    ASSUME NEW copies, NEW pinned
    PROVE  /\ Pruned(copies, pinned) \subseteq copies
           /\ \A s \in copies : s.id \in pinned => s \in Pruned(copies, pinned)
  BY Zenon DEF Pruned

\* Taking a copy loses none of the copies that are referred to.
LEMMA TakeSnapshotKeeps ==
    ASSUME SnapshotsTypeOK, NEW reason \in {"upgrade", "pre_restore"},
           NEW b \in Version, NEW pinned, data \in Contents,
           TakeSnapshot(reason, b, pinned)
    PROVE  /\ SnapshotsTypeOK' /\ data' = data
           /\ taken' = taken + 1 /\ taken + 1 \in Nat \ {0}
           /\ \A id \in pinned : id \in Listed => id \in Listed'
           /\ \A id \in pinned : id \in Whole => id \in Whole'
           /\ \A id \in pinned : \A x : Keeps(id, x) => Keeps(id, x)'
           /\ \E s \in snapshots' :
                  s.whole /\ s.id = taken + 1 /\ s.holds = data
<1> DEFINE entry == Entry(reason, b)
<1>1. /\ snapshots' = Pruned(snapshots \union {entry},
                             pinned \union {entry.id})
      /\ taken' = taken + 1 /\ data' = data
  BY DEF TakeSnapshot, Left
<1>2. /\ entry \in Copy /\ taken \in Nat
      /\ entry.id = taken + 1 /\ entry.holds = data /\ entry.whole
  BY DEF Entry, Copy, SnapshotsTypeOK, Contents
<1> HIDE DEF entry
<1>3. /\ snapshots' \subseteq snapshots \union {entry}
      /\ \A s \in snapshots \union {entry} :
             s.id \in pinned \union {entry.id} => s \in snapshots'
  BY <1>1, PrunedIs
<1>4. SnapshotsTypeOK'
  <2>1. \A s \in snapshots' : s \in snapshots \/ s = entry
    BY <1>3
  <2>2. \A s \in snapshots : s \in Copy /\ s.id \in Nat /\ s.id <= taken
    BY DEF SnapshotsTypeOK, Copy
  <2>3. \A s \in snapshots' : s.id <= taken + 1
    BY <1>2, <2>1, <2>2
  <2>5. \A s \in snapshots : s.id # entry.id
    BY <1>2, <2>2
  <2>6. \A s, r \in snapshots' : s.id = r.id => s = r
    BY <2>1, <2>5 DEF SnapshotsTypeOK
  <2>4. data' \in [format : Version \union {0}, content : Nat]
    BY <1>1 DEF SnapshotsTypeOK
  <2> QED
    <3>1. snapshots' \subseteq Copy
      BY <1>2, <2>1, <2>2
    <3>2. taken' \in Nat
      BY <1>1, <1>2
    <3> QED
      BY <1>1, <2>3, <2>4, <2>6, <3>1, <3>2 DEF SnapshotsTypeOK
<1>5. \A id \in pinned :
          \A s \in snapshots : s.id = id => s \in snapshots'
  BY <1>3
<1>6. entry \in snapshots'
  BY <1>3
<1>7. taken + 1 \in Nat \ {0}
  BY <1>2
<1>8. \A id \in pinned : id \in Listed => id \in Listed'
  BY <1>5 DEF Listed
<1>9. \A id \in pinned : \A x : Keeps(id, x) => Keeps(id, x)'
  BY <1>5 DEF Keeps
<1>10. \A id \in pinned : id \in Whole => id \in Whole'
  BY <1>5 DEF Whole
<1> QED
  BY <1>1, <1>2, <1>4, <1>6, <1>7, <1>8, <1>9, <1>10

\* Deleting files takes them from one copy, and from none that is pinned.
LEMMA DropOldestKeeps ==
    ASSUME SnapshotsTypeOK, NEW reason, NEW b, NEW pinned,
           DropOldest(reason, b, pinned)
    PROVE  /\ SnapshotsTypeOK' /\ UNCHANGED <<data, taken>>
           /\ Listed' = Listed
           /\ \A id \in pinned : id \in Whole => id \in Whole'
<1> DEFINE left == Left(Entry(reason, b), pinned)
<1>1. PICK s \in snapshots :
          /\ s \notin left /\ s.whole
          /\ snapshots' = (snapshots \ {s})
                              \union {[s EXCEPT !.whole = FALSE]}
          /\ UNCHANGED <<data, taken>>
  BY DEF DropOldest
<1> DEFINE emptied == [s EXCEPT !.whole = FALSE]
<1>2. s \in Copy /\ emptied \in Copy /\ emptied.id = s.id
  BY <1>1 DEF SnapshotsTypeOK, Copy
<1>3. s.id \notin pinned
  BY <1>1, PrunedIs DEF Left
<1> HIDE DEF left, emptied
<1>4. \A r \in snapshots' : r = emptied \/ (r \in snapshots /\ r # s)
  BY <1>1 DEF emptied
<1>5. /\ \A r \in snapshots : r # s => r \in snapshots'
      /\ emptied \in snapshots'
  BY <1>1 DEF emptied
<1>6. SnapshotsTypeOK'
  <2>1. /\ data' \in [format : Version \union {0}, content : Nat]
        /\ taken' \in Nat
    BY <1>1 DEF SnapshotsTypeOK
  <2>2. \A r \in snapshots' : r \in Copy /\ r.id <= taken'
    BY <1>1, <1>2, <1>4 DEF SnapshotsTypeOK
  <2>3. \A r, q \in snapshots' : r.id = q.id => r = q
    BY <1>1, <1>2, <1>4 DEF SnapshotsTypeOK
  <2> QED
    BY <2>1, <2>2, <2>3 DEF SnapshotsTypeOK
<1>7. Listed' = Listed
  BY <1>1, <1>2, <1>4, <1>5 DEF Listed
<1>8. \A id \in pinned : id \in Whole => id \in Whole'
  BY <1>3, <1>5 DEF Whole
<1> QED
  BY <1>1, <1>6, <1>7, <1>8

-----------------------------------------------------------------------------
(* What a step leaves alone. *)

LEMMA Untouched ==
    ASSUME Inv
    PROVE  /\ UNCHANGED <<phase, staged>> => StoreTypeOK'
           /\ UNCHANGED <<shared, exclusive, fence>> => AdmissionTypeOK'
           /\ UNCHANGED <<data, snapshots, taken>> => SnapshotsTypeOK'
           /\ UNCHANGED <<pending, grant, launching, handoff, outcome>> =>
                  FileTypeOK'
           /\ UNCHANGED <<build, at, judged, launcher, installer>> =>
                  ProcessTypeOK'
           /\ UNCHANGED <<nonces, approvals, applied, receipts, truth>> =>
                  HistoryTypeOK'
           /\ UNCHANGED <<shared, exclusive, fence, at, launcher, installer>> =>
                  HoldsAgree' /\ AloneInv'
           /\ UNCHANGED <<phase, staged, build, pending, grant, launching,
                          handoff, outcome, launcher, installer>> =>
                  RequestInv'
           /\ UNCHANGED <<phase, staged, snapshots, build, launching, handoff,
                          launcher, nonces, applied>> => LaunchInv'
           /\ UNCHANGED <<phase, staged, build, handoff, installer, nonces,
                          applied>> => HandoffInv'
           /\ UNCHANGED <<data, snapshots, launching, handoff, launcher,
                          installer, applied, truth>> => DataInv'
           /\ UNCHANGED <<phase, staged, data, build, launching, handoff, at,
                          judged, applied, truth>> => BarrierInv'
           /\ UNCHANGED <<snapshots, pending, grant, launching, handoff>> =>
                  KeptInv'
<1>1. /\ UNCHANGED <<phase, staged>> => StoreTypeOK'
      /\ UNCHANGED <<shared, exclusive, fence>> => AdmissionTypeOK'
      /\ UNCHANGED <<data, snapshots, taken>> => SnapshotsTypeOK'
  BY DEF Inv, TypeOK, StoreTypeOK, AdmissionTypeOK, SnapshotsTypeOK
<1>2. /\ UNCHANGED <<pending, grant, launching, handoff, outcome>> =>
             FileTypeOK'
      /\ UNCHANGED <<build, at, judged, launcher, installer>> =>
             ProcessTypeOK'
      /\ UNCHANGED <<nonces, approvals, applied, receipts, truth>> =>
             HistoryTypeOK'
  BY DEF Inv, TypeOK, FileTypeOK, ProcessTypeOK, HistoryTypeOK
<1>3. UNCHANGED <<shared, exclusive, fence, at, launcher, installer>> =>
          HoldsAgree' /\ AloneInv'
  BY DEF Inv, TypeOK, HoldsAgree, AloneInv, AloneInStores, Launched, LockFree
<1>4. UNCHANGED <<phase, staged, build, pending, grant, launching, handoff,
                  outcome, launcher, installer>> => RequestInv'
  BY DEF Inv, RequestInv, Launched, Harmless
<1>5. UNCHANGED <<phase, staged, snapshots, build, launching, handoff,
                  launcher, nonces, applied>> => LaunchInv'
  BY DEF Inv, LaunchInv, Launched, Harmless, Whole
<1>6. UNCHANGED <<phase, staged, build, handoff, installer, nonces,
                  applied>> => HandoffInv'
  BY DEF Inv, HandoffInv, InstallerOnRecord
<1>7. UNCHANGED <<data, snapshots, launching, handoff, launcher, installer,
                  applied, truth>> => DataInv'
  BY DEF Inv, DataInv, Interrupted, RolledBack, Keeps
<1>8. UNCHANGED <<phase, staged, data, build, launching, handoff, at, judged,
                  applied, truth>> => BarrierInv'
  BY DEF Inv, BarrierInv, Harmless, Interrupted, RolledBack
<1>9. UNCHANGED <<snapshots, pending, grant, launching, handoff>> =>
          KeptInv'
  BY DEF Inv, KeptInv, Kept, Sound,
         Listed, Whole
<1> QED
  BY <1>1, <1>2, <1>3, <1>4, <1>5, <1>6, <1>7, <1>8, <1>9

\* The places a process may be in while an update is under way.
Outside == {"off", "rechecking", "admission"}

\* Nobody holds the fence: there is neither a launch nor an installer.
LEMMA NobodyUpdates ==
    ASSUME Inv, ~Live
    PROVE  launcher.at = "off" /\ installer = None
  BY DEF Inv, TypeOK, HoldsAgree, Live, UpdateInProgress

\* A process with open stores: no launch, no installer, and its own data.
LEMMA OpenIs ==
    ASSUME Inv, NEW p \in Process, at[p] = "open"
    PROVE  /\ launcher.at = "off" /\ installer = None
           /\ launching = None /\ Harmless /\ data = truth
           /\ ~Interrupted /\ ~RolledBack
<1>1. p \in shared
  BY DEF Inv, TypeOK, HoldsAgree
<1>2. launching = None /\ Harmless
  BY DEF Inv, BarrierInv
<1>3. ~Interrupted /\ ~RolledBack
  BY <1>2 DEF Interrupted, Harmless, RolledBack
<1> QED
  BY <1>1, <1>2, <1>3 DEF Inv, AloneInv, AloneInStores, DataInv

\* A process at the barrier: no launch past its quiescence, no installer, and
\* nobody else at the barrier.
LEMMA JudgingIs ==
    ASSUME Inv, NEW p \in Process, at[p] \in Judging
    PROVE  /\ ~Launched /\ installer = None
           /\ \A q \in Process : at[q] \in Judging => q = p
  BY DEF Inv, TypeOK, HoldsAgree, AloneInv, LockFree, Judging

\* A launch or an installer: all processes are outside.
LEMMA UpdatingIs ==
    ASSUME Inv, Launched \/ installer # None
    PROVE  /\ shared = {} /\ exclusive \subseteq {"launcher"}
           /\ \A p \in Process : at[p] \in Outside
           /\ grant = None
<1>1. shared = {} /\ LockFree
  BY DEF Inv, AloneInv, AloneInStores, Launched
<1>2. ASSUME NEW p \in Process
      PROVE  at[p] \in Outside /\ p \notin exclusive
  BY <1>1
  DEF Inv, TypeOK, HoldsAgree, ProcessTypeOK, Places, Inside, LockFree, Outside
<1> QED
  BY <1>1, <1>2 DEF Inv, TypeOK, AdmissionTypeOK, RequestInv

LEMMA LaunchEnds ==
    ASSUME launcher'.at \in {"off", "claiming"}
    PROVE  LaunchInv'
  BY DEF LaunchInv, Launched

LEMMA BarrierEmpty ==
    ASSUME \A p \in Process : at'[p] \in Outside \union {"second_look"}
    PROVE  BarrierInv'
  BY DEF BarrierInv, Outside, Judging, Inside


LEMMA KeptIs == KeptInv => CopiesAreKept
<1> DEFINE safe == {r.safety : r \in {launching, handoff} \ {None}}
<1> DEFINE asked == {g.restore : g \in {pending, grant} \ {None}}
<1>1. ASSUME KeptInv, NEW id \in safe
      PROVE  Sound(id)
  <2>1. PICK r \in {launching, handoff} \ {None} : id = r.safety
    OBVIOUS
  <2> QED
    BY <1>1, <2>1 DEF KeptInv
<1>2. ASSUME KeptInv, NEW id \in asked
      PROVE  Kept(id)
  <2>1. PICK g \in {pending, grant} \ {None} : id = g.restore
    OBVIOUS
  <2> QED
    BY <1>2, <2>1 DEF KeptInv
<1>3. CopiesAreKept <=> /\ safe \subseteq Whole \union {0}
                        /\ asked \subseteq Listed \union {0}
  BY Zenon DEF CopiesAreKept
<1> HIDE DEF safe, asked
<1> QED
  BY <1>1, <1>2, <1>3 DEF Kept, Sound

\* What a launch, a handoff, a request or an approval refers to is pinned.
LEMMA PinnedIs ==
    /\ launching # None =>
           launching.restored \in Pinned /\ launching.safety \in Pinned
    /\ handoff # None =>
           handoff.restored \in Pinned /\ handoff.safety \in Pinned
    /\ pending # None => pending.restore \in Pinned
    /\ grant # None => grant.restore \in Pinned
<1> DEFINE records == {launching, handoff} \ {None}
<1> DEFINE named == {{r.restored, r.safety} : r \in records}
<1> DEFINE asked == {g.restore : g \in {pending, grant} \ {None}}
<1>1. ASSUME NEW r \in records
      PROVE  {r.restored, r.safety} \in named
  OBVIOUS
<1>2. ASSUME NEW g \in {pending, grant} \ {None}
      PROVE  g.restore \in asked
  OBVIOUS
<1>3. Pinned = (UNION named) \union asked
  BY DEF Pinned
<1> HIDE DEF named, asked
<1>4. ASSUME NEW r \in records
      PROVE  r.restored \in Pinned /\ r.safety \in Pinned
  <2>1. {r.restored, r.safety} \subseteq UNION named
    BY <1>1, Zenon
  <2> QED
    BY <2>1, <1>3
<1>5. ASSUME NEW g \in {pending, grant} \ {None}
      PROVE  g.restore \in Pinned
  BY <1>2, <1>3
<1> QED
  BY <1>4, <1>5

\* What is asked for has its kind, and a rollback a copy that is kept.
LEMMA BindingForIs ==
    ASSUME Inv, NEW v \in Version
    PROVE  /\ BindingFor(v) \in Binding
           /\ BindingFor(v).kind = Kind(v, build)
           /\ BindingFor(v).version = v
           /\ Kept(BindingFor(v).restore)
           /\ BindingFor(v).restore # 0 => BindingFor(v).kind = "rollback"
<1>1. Kept(CopyFor(v)) /\ Kept(0)
  BY CopyForIs DEF Kept, Inv, TypeOK
<1>2. \A id : Kept(id) => id \in Nat
  BY ListedIs DEF Kept, Inv, TypeOK
<1>3. Kind(v, build) \in Kinds
  BY DEF Kind, Kinds
<1> QED
  BY <1>1, <1>2, <1>3 DEF BindingFor, Binding

-----------------------------------------------------------------------------
(* Every step keeps the invariant. *)

USE DEF storeVars, admissionVars, snapshotVars, lifecycle, history

\* A start looks at the fence first: no update is under way.
LEMMA StartKeepsInv ==
    ASSUME Inv, NEW p \in Process, Start(p)
    PROVE  Inv'
<1>1. launcher.at = "off" /\ installer = None
  BY NobodyUpdates DEF Start
<1>2. /\ StoreTypeOK' /\ AdmissionTypeOK' /\ SnapshotsTypeOK'
      /\ FileTypeOK' /\ HistoryTypeOK' /\ RequestInv' /\ LaunchInv'
      /\ HandoffInv' /\ DataInv' /\ KeptInv'
  BY Untouched DEF Start, Go
<1>3. ProcessTypeOK'
  BY <1>1 DEF Start, Go, Inv, TypeOK, ProcessTypeOK, Places, Stages, Inside
<1>4. HoldsAgree'
  BY <1>1
  DEF Start, Go, Inv, TypeOK, HoldsAgree, ProcessTypeOK, LockFree, Inside
<1>5. AloneInv'
  BY <1>1
  DEF Start, Go, Inv, TypeOK, ProcessTypeOK, AloneInv, AloneInStores,
      Launched, LockFree, Inside, Spawned
<1>6. BarrierInv'
  BY <1>1
  DEF Start, Go, Inv, TypeOK, ProcessTypeOK, BarrierInv, Interrupted,
      RolledBack, Harmless, Judging, Inside
<1> QED
  BY <1>2, <1>3, <1>4, <1>5, <1>6 DEF Inv, TypeOK

LEMMA StartRefusedKeepsInv ==
    ASSUME Inv, NEW p \in Process, StartRefused(p)
    PROVE  Inv'
<1>1. /\ StoreTypeOK' /\ AdmissionTypeOK' /\ SnapshotsTypeOK'
      /\ FileTypeOK' /\ HistoryTypeOK' /\ RequestInv' /\ LaunchInv'
      /\ HandoffInv' /\ DataInv' /\ KeptInv'
  BY Untouched DEF StartRefused, Go
<1>2. ProcessTypeOK'
  BY DEF StartRefused, Go, Inv, TypeOK, ProcessTypeOK, Places, Stages, Inside
<1>3. HoldsAgree'
  BY DEF StartRefused, Go, Inv, TypeOK, HoldsAgree, ProcessTypeOK, LockFree,
         Inside
<1>4. AloneInv'
  BY DEF StartRefused, Go, Inv, TypeOK, ProcessTypeOK, AloneInv,
         AloneInStores, Launched, LockFree, Inside, Spawned
<1>5. BarrierInv'
  BY DEF StartRefused, Go, Inv, TypeOK, ProcessTypeOK, BarrierInv,
         Interrupted, RolledBack, Harmless, Judging, Inside
<1> QED
  BY <1>1, <1>2, <1>3, <1>4, <1>5 DEF Inv, TypeOK

\* The data is half of each while the safety copy goes back.
LEMMA PutBackKeepsInv ==
    ASSUME Inv, NEW p \in Process, PutBack(p)
    PROVE  Inv'
<1>1. ~Launched /\ installer = None
  BY NobodyUpdates DEF PutBack, Launched
<1>2. /\ StoreTypeOK' /\ FileTypeOK' /\ HistoryTypeOK' /\ RequestInv'
      /\ LaunchInv' /\ HandoffInv' /\ KeptInv'
  BY Untouched DEF PutBack, Go, MayExclude
<1>3. AdmissionTypeOK'
  BY <1>1 DEF PutBack, Go, MayExclude, Inv, TypeOK, AdmissionTypeOK
<1>4. SnapshotsTypeOK'
  BY DEF PutBack, Go, MayExclude, Inv, TypeOK, SnapshotsTypeOK, Torn
<1>5. ProcessTypeOK'
  BY <1>1
  DEF PutBack, Go, MayExclude, Inv, TypeOK, ProcessTypeOK, Places, Stages,
      Inside
<1>6. HoldsAgree'
  BY <1>1
  DEF PutBack, Go, MayExclude, Inv, TypeOK, HoldsAgree, ProcessTypeOK,
      LockFree, Inside
<1>7. AloneInv'
  BY <1>1
  DEF PutBack, Go, MayExclude, Inv, TypeOK, ProcessTypeOK, AloneInv,
      AloneInStores, Launched, LockFree, Inside, Spawned
<1>8. DataInv'
  BY <1>1
  DEF PutBack, Go, MayExclude, Inv, DataInv, Interrupted, RolledBack, Keeps,
      Inexplicable, Launched
<1>9. BarrierInv'
  BY DEF PutBack, Go, MayExclude, Inv, TypeOK, ProcessTypeOK, BarrierInv,
         Interrupted, RolledBack, Harmless, Judging, Inside, Inexplicable,
         LockFree, HoldsAgree
<1> QED
  BY <1>2, <1>3, <1>4, <1>5, <1>6, <1>7, <1>8, <1>9 DEF Inv, TypeOK

\* The copy the interrupted claim names is what the data should be.
LEMMA PutBackDoneKeepsInv ==
    ASSUME Inv, NEW p \in Process, PutBackDone(p)
    PROVE  Inv'
<1>1. /\ ~Launched /\ installer = None
      /\ \A q \in Process : at[q] \in Judging => q = p
  BY JudgingIs DEF PutBackDone, Judging, Inside
<1>2. /\ Interrupted /\ handoff = None
      /\ data' = truth /\ truth \in Contents
  BY SnapshotIs DEF PutBackDone, Inv, TypeOK, BarrierInv, DataInv, Interrupted
<1>3. /\ StoreTypeOK' /\ FileTypeOK' /\ HistoryTypeOK' /\ RequestInv'
      /\ LaunchInv' /\ HandoffInv' /\ KeptInv'
  BY Untouched DEF PutBackDone, Go
<1>4. AdmissionTypeOK'
  BY <1>1, <1>2 DEF PutBackDone, Go, Inv, TypeOK, AdmissionTypeOK
<1>5. SnapshotsTypeOK'
  BY <1>2 DEF PutBackDone, Go, Inv, TypeOK, SnapshotsTypeOK, Contents
<1>6. ProcessTypeOK'
  BY <1>1, <1>2
  DEF PutBackDone, Go, Inv, TypeOK, ProcessTypeOK, Places, Stages, Inside
<1>7. HoldsAgree'
  BY <1>1, <1>2
  DEF PutBackDone, Go, Inv, TypeOK, HoldsAgree, ProcessTypeOK, LockFree,
      Inside
<1>8. AloneInv'
  BY <1>1, <1>2
  DEF PutBackDone, Go, Inv, TypeOK, ProcessTypeOK, AloneInv, AloneInStores,
      Launched, LockFree, Inside, Spawned
<1>9. DataInv'
  BY <1>1, <1>2
  DEF PutBackDone, Go, Inv, DataInv, Interrupted, RolledBack, Keeps, Launched
<1>10. BarrierInv'
  BY <1>1, <1>2
  DEF PutBackDone, Go, Inv, TypeOK, ProcessTypeOK, BarrierInv, Interrupted,
      RolledBack, Harmless, Judging, Inside
<1> QED
  BY <1>3, <1>4, <1>5, <1>6, <1>7, <1>8, <1>9, <1>10 DEF Inv, TypeOK

LEMMA NothingToPutBackKeepsInv ==
    ASSUME Inv, NEW p \in Process, NothingToPutBack(p)
    PROVE  Inv'
<1>1. ~Launched /\ installer = None
  BY NobodyUpdates DEF NothingToPutBack, Launched
<1>2. /\ StoreTypeOK' /\ AdmissionTypeOK' /\ SnapshotsTypeOK'
      /\ FileTypeOK' /\ HistoryTypeOK' /\ RequestInv' /\ LaunchInv'
      /\ HandoffInv' /\ DataInv' /\ KeptInv'
  BY Untouched DEF NothingToPutBack, Go
<1>3. ProcessTypeOK'
  BY <1>1
  DEF NothingToPutBack, Go, Inv, TypeOK, ProcessTypeOK, Places, Stages, Inside
<1>4. HoldsAgree'
  BY <1>1
  DEF NothingToPutBack, Go, Inv, TypeOK, HoldsAgree, ProcessTypeOK, LockFree,
      Inside
<1>5. AloneInv'
  BY <1>1
  DEF NothingToPutBack, Go, Inv, TypeOK, ProcessTypeOK, AloneInv,
      AloneInStores, Launched, LockFree, Inside, Spawned
<1>6. BarrierInv'
  BY <1>1
  DEF NothingToPutBack, Go, Inv, TypeOK, ProcessTypeOK, BarrierInv,
      Interrupted, RolledBack, Harmless, Judging, Inside
<1> QED
  BY <1>2, <1>3, <1>4, <1>5, <1>6 DEF Inv, TypeOK

\* Nothing was handed off, or it is undecided and its claim is gone.
LEMMA SettledKeepsInv ==
    ASSUME Inv, NEW p \in Process, Settled(p)
    PROVE  Inv'
<1>1. /\ ~Launched /\ installer = None
      /\ \A q \in Process : at[q] \in Judging => q = p
  BY JudgingIs DEF Settled, Judging, Inside
<1>2. Interrupted => data = truth /\ handoff = None
  BY DEF Settled, Inv, BarrierInv, Judging, Inside
<1>3. /\ StoreTypeOK' /\ AdmissionTypeOK' /\ SnapshotsTypeOK' /\ HandoffInv'
  BY Untouched DEF Settled, Go
<1>4. FileTypeOK'
  BY <1>1, <1>2 DEF Settled, Go, Inv, TypeOK, FileTypeOK
<1>5. ProcessTypeOK'
  BY <1>1, <1>2
  DEF Settled, Go, Inv, TypeOK, ProcessTypeOK, Places, Stages, Inside
<1>6. HistoryTypeOK'
  BY <1>1, <1>2 DEF Settled, Go, Inv, TypeOK, HistoryTypeOK
<1>7. HoldsAgree'
  BY <1>1, <1>2
  DEF Settled, Go, Inv, TypeOK, HoldsAgree, ProcessTypeOK, LockFree, Inside
<1>8. AloneInv'
  BY <1>1, <1>2
  DEF Settled, Go, Inv, TypeOK, ProcessTypeOK, AloneInv, AloneInStores,
      Launched, LockFree, Inside, Spawned
<1>9. RequestInv'
  BY <1>1, <1>2 DEF Settled, Go, Inv, RequestInv, Launched, Harmless
<1>10. LaunchInv'
  BY <1>1, <1>2
  DEF Settled, Go, Inv, LaunchInv, Launched, Claimed, Handed, Spawned,
      Harmless, Whole
<1>11. DataInv'
  BY <1>1, <1>2
  DEF Settled, Go, Inv, DataInv, Interrupted, RolledBack, Keeps, Launched
<1>12. BarrierInv'
  BY <1>1, <1>2
  DEF Settled, Go, Inv, TypeOK, ProcessTypeOK, BarrierInv, Interrupted,
      RolledBack, Harmless, Judging, Inside
<1>13. KeptInv'
  BY <1>1, <1>2 DEF Settled, Go, Inv, KeptInv, Kept, Sound,
         Listed, Whole
<1> QED
  BY <1>3, <1>4, <1>5, <1>6, <1>7, <1>8, <1>9, <1>10, <1>11, <1>12, <1>13
  DEF Inv, TypeOK

\* A receipt is evidence of the installation whose nonce it has.
LEMMA JudgeKeepsInv ==
    ASSUME Inv, NEW p \in Process, Judge(p)
    PROVE  Inv'
<1>1. /\ ~Launched /\ installer = None
      /\ \A q \in Process : at[q] \in Judging => q = p
  BY JudgingIs DEF Judge, Judging, Inside
<1>2. judged' \in Judgement
  <2>1. staged \in Package
    BY DEF Judge, Inv, TypeOK, StoreTypeOK
  <2>2. (Verdict /\ handoff.version = build) \in BOOLEAN
    OBVIOUS
  <2> QED
    BY <2>1, <2>2 DEF Judge, Judgement
<1>3. /\ judged'.package = staged
      /\ judged'.evidence => handoff # None /\ handoff.nonce \in applied
  BY DEF Judge, Verdict, Inv, TypeOK, HistoryTypeOK
<1>4. /\ StoreTypeOK' /\ AdmissionTypeOK' /\ SnapshotsTypeOK'
      /\ FileTypeOK' /\ RequestInv' /\ LaunchInv' /\ HandoffInv'
      /\ DataInv' /\ KeptInv'
  BY Untouched DEF Judge, Go
<1>5. ProcessTypeOK'
  BY <1>2 DEF Judge, Go, Inv, TypeOK, ProcessTypeOK, Places, Stages, Inside
<1>6. HistoryTypeOK'
  BY <1>1, <1>2, <1>3 DEF Judge, Go, Inv, TypeOK, HistoryTypeOK
<1>7. HoldsAgree'
  BY <1>1, <1>2, <1>3
  DEF Judge, Go, Inv, TypeOK, HoldsAgree, ProcessTypeOK, LockFree, Inside
<1>8. AloneInv'
  BY <1>1, <1>2, <1>3
  DEF Judge, Go, Inv, TypeOK, ProcessTypeOK, AloneInv, AloneInStores,
      Launched, LockFree, Inside, Spawned
<1>9. BarrierInv'
  BY <1>1, <1>2, <1>3, NoneIsNoRecord
  DEF Judge, Go, Inv, TypeOK, ProcessTypeOK, BarrierInv, Interrupted,
      RolledBack, Harmless, Judging, Inside
<1> QED
  BY <1>4, <1>5, <1>6, <1>7, <1>8, <1>9 DEF Inv, TypeOK

\* The rollback did not take place: the data of the build comes back.
LEMMA UndoDoneKeepsInv ==
    ASSUME Inv, NEW p \in Process, UndoDone(p)
    PROVE  Inv'
<1>1. /\ ~Launched /\ installer = None
      /\ \A q \in Process : at[q] \in Judging => q = p
  BY JudgingIs DEF UndoDone, Judging, Inside
<1>2. /\ RolledBack /\ data' = truth /\ truth \in Contents
  BY SnapshotIs DEF UndoDone, Inv, TypeOK, BarrierInv, DataInv, RolledBack
<1>3. /\ StoreTypeOK' /\ FileTypeOK' /\ HistoryTypeOK' /\ RequestInv'
      /\ LaunchInv' /\ HandoffInv' /\ KeptInv'
  BY Untouched DEF UndoDone, Go
<1>4. AdmissionTypeOK'
  BY <1>1, <1>2 DEF UndoDone, Go, Inv, TypeOK, AdmissionTypeOK
<1>5. SnapshotsTypeOK'
  BY <1>2 DEF UndoDone, Go, Inv, TypeOK, SnapshotsTypeOK, Contents
<1>6. ProcessTypeOK'
  BY <1>1, <1>2
  DEF UndoDone, Go, Inv, TypeOK, ProcessTypeOK, Places, Stages, Inside
<1>7. HoldsAgree'
  BY <1>1, <1>2
  DEF UndoDone, Go, Inv, TypeOK, HoldsAgree, ProcessTypeOK, LockFree, Inside
<1>8. AloneInv'
  BY <1>1, <1>2
  DEF UndoDone, Go, Inv, TypeOK, ProcessTypeOK, AloneInv, AloneInStores,
      Launched, LockFree, Inside, Spawned
<1>9. DataInv'
  BY <1>1, <1>2
  DEF UndoDone, Go, Inv, DataInv, Interrupted, RolledBack, Keeps, Launched
<1>10. BarrierInv'
  BY <1>1, <1>2
  DEF UndoDone, Go, Inv, TypeOK, ProcessTypeOK, BarrierInv, Interrupted,
      RolledBack, Harmless, Judging, Inside
<1> QED
  BY <1>3, <1>4, <1>5, <1>6, <1>7, <1>8, <1>9, <1>10 DEF Inv, TypeOK

\* By the time the outcome is recorded the data is what it should be.
LEMMA RecordOutcomeKeepsInv ==
    ASSUME Inv, NEW p \in Process, RecordOutcome(p)
    PROVE  Inv'
<1>1. /\ ~Launched /\ installer = None
      /\ \A q \in Process : at[q] \in Judging => q = p
  BY JudgingIs DEF RecordOutcome, Judging, Inside
<1>2. judged \in Judgement
  BY DEF RecordOutcome, Inv, TypeOK, ProcessTypeOK, BarrierInv
<1>3. data = truth
  BY DEF RecordOutcome, Inv, BarrierInv, DataInv, Judging, Inside
<1>4. /\ StoreTypeOK' /\ AdmissionTypeOK' /\ SnapshotsTypeOK'
      /\ HistoryTypeOK'
  BY Untouched DEF RecordOutcome, Go
<1>5. FileTypeOK'
  BY <1>2
  DEF RecordOutcome, Go, Inv, TypeOK, FileTypeOK, Judged, Judgement, Outcome,
      Package
<1>6. ProcessTypeOK'
  BY <1>1, <1>2, <1>3
  DEF RecordOutcome, Go, Inv, TypeOK, ProcessTypeOK, Places, Stages, Inside
<1>7. HoldsAgree'
  BY <1>1, <1>2, <1>3
  DEF RecordOutcome, Go, Inv, TypeOK, HoldsAgree, ProcessTypeOK, LockFree,
      Inside
<1>8. AloneInv'
  BY <1>1, <1>2, <1>3
  DEF RecordOutcome, Go, Inv, TypeOK, ProcessTypeOK, AloneInv, AloneInStores,
      Launched, LockFree, Inside, Spawned
<1>9. RequestInv'
  BY DEF RecordOutcome, Go, Inv, RequestInv, Launched, Harmless, Judged
<1>10. LaunchInv'
  BY <1>1, LaunchEnds DEF RecordOutcome, Launched
<1>11. HandoffInv'
  BY <1>1 DEF RecordOutcome, Go, Inv, HandoffInv, InstallerOnRecord
<1>12. DataInv'
  BY <1>1, <1>3
  DEF RecordOutcome, Go, Inv, DataInv, Interrupted, RolledBack, Keeps,
      Launched
<1>13. BarrierInv'
  BY <1>1, <1>3
  DEF RecordOutcome, Go, Inv, TypeOK, ProcessTypeOK, BarrierInv, Interrupted,
      RolledBack, Harmless, Judging, Inside
<1>14. KeptInv'
  BY <1>1, <1>2, <1>3 DEF RecordOutcome, Go, Inv, KeptInv, Kept, Sound,
         Listed, Whole
<1> QED
  BY <1>4, <1>5, <1>6, <1>7, <1>8, <1>9, <1>10, <1>11, <1>12, <1>13, <1>14
  DEF Inv, TypeOK

LEMMA AdmitKeepsInv ==
    ASSUME Inv, NEW p \in Process, Admit(p)
    PROVE  Inv'
<1>1. MayWrite => launcher.at = "off" /\ installer = None
  BY NobodyUpdates DEF Admit, MayWrite, Live
<1>2. /\ StoreTypeOK' /\ SnapshotsTypeOK' /\ FileTypeOK' /\ HistoryTypeOK'
      /\ RequestInv' /\ LaunchInv' /\ HandoffInv' /\ DataInv' /\ KeptInv'
  BY Untouched DEF Admit, Go, MayWrite
<1>3. AdmissionTypeOK'
  BY <1>1 DEF Admit, Go, MayWrite, Inv, TypeOK, AdmissionTypeOK
<1>4. ProcessTypeOK'
  BY <1>1
  DEF Admit, Go, MayWrite, Inv, TypeOK, ProcessTypeOK, Places, Stages, Inside
<1>5. HoldsAgree'
  BY <1>1
  DEF Admit, Go, MayWrite, Inv, TypeOK, HoldsAgree, ProcessTypeOK, LockFree,
      Inside
<1>6. AloneInv'
  BY <1>1
  DEF Admit, Go, MayWrite, Inv, TypeOK, ProcessTypeOK, AloneInv,
      AloneInStores, Launched, LockFree, Inside, Spawned
<1>7. BarrierInv'
  BY <1>1
  DEF Admit, Go, MayWrite, Inv, TypeOK, ProcessTypeOK, BarrierInv,
      Interrupted, RolledBack, Harmless, Judging, Inside
<1> QED
  BY <1>2, <1>3, <1>4, <1>5, <1>6, <1>7 DEF Inv, TypeOK

\* Nothing is pending that could have data to put back.
LEMMA OpenKeepsInv ==
    ASSUME Inv, NEW p \in Process, Open(p)
    PROVE  Inv'
<1>1. launcher.at = "off" /\ installer = None
  BY DEF Open, Inv, TypeOK, HoldsAgree, AloneInv, AloneInStores
<1>2. launching = None /\ Harmless
  BY DEF Open, NothingPending, ResolvedUnconfirmed, Inv, RequestInv,
         HandoffInv, Harmless
<1>3. /\ data = truth /\ truth \in Contents /\ truth # Torn
      /\ data' = truth' /\ data' \in Contents
  BY <1>2, VersionsAre
  DEF Open, Inv, TypeOK, ProcessTypeOK, HistoryTypeOK, DataInv, Interrupted,
      RolledBack, Harmless, Contents, Torn
<1>4. /\ StoreTypeOK' /\ AdmissionTypeOK' /\ FileTypeOK' /\ RequestInv'
      /\ LaunchInv' /\ HandoffInv' /\ KeptInv'
  BY Untouched DEF Open, Go
<1>5. SnapshotsTypeOK'
  BY <1>3 DEF Open, Go, Inv, TypeOK, SnapshotsTypeOK, Contents
<1>6. ProcessTypeOK'
  BY <1>1, <1>2, <1>3
  DEF Open, Go, Inv, TypeOK, ProcessTypeOK, Places, Stages, Inside
<1>7. HistoryTypeOK'
  BY <1>3 DEF Open, Go, Inv, TypeOK, HistoryTypeOK, Contents
<1>8. HoldsAgree'
  BY <1>1, <1>2, <1>3
  DEF Open, Go, Inv, TypeOK, HoldsAgree, ProcessTypeOK, LockFree, Inside
<1>9. AloneInv'
  BY <1>1
  DEF Open, Go, Inv, TypeOK, ProcessTypeOK, AloneInv, AloneInStores, Launched,
      LockFree, Inside, Spawned
<1>10. DataInv'
  BY <1>1, <1>2, <1>3
  DEF Open, Go, Inv, DataInv, Interrupted, RolledBack, Keeps, Harmless
<1>11. BarrierInv'
  BY <1>2, <1>3
  DEF Open, Go, Inv, TypeOK, ProcessTypeOK, BarrierInv, Interrupted,
      RolledBack, Harmless, Judging, Inside, LockFree
<1> QED
  BY <1>4, <1>5, <1>6, <1>7, <1>8, <1>9, <1>10, <1>11 DEF Inv, TypeOK

LEMMA SecondLookRefusedKeepsInv ==
    ASSUME Inv, NEW p \in Process, SecondLookRefused(p)
    PROVE  Inv'
<1>1. /\ StoreTypeOK' /\ SnapshotsTypeOK' /\ FileTypeOK' /\ HistoryTypeOK'
      /\ RequestInv' /\ LaunchInv' /\ HandoffInv' /\ DataInv' /\ KeptInv'
  BY Untouched DEF SecondLookRefused, Go
<1>2. AdmissionTypeOK'
  BY DEF SecondLookRefused, Go, Inv, TypeOK, AdmissionTypeOK
<1>3. ProcessTypeOK'
  BY DEF SecondLookRefused, Go, Inv, TypeOK, ProcessTypeOK, Places, Stages,
         Inside
<1>4. HoldsAgree'
  BY DEF SecondLookRefused, Go, Inv, TypeOK, HoldsAgree, ProcessTypeOK,
         LockFree, Inside
<1>5. AloneInv'
  BY DEF SecondLookRefused, Go, Inv, TypeOK, ProcessTypeOK, AloneInv,
         AloneInStores, Launched, LockFree, Inside, Spawned
<1>6. BarrierInv'
  BY DEF SecondLookRefused, Go, Inv, TypeOK, ProcessTypeOK, BarrierInv,
         Interrupted, RolledBack, Harmless, Judging, Inside
<1> QED
  BY <1>1, <1>2, <1>3, <1>4, <1>5, <1>6 DEF Inv, TypeOK

LEMMA CloseKeepsInv ==
    ASSUME Inv, NEW p \in Process, Close(p)
    PROVE  Inv'
<1>1. /\ StoreTypeOK' /\ SnapshotsTypeOK' /\ FileTypeOK' /\ HistoryTypeOK'
      /\ RequestInv' /\ LaunchInv' /\ HandoffInv' /\ DataInv' /\ KeptInv'
  BY Untouched DEF Close, Gone, Go
<1>2. AdmissionTypeOK'
  BY DEF Close, Gone, Go, Inv, TypeOK, AdmissionTypeOK
<1>3. ProcessTypeOK'
  BY DEF Close, Gone, Go, Inv, TypeOK, ProcessTypeOK, Places, Stages, Inside
<1>4. HoldsAgree'
  BY DEF Close, Gone, Go, Inv, TypeOK, HoldsAgree, ProcessTypeOK, LockFree,
         Inside
<1>5. AloneInv'
  BY DEF Close, Gone, Go, Inv, TypeOK, ProcessTypeOK, AloneInv, AloneInStores,
         Launched, LockFree, Inside, Spawned
<1>6. BarrierInv'
  BY DEF Close, Gone, Go, Inv, TypeOK, ProcessTypeOK, BarrierInv, Interrupted,
         RolledBack, Harmless, Judging, Inside
<1> QED
  BY <1>1, <1>2, <1>3, <1>4, <1>5, <1>6 DEF Inv, TypeOK

LEMMA KillKeepsInv ==
    ASSUME Inv, NEW p \in Process, Kill(p)
    PROVE  Inv'
<1>1. /\ StoreTypeOK' /\ SnapshotsTypeOK' /\ FileTypeOK' /\ HistoryTypeOK'
      /\ RequestInv' /\ LaunchInv' /\ HandoffInv' /\ DataInv' /\ KeptInv'
  BY Untouched DEF Kill, Gone, Go
<1>2. AdmissionTypeOK'
  BY DEF Kill, Gone, Go, Inv, TypeOK, AdmissionTypeOK
<1>3. ProcessTypeOK'
  BY DEF Kill, Gone, Go, Inv, TypeOK, ProcessTypeOK, Places, Stages, Inside
<1>4. HoldsAgree'
  BY DEF Kill, Gone, Go, Inv, TypeOK, HoldsAgree, ProcessTypeOK, LockFree,
         Inside
<1>5. AloneInv'
  BY DEF Kill, Gone, Go, Inv, TypeOK, ProcessTypeOK, AloneInv, AloneInStores,
         Launched, LockFree, Inside, Spawned, HoldsAgree
<1>6. BarrierInv'
  BY DEF Kill, Gone, Go, Inv, TypeOK, ProcessTypeOK, BarrierInv, Interrupted,
         RolledBack, Harmless, Judging, Inside, HoldsAgree
<1> QED
  BY <1>1, <1>2, <1>3, <1>4, <1>5, <1>6 DEF Inv, TypeOK

\* A request fits the build, and its copy is kept.
LEMMA RequestKeepsInv ==
    ASSUME Inv, NEW p \in Process, NEW v \in Version, Request(p, v)
    PROVE  Inv'
<1>1. /\ pending' \in Binding /\ Kept(pending'.restore)
      /\ (pending'.restore # 0) <=> (pending'.kind = "rollback")
  BY BindingForIs DEF Request
<1>2. /\ StoreTypeOK' /\ AdmissionTypeOK' /\ SnapshotsTypeOK'
      /\ ProcessTypeOK' /\ HistoryTypeOK' /\ HoldsAgree' /\ AloneInv'
      /\ LaunchInv' /\ HandoffInv' /\ DataInv' /\ BarrierInv'
  BY Untouched DEF Request
<1>3. FileTypeOK'
  BY <1>1 DEF Request, Inv, TypeOK, FileTypeOK
<1>4. RequestInv'
  BY <1>1 DEF Request, Inv, RequestInv, Launched, Harmless
<1>5. KeptInv'
  BY <1>1 DEF Request, Inv, KeptInv, Kept, Sound,
         Listed, Whole
<1> QED
  BY <1>2, <1>3, <1>4, <1>5 DEF Inv, TypeOK

LEMMA ApprovalRefusedKeepsInv ==
    ASSUME Inv, NEW p \in Process, ApprovalRefused(p)
    PROVE  Inv'
<1>1. /\ StoreTypeOK' /\ AdmissionTypeOK' /\ SnapshotsTypeOK'
      /\ ProcessTypeOK' /\ HistoryTypeOK' /\ HoldsAgree' /\ AloneInv'
      /\ LaunchInv' /\ HandoffInv' /\ DataInv' /\ BarrierInv'
  BY Untouched DEF ApprovalRefused
<1>2. FileTypeOK'
  BY DEF ApprovalRefused, Inv, TypeOK, FileTypeOK
<1>3. RequestInv'
  BY DEF ApprovalRefused, Inv, RequestInv, Launched, Harmless
<1>4. KeptInv'
  BY DEF ApprovalRefused, Inv, KeptInv, Kept, Sound,
         Listed, Whole
<1> QED
  BY <1>1, <1>2, <1>3, <1>4 DEF Inv, TypeOK

\* What was asked for still fits the build when it is staged.
LEMMA ApproveKeepsInv ==
    ASSUME Inv, NEW p \in Process, NEW granted \in BOOLEAN, Approve(p, granted)
    PROVE  Inv'
<1>1. /\ launcher.at = "off" /\ installer = None /\ launching = None
      /\ Harmless /\ data = truth /\ ~RolledBack
  BY OpenIs DEF Approve
<1>2. /\ pending \in Binding /\ pending.kind = Kind(pending.version, build)
      /\ (pending.restore # 0) <=> (pending.kind = "rollback")
      /\ Kept(pending.restore)
  BY NoneIsNoRecord, BindingForIs
  DEF Approve, Binding, Inv, TypeOK, FileTypeOK, RequestInv
<1>3. /\ pending' = None /\ grant' \in {grant, pending}
      /\ outcome' \in {outcome, None} /\ approvals' \in 0..MaxApprovals
      /\ phase' = "staged" /\ staged' \in Package
      /\ staged'.version = pending.version /\ staged'.kind = pending.kind
  BY <1>2, BoundsAssumption
  DEF Approve, Stage, Package, Binding, Inv, TypeOK, HistoryTypeOK
<1>4. /\ SnapshotsTypeOK' /\ DataInv'
  BY Untouched DEF Approve, Stage
<1>5. StoreTypeOK'
  BY <1>3, NoneIsNoRecord DEF StoreTypeOK
<1>6. AdmissionTypeOK'
  BY <1>1, <1>2, <1>3 DEF Approve, Stage, Inv, TypeOK, AdmissionTypeOK
<1>7. FileTypeOK'
  BY <1>2, <1>3 DEF Approve, Stage, Inv, TypeOK, FileTypeOK
<1>8. ProcessTypeOK'
  BY <1>1, <1>2, <1>3
  DEF Approve, Stage, Inv, TypeOK, ProcessTypeOK, Places, Stages, Inside
<1>9. HistoryTypeOK'
  BY <1>3 DEF Approve, Stage, Inv, TypeOK, HistoryTypeOK
<1>10. HoldsAgree'
  BY <1>1, <1>2, <1>3
  DEF Approve, Stage, Inv, TypeOK, HoldsAgree, ProcessTypeOK, LockFree, Inside
<1>11. AloneInv'
  BY <1>1, <1>2, <1>3
  DEF Approve, Stage, Inv, TypeOK, ProcessTypeOK, AloneInv, AloneInStores,
      Launched, LockFree, Inside, Spawned
<1>12. RequestInv'
  BY <1>1, <1>2, <1>3 DEF Approve, Inv, RequestInv, Launched, Harmless
<1>13. LaunchInv'
  BY <1>1, LaunchEnds DEF Approve
<1>14. HandoffInv'
  BY <1>1, <1>3 DEF Approve, Inv, HandoffInv, InstallerOnRecord
<1>15. BarrierInv'
  BY <1>1, <1>3
  DEF Approve, Stage, Inv, TypeOK, ProcessTypeOK, BarrierInv, Interrupted,
      RolledBack, Harmless, Judging, Inside, LockFree
<1>16. KeptInv'
  BY <1>2, <1>3 DEF Approve, Stage, Inv, KeptInv, Kept, Sound,
         Listed, Whole
<1> QED
  BY <1>4, <1>5, <1>6, <1>7, <1>8, <1>9, <1>10, <1>11, <1>12, <1>13, <1>14,
     <1>15, <1>16
  DEF Inv, TypeOK

LEMMA DiscardKeepsInv ==
    ASSUME Inv, NEW p \in Process, Discard(p)
    PROVE  Inv'
<1>1. /\ launcher.at = "off" /\ installer = None /\ launching = None
      /\ Harmless /\ data = truth /\ ~RolledBack
  BY OpenIs DEF Discard
<1>2. /\ AdmissionTypeOK' /\ SnapshotsTypeOK' /\ ProcessTypeOK'
      /\ HistoryTypeOK' /\ HoldsAgree' /\ AloneInv'
  BY Untouched DEF Discard, DiscardStaged
<1>3. StoreTypeOK'
  BY <1>1 DEF Discard, DiscardStaged, Inv, TypeOK, StoreTypeOK
<1>4. FileTypeOK'
  BY <1>1 DEF Discard, DiscardStaged, Inv, TypeOK, FileTypeOK
<1>5. RequestInv'
  BY <1>1 DEF Discard, DiscardStaged, Inv, RequestInv, Launched, Harmless
<1>6. LaunchInv'
  BY <1>1, LaunchEnds DEF Discard
<1>7. HandoffInv'
  BY <1>1 DEF Discard, DiscardStaged, Inv, HandoffInv, InstallerOnRecord
<1>8. DataInv'
  BY <1>1
  DEF Discard, DiscardStaged, Inv, DataInv, Interrupted, RolledBack, Keeps
<1>9. BarrierInv'
  BY <1>1
  DEF Discard, DiscardStaged, Inv, TypeOK, ProcessTypeOK, BarrierInv,
      Interrupted, RolledBack, Harmless, Judging, Inside, LockFree
<1>10. KeptInv'
  BY <1>1 DEF Discard, DiscardStaged, Inv, KeptInv, Kept, Sound,
         Listed, Whole
<1> QED
  BY <1>2, <1>3, <1>4, <1>5, <1>6, <1>7, <1>8, <1>9, <1>10 DEF Inv, TypeOK

LEMMA WriteKeepsInv ==
    ASSUME Inv, NEW p \in Process, Write(p)
    PROVE  Inv'
<1>1. /\ launcher.at = "off" /\ installer = None /\ launching = None
      /\ Harmless /\ data = truth /\ ~RolledBack
  BY OpenIs DEF Write
<1>2. data' = truth' /\ data' \in Contents
  BY <1>1 DEF Write, Contents, Inv, TypeOK, HistoryTypeOK
<1>3. /\ StoreTypeOK' /\ AdmissionTypeOK' /\ FileTypeOK' /\ ProcessTypeOK'
      /\ HoldsAgree' /\ AloneInv' /\ RequestInv' /\ LaunchInv'
      /\ HandoffInv' /\ KeptInv'
  BY Untouched DEF Write
<1>4. SnapshotsTypeOK'
  BY <1>2 DEF Write, Inv, TypeOK, SnapshotsTypeOK, Contents
<1>5. HistoryTypeOK'
  BY <1>2 DEF Write, Inv, TypeOK, HistoryTypeOK, Contents
<1>6. DataInv'
  BY <1>1, <1>2 DEF Write, Inv, DataInv, Interrupted, RolledBack
<1>7. BarrierInv'
  BY <1>1, <1>2
  DEF Write, Inv, TypeOK, ProcessTypeOK, BarrierInv, Interrupted, RolledBack,
      Harmless, Judging, Inside
<1> QED
  BY <1>3, <1>4, <1>5, <1>6, <1>7 DEF Inv, TypeOK

\* The launch waits until nobody is in the stores.
LEMMA QuiesceKeepsInv ==
    ASSUME Inv, Quiesce
    PROVE  Inv'
<1>1. /\ launcher.at = "off" /\ launcher'.at = "claiming"
      /\ installer = None
  BY NobodyUpdates DEF Quiesce, StillOf, Inv, TypeOK, ProcessTypeOK
<1>2. /\ StoreTypeOK' /\ SnapshotsTypeOK' /\ FileTypeOK' /\ HistoryTypeOK'
      /\ HandoffInv' /\ BarrierInv' /\ KeptInv'
  BY Untouched DEF Quiesce, MayExclude, StillOf
<1>3. AdmissionTypeOK'
  BY <1>1 DEF Quiesce, MayExclude, StillOf, Inv, TypeOK, AdmissionTypeOK
<1>4. ProcessTypeOK'
  BY <1>1
  DEF Quiesce, MayExclude, StillOf, Inv, TypeOK, ProcessTypeOK, Places,
      Stages, Inside
<1>5. HoldsAgree'
  BY <1>1, ProcessAssumption
  DEF Quiesce, MayExclude, StillOf, Inv, TypeOK, HoldsAgree, ProcessTypeOK,
      LockFree, Inside
<1>6. AloneInv'
  BY <1>1
  DEF Quiesce, MayExclude, StillOf, Inv, TypeOK, ProcessTypeOK, AloneInv,
      AloneInStores, Launched, LockFree, Inside, Spawned
<1>7. RequestInv'
  BY <1>1
  DEF Quiesce, MayExclude, StillOf, Inv, RequestInv, Launched, Harmless
<1>8. LaunchInv'
  BY <1>1, LaunchEnds
<1>9. DataInv'
  BY <1>1
  DEF Quiesce, MayExclude, StillOf, Inv, DataInv, Interrupted, RolledBack,
      Keeps
<1> QED
  BY <1>2, <1>3, <1>4, <1>5, <1>6, <1>7, <1>8, <1>9 DEF Inv, TypeOK

\* The grant becomes the claim, of the package that is staged.
LEMMA ClaimKeepsInv ==
    ASSUME Inv, NEW allowed \in BOOLEAN, Claim(allowed)
    PROVE  Inv'
<1>1. /\ grant \in Binding /\ Kept(grant.restore)
      /\ (grant.restore # 0) <=> (grant.kind = "rollback")
      /\ grant.kind = Kind(grant.version, build)
      /\ Harmless /\ installer = None
  BY DEF Claim, Inv, TypeOK, FileTypeOK, RequestInv, KeptInv
<1>2. \A q \in Process : at[q] \in Outside
  BY DEF Claim, Inv, TypeOK, HoldsAgree, ProcessTypeOK, AloneInv,
         AloneInStores, LockFree, Places, Inside, Outside
<1>3. /\ StoreTypeOK' /\ SnapshotsTypeOK' /\ HistoryTypeOK' /\ HandoffInv'
  BY Untouched DEF Claim, Ended, Idle
<1>4. AdmissionTypeOK'
  BY <1>1, <1>2 DEF Claim, Ended, Idle, Inv, TypeOK, AdmissionTypeOK
<1>5. FileTypeOK'
  BY <1>1
  DEF Claim, Ended, Idle, Inv, TypeOK, FileTypeOK, ClaimRecord, Binding
<1>6. ProcessTypeOK'
  BY <1>1
  DEF Claim, Ended, Idle, Inv, TypeOK, ProcessTypeOK, Places, Stages, Inside
<1>7. HoldsAgree'
  BY ProcessAssumption
  DEF Claim, Ended, Idle, Inv, TypeOK, HoldsAgree, ProcessTypeOK, LockFree,
      Inside
<1>8. AloneInv'
  BY <1>1
  DEF Claim, Ended, Idle, Inv, TypeOK, ProcessTypeOK, AloneInv, AloneInStores,
      Launched, LockFree, Inside, Spawned
<1>9. RequestInv'
  BY <1>1 DEF Claim, Ended, Idle, Inv, RequestInv, Launched, Harmless
<1>10. LaunchInv'
  <2>1. CASE launcher' = Idle
    BY <2>1, LaunchEnds DEF Idle
  <2>2. CASE /\ launcher' = [at |-> "copying", binding |-> grant, safety |-> 0]
             /\ phase = "staged" /\ staged.version = grant.version
             /\ launching' = [version |-> grant.version, step |-> "claimed",
                              restored |-> 0, safety |-> 0]
    <3>1. staged.kind = grant.kind
      BY <1>1, <2>2 DEF Inv, RequestInv
    <3>2. launching' # None /\ grant # None
      BY <1>1, <2>2, NoneIsNoRecord DEF ClaimRecord, Binding
    <3>3. phase' = "staged" /\ staged' = staged /\ build' = build /\ Harmless'
      BY <1>1, <2>2 DEF Claim, Harmless
    <3> QED
      BY <1>1, <2>2, <3>1, <3>2, <3>3
      DEF LaunchInv, Launched, Claimed, Handed, Spawned
  <2> QED
    BY <2>1, <2>2 DEF Claim, Ended
<1>11. DataInv'
  BY <1>1 DEF Claim, Ended, Idle, Inv, DataInv, Interrupted, RolledBack, Keeps
<1>12. BarrierInv'
  BY <1>2, BarrierEmpty DEF Claim
<1>13. KeptInv'
  BY DEF Claim, Ended, Idle, Inv, KeptInv, Kept, Sound,
         Listed, Whole
<1> QED
  BY <1>3, <1>4, <1>5, <1>6, <1>7, <1>8, <1>9, <1>10, <1>11, <1>12, <1>13
  DEF Inv, TypeOK

LEMMA ClaimRefusedKeepsInv ==
    ASSUME Inv, ClaimRefused
    PROVE  Inv'
<1>1. /\ StoreTypeOK' /\ SnapshotsTypeOK' /\ FileTypeOK' /\ HistoryTypeOK'
      /\ HandoffInv' /\ BarrierInv' /\ KeptInv'
  BY Untouched DEF ClaimRefused, Ended, Idle
<1>2. AdmissionTypeOK'
  BY DEF ClaimRefused, Ended, Idle, Inv, TypeOK, AdmissionTypeOK
<1>3. ProcessTypeOK'
  BY DEF ClaimRefused, Ended, Idle, Inv, TypeOK, ProcessTypeOK, Places,
         Stages, Inside
<1>4. HoldsAgree'
  BY ProcessAssumption
  DEF ClaimRefused, Ended, Idle, Inv, TypeOK, HoldsAgree, ProcessTypeOK,
      LockFree, Inside
<1>5. AloneInv'
  BY DEF ClaimRefused, Ended, Idle, Inv, TypeOK, ProcessTypeOK, AloneInv,
         AloneInStores, Launched, LockFree, Inside, Spawned
<1>6. RequestInv'
  BY DEF ClaimRefused, Ended, Idle, Inv, RequestInv, Launched, Harmless
<1>7. LaunchInv'
  BY LaunchEnds DEF ClaimRefused, Ended, Idle
<1>8. DataInv'
  BY DEF ClaimRefused, Ended, Idle, Inv, DataInv, Interrupted, RolledBack,
         Keeps
<1> QED
  BY <1>1, <1>2, <1>3, <1>4, <1>5, <1>6, <1>7, <1>8 DEF Inv, TypeOK

\* An upgrade's copy pushes out none that is referred to.
LEMMA KeepCopyKeepsInv ==
    ASSUME Inv, KeepCopy
    PROVE  Inv'
<1>1. /\ shared = {} /\ grant = None
      /\ \A q \in Process : at[q] \in Outside
  BY UpdatingIs DEF KeepCopy, Launched
<1>2. /\ launching # None /\ launching.step = "claimed" /\ Harmless
      /\ installer = None /\ launcher'.at = "handing_off"
      /\ launcher'.safety = 0 /\ launcher' = StillOf("handing_off")
  BY DEF KeepCopy, Inv, LaunchInv, Launched, Claimed, Handed, Spawned,
         AloneInv, StillOf, TypeOK, ProcessTypeOK, FileTypeOK
<1>3. /\ SnapshotsTypeOK' /\ data' = data
      /\ \A id \in Pinned : Kept(id) => Kept(id)'
      /\ \A id \in Pinned : Sound(id) => Sound(id)'
  <2>1. data = truth /\ truth \in Contents
    BY <1>2 DEF Inv, TypeOK, HistoryTypeOK, DataInv, Interrupted, RolledBack,
                Harmless, Contents
  <2>2. CASE TakeSnapshot("upgrade", build, Pinned)
    BY <2>1, <2>2, TakeSnapshotKeeps
    DEF Inv, TypeOK, ProcessTypeOK, Kept, Sound
  <2>3. CASE UNCHANGED <<data, snapshots, taken>>
    BY <2>3, Untouched DEF Kept, Sound, Listed, Whole
  <2> QED
    BY <2>2, <2>3 DEF KeepCopy
<1>4. /\ StoreTypeOK' /\ AdmissionTypeOK' /\ FileTypeOK' /\ HistoryTypeOK'
      /\ HandoffInv'
  BY Untouched DEF KeepCopy, StillOf
<1>5. SnapshotsTypeOK'
  BY <1>3
<1>6. ProcessTypeOK'
  BY <1>1, <1>2, <1>3
  DEF KeepCopy, StillOf, Inv, TypeOK, ProcessTypeOK, Places, Stages, Inside
<1>7. HoldsAgree'
  BY <1>2
  DEF KeepCopy, StillOf, Inv, TypeOK, HoldsAgree, ProcessTypeOK, LockFree,
      Inside
<1>8. AloneInv'
  BY <1>1, <1>2
  DEF KeepCopy, StillOf, Inv, TypeOK, ProcessTypeOK, AloneInv, AloneInStores,
      Launched, LockFree, Inside, Spawned
<1>9. RequestInv'
  BY <1>1, <1>2 DEF KeepCopy, StillOf, Inv, RequestInv, Launched, Harmless
<1>10. LaunchInv'
  BY <1>1, <1>2
  DEF KeepCopy, StillOf, Inv, LaunchInv, Launched, Claimed, Handed, Spawned,
      Harmless, Whole
<1>11. DataInv'
  BY <1>2, <1>3 DEF KeepCopy, Inv, DataInv, Interrupted, RolledBack, Harmless
<1>12. BarrierInv'
  BY <1>1, BarrierEmpty DEF KeepCopy
<1>13. KeptInv'
  <2>1. UNCHANGED <<pending, grant, launching, handoff>>
    BY DEF KeepCopy
  <2>2. /\ launching # None => Sound(launching.safety)'
        /\ handoff # None => Sound(handoff.safety)'
        /\ pending # None => Kept(pending.restore)'
        /\ grant # None => Kept(grant.restore)'
    BY <1>3, <2>1, PinnedIs DEF Inv, KeptInv, Kept, Sound
  <2> QED
    BY <2>1, <2>2 DEF KeptInv
<1> QED
  BY <1>4, <1>5, <1>6, <1>7, <1>8, <1>9, <1>10, <1>11, <1>12, <1>13
  DEF Inv, TypeOK

LEMMA HandOverKeepsInv ==
    ASSUME Inv, HandOver
    PROVE  Inv'
<1>1. /\ shared = {} /\ grant = None
      /\ \A q \in Process : at[q] \in Outside
  BY UpdatingIs DEF HandOver, Launched
<1>2. /\ Harmless /\ installer = None
      /\ staged # None
  BY DEF HandOver, Inv, LaunchInv, Launched, Claimed, Handed, Spawned,
         AloneInv, TypeOK, StoreTypeOK
<1>3. /\ AdmissionTypeOK' /\ SnapshotsTypeOK' /\ FileTypeOK'
      /\ HistoryTypeOK' /\ KeptInv'
  BY Untouched DEF HandOver, HandOff, StillOf
<1>4. StoreTypeOK'
  BY <1>2 DEF HandOver, HandOff, StillOf, Inv, TypeOK, StoreTypeOK
<1>5. ProcessTypeOK'
  BY <1>1, <1>2
  DEF HandOver, HandOff, StillOf, Inv, TypeOK, ProcessTypeOK, Places, Stages,
      Inside
<1>6. HoldsAgree'
  BY <1>1, <1>2
  DEF HandOver, HandOff, StillOf, Inv, TypeOK, HoldsAgree, ProcessTypeOK,
      LockFree, Inside
<1>7. AloneInv'
  BY <1>1, <1>2
  DEF HandOver, HandOff, StillOf, Inv, TypeOK, ProcessTypeOK, AloneInv,
      AloneInStores, Launched, LockFree, Inside, Spawned
<1>8. RequestInv'
  BY <1>1, <1>2
  DEF HandOver, HandOff, StillOf, Inv, RequestInv, Launched, Harmless
<1>9. LaunchInv'
  BY <1>1, <1>2
  DEF HandOver, HandOff, StillOf, Inv, LaunchInv, Launched, Claimed, Handed,
      Spawned, Harmless, Whole
<1>10. HandoffInv'
  BY <1>2
  DEF HandOver, HandOff, StillOf, Inv, HandoffInv, InstallerOnRecord, Harmless
<1>11. DataInv'
  BY <1>2
  DEF HandOver, HandOff, StillOf, Inv, DataInv, Interrupted, RolledBack, Keeps
<1>12. BarrierInv'
  BY <1>1, BarrierEmpty DEF HandOver
<1> QED
  BY <1>3, <1>4, <1>5, <1>6, <1>7, <1>8, <1>9, <1>10, <1>11, <1>12
  DEF Inv, TypeOK

\* Nothing hangs yet on the launch whose copy the files make room for.
LEMMA DropCopyKeepsInv ==
    ASSUME Inv, DropCopy
    PROVE  Inv'
<1>1. launching # None /\ launching.step = "claimed" /\ Harmless
      /\ installer = None /\ launcher.safety = 0
      /\ launcher.at \in {"copying", "saving_data"}
  BY DEF DropCopy, Inv, LaunchInv, Launched, Claimed, Handed, Spawned, AloneInv
<1>2. /\ SnapshotsTypeOK' /\ UNCHANGED <<data, taken>> /\ Listed' = Listed
      /\ \A id \in Pinned : id \in Whole => id \in Whole'
  BY DropOldestKeeps DEF DropCopy, Inv, TypeOK
<1>3. /\ StoreTypeOK' /\ AdmissionTypeOK' /\ FileTypeOK' /\ ProcessTypeOK'
      /\ HistoryTypeOK' /\ HoldsAgree' /\ AloneInv' /\ RequestInv'
      /\ HandoffInv' /\ BarrierInv'
  BY <1>2, Untouched DEF DropCopy
<1>4. LaunchInv'
  BY <1>1 DEF DropCopy, Inv, LaunchInv, Launched, Claimed, Handed, Spawned,
              Harmless
<1>5. DataInv'
  BY <1>1, <1>2
  DEF DropCopy, Inv, DataInv, Interrupted, RolledBack, Harmless
<1>6. KeptInv'
  BY <1>2, PinnedIs DEF DropCopy, Inv, KeptInv, Kept, Sound
<1> QED
  BY <1>2, <1>3, <1>4, <1>5, <1>6 DEF Inv, TypeOK

\* The safety copy holds today's data.
LEMMA SaveDataKeepsInv ==
    ASSUME Inv, SaveData
    PROVE  Inv'
<1>1. /\ shared = {} /\ grant = None
      /\ \A q \in Process : at[q] \in Outside
  BY UpdatingIs DEF SaveData, Launched
<1>2. /\ launching # None /\ launching.step = "claimed" /\ Harmless
      /\ installer = None /\ data = truth /\ data \in Contents
  BY DEF SaveData, Inv, LaunchInv, Launched, Claimed, Handed, Spawned,
         AloneInv, DataInv, Interrupted, RolledBack, Harmless, TypeOK,
         HistoryTypeOK, Contents
<1>3. /\ SnapshotsTypeOK' /\ data' = data
      /\ \A id \in Pinned : Kept(id) => Kept(id)'
      /\ \A id \in Pinned : Sound(id) => Sound(id)'
      /\ taken + 1 \in Whole' /\ taken + 1 \in Nat \ {0}
      /\ \E s \in snapshots' :
             s.whole /\ s.id = taken + 1 /\ s.holds = data
  <2>1. TakeSnapshot("pre_restore", build, Pinned)
    BY DEF SaveData
  <2>2. taken + 1 \in Whole' <=>
            \E s \in snapshots' : s.whole /\ s.id = taken + 1
    BY DEF Whole
  <2> QED
    BY <1>2, <2>1, <2>2, TakeSnapshotKeeps
    DEF Inv, TypeOK, ProcessTypeOK, Kept, Sound
<1>4. /\ launcher'.at = "replacing_data" /\ launcher'.safety = taken + 1
      /\ launcher'.binding = launcher.binding
  BY DEF SaveData, Inv, TypeOK, ProcessTypeOK, StillOf
<1>5. /\ StoreTypeOK' /\ AdmissionTypeOK' /\ FileTypeOK' /\ HistoryTypeOK'
      /\ HandoffInv'
  BY Untouched DEF SaveData, StillOf
<1>6. SnapshotsTypeOK'
  BY <1>3
<1>7. ProcessTypeOK'
  BY <1>3
  DEF SaveData, StillOf, Inv, TypeOK, ProcessTypeOK, Places, Stages, Inside
<1>8. HoldsAgree'
  BY <1>2, <1>4
  DEF SaveData, StillOf, Inv, TypeOK, HoldsAgree, ProcessTypeOK, LockFree,
      Inside
<1>9. AloneInv'
  BY <1>1, <1>2, <1>4
  DEF SaveData, StillOf, Inv, TypeOK, ProcessTypeOK, AloneInv, AloneInStores,
      Launched, LockFree, Inside, Spawned
<1>10. RequestInv'
  BY <1>1, <1>2, <1>4
  DEF SaveData, StillOf, Inv, RequestInv, Launched, Harmless
<1>11. LaunchInv'
  BY <1>2, <1>3, <1>4
  DEF SaveData, Inv, LaunchInv, Launched, Claimed, Handed, Spawned, Harmless
<1>12. DataInv'
  BY <1>2, <1>3, <1>4
  DEF SaveData, Inv, DataInv, Interrupted, RolledBack, Harmless, Keeps
<1>13. BarrierInv'
  BY <1>1, BarrierEmpty DEF SaveData
<1>14. KeptInv'
  <2>1. UNCHANGED <<pending, grant, launching, handoff>>
    BY DEF SaveData
  <2>2. /\ launching # None => Sound(launching.safety)'
        /\ handoff # None => Sound(handoff.safety)'
        /\ pending # None => Kept(pending.restore)'
        /\ grant # None => Kept(grant.restore)'
    BY <1>3, <2>1, PinnedIs DEF Inv, KeptInv, Kept, Sound
  <2> QED
    BY <2>1, <2>2 DEF KeptInv
<1> QED
  BY <1>5, <1>6, <1>7, <1>8, <1>9, <1>10, <1>11, <1>12, <1>13, <1>14
  DEF Inv, TypeOK

\* From here on the claim names the copy the data can come back from.
LEMMA BeginReplacingKeepsInv ==
    ASSUME Inv, BeginReplacing
    PROVE  Inv'
<1>1. /\ shared = {} /\ grant = None
      /\ \A q \in Process : at[q] \in Outside
  BY UpdatingIs DEF BeginReplacing, Launched
<1>2. /\ Harmless /\ installer = None /\ launching # None
      /\ launcher.binding # None /\ launcher.safety \in Whole
      /\ Keeps(launcher.safety, truth)
  BY DEF BeginReplacing, Inv, LaunchInv, Launched, Claimed, Handed, Spawned,
         AloneInv, DataInv
<1>3. /\ launching' \in ClaimRecord /\ launching'.step = "restoring"
      /\ launching'.safety = launcher.safety /\ launching' # None
  BY <1>2, NoneIsNoRecord
  DEF BeginReplacing, Inv, TypeOK, FileTypeOK, ProcessTypeOK, ClaimRecord,
      Binding
<1>4. /\ launcher'.at = "replacing_files"
      /\ launcher'.safety = launcher.safety
      /\ launcher'.binding = launcher.binding
  BY DEF BeginReplacing, Inv, TypeOK, ProcessTypeOK, StillOf
<1>5. /\ StoreTypeOK' /\ AdmissionTypeOK' /\ HistoryTypeOK' /\ HandoffInv'
  BY Untouched DEF BeginReplacing, StillOf
<1>6. SnapshotsTypeOK'
  BY DEF BeginReplacing, StillOf, Inv, TypeOK, SnapshotsTypeOK, Torn
<1>7. FileTypeOK'
  BY <1>3 DEF BeginReplacing, StillOf, Inv, TypeOK, FileTypeOK
<1>8. ProcessTypeOK'
  BY <1>1, <1>2, <1>3, <1>4
  DEF BeginReplacing, StillOf, Inv, TypeOK, ProcessTypeOK, Places, Stages,
      Inside
<1>9. HoldsAgree'
  BY <1>2, <1>4
  DEF BeginReplacing, StillOf, Inv, TypeOK, HoldsAgree, ProcessTypeOK,
      LockFree, Inside
<1>10. AloneInv'
  BY <1>1, <1>2, <1>4
  DEF BeginReplacing, StillOf, Inv, TypeOK, ProcessTypeOK, AloneInv,
      AloneInStores, Launched, LockFree, Inside, Spawned
<1>11. RequestInv'
  BY <1>1, <1>2, <1>4
  DEF BeginReplacing, StillOf, Inv, RequestInv, Launched, Harmless
<1>12. LaunchInv'
  BY <1>2, <1>3, <1>4
  DEF BeginReplacing, Inv, LaunchInv, Launched, Claimed, Handed, Spawned,
      Harmless, Whole
<1>13. DataInv'
  BY <1>2, <1>3, <1>4
  DEF BeginReplacing, DataInv, Interrupted, RolledBack, Harmless, Keeps
<1>14. BarrierInv'
  BY <1>1, BarrierEmpty DEF BeginReplacing
<1>15. KeptInv'
  BY <1>2, <1>3 DEF BeginReplacing, StillOf, Inv, KeptInv, Kept, Sound,
         Listed, Whole
<1> QED
  BY <1>5, <1>6, <1>7, <1>8, <1>9, <1>10, <1>11, <1>12, <1>13, <1>14, <1>15
  DEF Inv, TypeOK

\* The data is the old copy now; today's is in the safety copy.
LEMMA FinishReplacingKeepsInv ==
    ASSUME Inv, FinishReplacing
    PROVE  Inv'
<1>1. /\ shared = {} /\ grant = None
      /\ \A q \in Process : at[q] \in Outside
  BY UpdatingIs DEF FinishReplacing, Launched
<1>2. /\ Harmless /\ installer = None /\ Interrupted
  BY DEF FinishReplacing, Inv, LaunchInv, Launched, Claimed, Handed, Spawned,
         AloneInv, Interrupted
<1>3. /\ data' \in Contents /\ Keeps(launcher.binding.restore, data')
  BY KeptIsThere DEF FinishReplacing, Inv, TypeOK
<1>4. /\ launcher'.at = "starting"
      /\ launcher'.safety = launcher.safety
      /\ launcher'.binding = launcher.binding
  BY DEF FinishReplacing, Inv, TypeOK, ProcessTypeOK, StillOf
<1>5. /\ StoreTypeOK' /\ AdmissionTypeOK' /\ FileTypeOK' /\ HistoryTypeOK'
      /\ HandoffInv' /\ KeptInv'
  BY Untouched DEF FinishReplacing, StillOf
<1>6. SnapshotsTypeOK'
  BY <1>3 DEF FinishReplacing, StillOf, Inv, TypeOK, SnapshotsTypeOK, Contents
<1>7. ProcessTypeOK'
  BY <1>1, <1>2, <1>3, <1>4
  DEF FinishReplacing, StillOf, Inv, TypeOK, ProcessTypeOK, Places, Stages,
      Inside
<1>8. HoldsAgree'
  BY <1>1, <1>2, <1>3, <1>4
  DEF FinishReplacing, StillOf, Inv, TypeOK, HoldsAgree, ProcessTypeOK,
      LockFree, Inside
<1>9. AloneInv'
  BY <1>1, <1>2, <1>3, <1>4
  DEF FinishReplacing, StillOf, Inv, TypeOK, ProcessTypeOK, AloneInv,
      AloneInStores, Launched, LockFree, Inside, Spawned
<1>10. RequestInv'
  BY <1>1, <1>2, <1>3, <1>4
  DEF FinishReplacing, StillOf, Inv, RequestInv, Launched, Harmless
<1>11. LaunchInv'
  BY <1>2, <1>4
  DEF FinishReplacing, Inv, LaunchInv, Launched, Claimed, Handed, Spawned,
      Harmless, Whole
<1>12. DataInv'
  BY <1>2, <1>3, <1>4
  DEF FinishReplacing, Inv, DataInv, Interrupted, RolledBack, Harmless, Keeps
<1>13. BarrierInv'
  BY <1>1, BarrierEmpty DEF FinishReplacing
<1> QED
  BY <1>5, <1>6, <1>7, <1>8, <1>9, <1>10, <1>11, <1>12, <1>13 DEF Inv, TypeOK

\* However the restore fails, the claim still names the safety copy.
LEMMA ReplacingFailsKeepsInv ==
    ASSUME Inv, NEW reverted \in BOOLEAN, ReplacingFails(reverted)
    PROVE  Inv'
<1>1. /\ shared = {} /\ grant = None
      /\ \A q \in Process : at[q] \in Outside
  BY UpdatingIs DEF ReplacingFails, Launched
<1>2. /\ Harmless /\ installer = None /\ Interrupted
  BY DEF ReplacingFails, Inv, LaunchInv, Launched, Claimed, Handed, Spawned,
         AloneInv, Interrupted
<1>3. Snapshot(launcher.safety).holds \in Contents
  BY SnapshotIs
  DEF ReplacingFails, Inv, LaunchInv, Launched, Claimed, Handed, Spawned,
      AloneInv, DataInv, Interrupted, RolledBack, Harmless, TypeOK
<1>4. /\ StoreTypeOK' /\ FileTypeOK' /\ HistoryTypeOK' /\ HandoffInv'
      /\ KeptInv'
  BY Untouched DEF ReplacingFails, Ended, Idle
<1>5. AdmissionTypeOK'
  BY <1>1, <1>2, <1>3
  DEF ReplacingFails, Ended, Idle, Inv, TypeOK, AdmissionTypeOK
<1>6. SnapshotsTypeOK'
  BY <1>3
  DEF ReplacingFails, Ended, Idle, Inv, TypeOK, SnapshotsTypeOK, Contents
<1>7. ProcessTypeOK'
  BY <1>1, <1>2, <1>3
  DEF ReplacingFails, Ended, Idle, Inv, TypeOK, ProcessTypeOK, Places, Stages,
      Inside
<1>8. HoldsAgree'
  BY <1>2, ProcessAssumption
  DEF ReplacingFails, Ended, Idle, Inv, TypeOK, HoldsAgree, ProcessTypeOK,
      LockFree, Inside
<1>9. AloneInv'
  BY <1>1, <1>2, <1>3
  DEF ReplacingFails, Ended, Idle, Inv, TypeOK, ProcessTypeOK, AloneInv,
      AloneInStores, Launched, LockFree, Inside, Spawned
<1>10. RequestInv'
  BY <1>1, <1>2, <1>3
  DEF ReplacingFails, Ended, Idle, Inv, RequestInv, Launched, Harmless
<1>11. LaunchInv'
  BY LaunchEnds DEF ReplacingFails, Ended, Idle
<1>12. DataInv'
  BY <1>1, <1>2, <1>3
  DEF ReplacingFails, Ended, Idle, Inv, DataInv, Interrupted, RolledBack,
      Keeps
<1>13. BarrierInv'
  BY <1>1, BarrierEmpty DEF ReplacingFails
<1> QED
  BY <1>4, <1>5, <1>6, <1>7, <1>8, <1>9, <1>10, <1>11, <1>12, <1>13
  DEF Inv, TypeOK

\* The handoff takes over the safety copy from the claim.
LEMMA RecordStartKeepsInv ==
    ASSUME Inv, RecordStart
    PROVE  Inv'
<1>1. /\ shared = {} /\ grant = None
      /\ \A q \in Process : at[q] \in Outside
  BY UpdatingIs DEF RecordStart, Launched
<1>2. /\ Harmless /\ installer = None /\ launching # None
      /\ launcher.binding \in Binding /\ launcher.safety \in Nat
      /\ Sound(launcher.safety)
  BY DEF RecordStart, Inv, LaunchInv, Launched, Claimed, Handed, Spawned,
         AloneInv, Sound, TypeOK, ProcessTypeOK, FileTypeOK
<1>3. /\ launching' \in ClaimRecord /\ launching'.step = "starting"
      /\ launching' # None /\ launching'.safety = launching.safety
  BY <1>2, NoneIsNoRecord
  DEF RecordStart, Inv, TypeOK, FileTypeOK, ClaimRecord
<1>4. /\ nonces' = nonces + 1 /\ nonces' \in 1..MaxLaunches
      /\ nonces' \notin applied /\ applied \subseteq 1..nonces'
  BY BoundsAssumption DEF RecordStart, Inv, TypeOK, HistoryTypeOK
<1>5. /\ handoff' = [version |-> launcher.binding.version,
                     kind |-> launcher.binding.kind,
                     restored |-> launcher.binding.restore,
                     safety |-> launcher.safety,
                     nonce |-> nonces']
      /\ handoff' \in Handoff /\ handoff' # None
  BY <1>2, <1>4, NoneIsNoRecord DEF RecordStart, Recorded, Handoff, Binding
<1>6. /\ launcher'.at = "spawning"
      /\ launcher'.safety = launcher.safety
      /\ launcher'.binding = launcher.binding
  BY DEF RecordStart, Inv, TypeOK, ProcessTypeOK, StillOf
<1>7. /\ StoreTypeOK' /\ AdmissionTypeOK' /\ SnapshotsTypeOK'
  BY Untouched DEF RecordStart, Recorded, StillOf
<1>8. FileTypeOK'
  BY <1>3, <1>5 DEF RecordStart, Inv, TypeOK, FileTypeOK
<1>9. ProcessTypeOK'
  BY <1>1, <1>2, <1>3, <1>4, <1>5, <1>6
  DEF RecordStart, Recorded, StillOf, Inv, TypeOK, ProcessTypeOK, Places,
      Stages, Inside
<1>10. HistoryTypeOK'
  BY <1>4 DEF RecordStart, Inv, TypeOK, HistoryTypeOK
<1>11. HoldsAgree'
  BY <1>2, <1>6 DEF RecordStart, Inv, TypeOK, HoldsAgree
<1>12. AloneInv'
  BY <1>1, <1>2, <1>6
  DEF RecordStart, Inv, AloneInv, AloneInStores, Launched, LockFree
<1>13. RequestInv'
  BY <1>1, <1>2 DEF RecordStart, Inv, RequestInv, Launched
<1>14. LaunchInv'
  BY <1>2, <1>3, <1>4, <1>5, <1>6
  DEF RecordStart, Whole, Inv, LaunchInv, Launched, Claimed, Handed, Spawned
<1>15. HandoffInv'
  BY <1>2, <1>4, <1>5
  DEF RecordStart, HandoffInv, InstallerOnRecord, Inv, LaunchInv, Launched,
      Claimed, Handed, Spawned
<1>16. DataInv'
  BY <1>2, <1>3, <1>4, <1>5, <1>6
  DEF RecordStart, Inv, LaunchInv, Launched, DataInv, Interrupted, RolledBack,
      Harmless, Keeps
<1>17. BarrierInv'
  BY <1>1, BarrierEmpty DEF RecordStart
<1>18. KeptInv'
  BY <1>2, <1>3, <1>5 DEF RecordStart, Inv, KeptInv, Kept, Sound,
         Listed, Whole
<1> QED
  BY <1>7, <1>8, <1>9, <1>10, <1>11, <1>12, <1>13, <1>14, <1>15, <1>16, <1>17,
     <1>18
  DEF Inv, TypeOK

\* The installer is the one the handoff was written for.
LEMMA SpawnKeepsInv ==
    ASSUME Inv, Spawn
    PROVE  Inv'
<1>1. /\ shared = {} /\ grant = None
      /\ \A q \in Process : at[q] \in Outside
  BY UpdatingIs DEF Spawn, Launched
<1>2. /\ launcher.binding \in Binding /\ launcher.safety \in Nat
      /\ nonces \in Nat /\ nonces \notin applied /\ ~Interrupted
      /\ launching # None /\ phase = "handed_off"
      /\ handoff = [version |-> launcher.binding.version,
                    kind |-> launcher.binding.kind,
                    restored |-> launcher.binding.restore,
                    safety |-> launcher.safety, nonce |-> nonces]
  BY DEF Spawn, Interrupted, HistoryTypeOK, Inv, LaunchInv, Launched, Claimed,
         Handed, Spawned, AloneInv, TypeOK, ProcessTypeOK, FileTypeOK
<1>3. handoff # None
  BY <1>2, NoneIsNoRecord DEF Spawn, Handoff, Binding
<1>4. /\ installer' = [version |-> launcher.binding.version,
                       nonce |-> nonces,
                       restored |-> launcher.binding.restore]
      /\ installer' \in Running /\ installer' # None
  BY <1>2, NoneIsNoRecord DEF Spawn, Running, Binding
<1>5. /\ launcher'.at = "recording"
      /\ launcher'.safety = launcher.safety
      /\ launcher'.binding = launcher.binding
  BY DEF Spawn, Inv, TypeOK, ProcessTypeOK, StillOf
<1>6. /\ StoreTypeOK' /\ SnapshotsTypeOK' /\ FileTypeOK' /\ HistoryTypeOK'
      /\ BarrierInv' /\ KeptInv'
  BY Untouched DEF Spawn, StillOf
<1>7. AdmissionTypeOK'
  BY <1>1, <1>2, <1>3, <1>4, <1>5
  DEF Spawn, StillOf, Inv, TypeOK, AdmissionTypeOK
<1>8. ProcessTypeOK'
  BY <1>4
  DEF Spawn, StillOf, Inv, TypeOK, ProcessTypeOK, Places, Stages, Inside
<1>9. HoldsAgree'
  BY <1>4, <1>5 DEF Spawn, Inv, TypeOK, HoldsAgree
<1>10. AloneInv'
  BY <1>1, <1>5
  DEF Spawn, Inv, AloneInv, AloneInStores, Launched, LockFree, Spawned
<1>11. RequestInv'
  BY <1>1 DEF Spawn, Inv, RequestInv, Launched
<1>12. LaunchInv'
  BY <1>2, <1>3, <1>5
  DEF Spawn, Whole, Inv, LaunchInv, Launched, Claimed, Handed, Spawned
<1>13. HandoffInv'
  BY <1>2, <1>3, <1>4 DEF Spawn, Inv, HandoffInv, InstallerOnRecord
<1>14. DataInv'
  BY <1>2, <1>3, <1>4, <1>5
  DEF Spawn, Inv, LaunchInv, Launched, DataInv, Interrupted, RolledBack,
      Harmless, Keeps
<1> QED
  BY <1>6, <1>7, <1>8, <1>9, <1>10, <1>11, <1>12, <1>13, <1>14 DEF Inv, TypeOK

LEMMA RecordLaunchedKeepsInv ==
    ASSUME Inv, NEW saved \in BOOLEAN, RecordLaunched(saved)
    PROVE  Inv'
<1>1. /\ shared = {} /\ grant = None
      /\ \A q \in Process : at[q] \in Outside
  BY UpdatingIs DEF RecordLaunched, Launched
<1>2. /\ launching # None /\ launching.step = "starting"
  BY DEF RecordLaunched, Inv, LaunchInv, Launched, Claimed, Handed, Spawned,
         AloneInv
<1>3. /\ launcher'.at = "handing_over"
      /\ launcher'.safety = launcher.safety
      /\ launcher'.binding = launcher.binding
  BY DEF RecordLaunched, Inv, TypeOK, ProcessTypeOK, StillOf
<1>4. /\ StoreTypeOK' /\ AdmissionTypeOK' /\ SnapshotsTypeOK'
      /\ HistoryTypeOK' /\ HandoffInv'
  BY Untouched DEF RecordLaunched, StillOf
<1>5. FileTypeOK'
  BY <1>1, <1>2, <1>3 DEF RecordLaunched, StillOf, Inv, TypeOK, FileTypeOK
<1>6. ProcessTypeOK'
  BY <1>1, <1>2, <1>3
  DEF RecordLaunched, StillOf, Inv, TypeOK, ProcessTypeOK, Places, Stages,
      Inside
<1>7. HoldsAgree'
  BY <1>3 DEF RecordLaunched, Inv, TypeOK, HoldsAgree
<1>8. AloneInv'
  BY <1>1, <1>3
  DEF RecordLaunched, Inv, AloneInv, AloneInStores, Launched, LockFree,
      Spawned
<1>9. RequestInv'
  BY <1>1 DEF RecordLaunched, Inv, RequestInv, Launched
<1>10. LaunchInv'
  BY <1>2, <1>3
  DEF RecordLaunched, Whole, Inv, LaunchInv, Launched, Claimed, Handed,
      Spawned
<1>11. DataInv'
  BY <1>2, <1>3
  DEF RecordLaunched, Inv, DataInv, Interrupted, RolledBack, Keeps
<1>12. BarrierInv'
  BY <1>1, BarrierEmpty DEF RecordLaunched
<1>13. KeptInv'
  BY <1>1, <1>2, <1>3 DEF RecordLaunched, StillOf, Inv, KeptInv, Kept, Sound,
         Listed, Whole
<1> QED
  BY <1>4, <1>5, <1>6, <1>7, <1>8, <1>9, <1>10, <1>11, <1>12, <1>13
  DEF Inv, TypeOK

LEMMA LetGoKeepsInv ==
    ASSUME Inv, LetGo
    PROVE  Inv'
<1>1. /\ StoreTypeOK' /\ SnapshotsTypeOK' /\ FileTypeOK' /\ HistoryTypeOK'
      /\ HandoffInv' /\ BarrierInv' /\ KeptInv'
  BY Untouched DEF LetGo, Ended, Idle
<1>2. AdmissionTypeOK'
  BY DEF LetGo, Ended, Idle, Inv, TypeOK, AdmissionTypeOK
<1>3. ProcessTypeOK'
  BY DEF LetGo, Ended, Idle, Inv, TypeOK, ProcessTypeOK, Places, Stages,
         Inside
<1>4. HoldsAgree'
  BY ProcessAssumption
  DEF LetGo, Ended, Idle, Inv, TypeOK, HoldsAgree, ProcessTypeOK, LockFree,
      Inside
<1>5. AloneInv'
  BY DEF LetGo, Ended, Idle, Inv, TypeOK, ProcessTypeOK, AloneInv,
         AloneInStores, Launched, LockFree, Inside, Spawned
<1>6. RequestInv'
  BY DEF LetGo, Ended, Idle, Inv, RequestInv, Launched, Harmless
<1>7. LaunchInv'
  BY LaunchEnds DEF LetGo, Ended, Idle
<1>8. DataInv'
  BY DEF LetGo, Ended, Idle, Inv, DataInv, Interrupted, RolledBack, Keeps
<1> QED
  BY <1>1, <1>2, <1>3, <1>4, <1>5, <1>6, <1>7, <1>8 DEF Inv, TypeOK

\* Until the data is back the handoff names the safety copy.
LEMMA NotStartedKeepsInv ==
    ASSUME Inv, NotStarted
    PROVE  Inv'
<1>1. /\ shared = {} /\ grant = None
      /\ \A q \in Process : at[q] \in Outside
  BY UpdatingIs DEF NotStarted, Launched
<1>2. /\ launcher.binding \in Binding /\ launcher.safety \in Nat
      /\ nonces \in Nat /\ nonces \notin applied /\ ~Interrupted
      /\ launching # None /\ phase = "handed_off"
      /\ handoff = [version |-> launcher.binding.version,
                    kind |-> launcher.binding.kind,
                    restored |-> launcher.binding.restore,
                    safety |-> launcher.safety, nonce |-> nonces]
  BY DEF NotStarted, Interrupted, HistoryTypeOK, Inv, LaunchInv, Launched,
         Claimed, Handed, Spawned, AloneInv, TypeOK, ProcessTypeOK, FileTypeOK
<1>3. handoff # None
  BY <1>2, NoneIsNoRecord DEF NotStarted, Handoff, Binding
<1>4. /\ launcher'.at = "taking_back"
      /\ launcher'.safety = launcher.safety
      /\ launcher'.binding = launcher.binding
  BY DEF NotStarted, Inv, TypeOK, ProcessTypeOK, StillOf
<1>5. /\ StoreTypeOK' /\ AdmissionTypeOK' /\ FileTypeOK' /\ HistoryTypeOK'
      /\ HandoffInv' /\ KeptInv'
  BY Untouched DEF NotStarted, StillOf
<1>6. SnapshotsTypeOK'
  BY DEF NotStarted, StillOf, Inv, TypeOK, SnapshotsTypeOK, Torn
<1>7. ProcessTypeOK'
  BY <1>1, <1>2, <1>3, <1>4
  DEF NotStarted, StillOf, Inv, TypeOK, ProcessTypeOK, Places, Stages, Inside
<1>8. HoldsAgree'
  BY <1>4 DEF NotStarted, Inv, TypeOK, HoldsAgree
<1>9. AloneInv'
  BY <1>1, <1>4
  DEF NotStarted, Inv, AloneInv, AloneInStores, Launched, LockFree, Spawned
<1>10. RequestInv'
  BY <1>1 DEF NotStarted, Inv, RequestInv, Launched
<1>11. LaunchInv'
  BY <1>2, <1>4
  DEF NotStarted, Whole, Inv, LaunchInv, Launched, Claimed, Handed, Spawned
<1>12. DataInv'
  BY <1>2, <1>3, <1>4
  DEF NotStarted, Inv, AloneInv, DataInv, Interrupted, RolledBack, Keeps,
      Spawned
<1>13. BarrierInv'
  BY <1>1, BarrierEmpty DEF NotStarted
<1> QED
  BY <1>5, <1>6, <1>7, <1>8, <1>9, <1>10, <1>11, <1>12, <1>13 DEF Inv, TypeOK

\* The data is today's again before the handoff goes.
LEMMA TakeBackKeepsInv ==
    ASSUME Inv, TakeBack
    PROVE  Inv'
<1>1. /\ shared = {} /\ grant = None
      /\ \A q \in Process : at[q] \in Outside
  BY UpdatingIs DEF TakeBack, Launched
<1>2. /\ launcher.binding \in Binding /\ launcher.safety \in Nat
      /\ nonces \in Nat /\ nonces \notin applied /\ ~Interrupted
      /\ launching # None /\ phase = "handed_off"
      /\ handoff = [version |-> launcher.binding.version,
                    kind |-> launcher.binding.kind,
                    restored |-> launcher.binding.restore,
                    safety |-> launcher.safety, nonce |-> nonces]
  BY DEF TakeBack, Interrupted, HistoryTypeOK, Inv, LaunchInv, Launched,
         Claimed, Handed, Spawned, AloneInv, TypeOK, ProcessTypeOK, FileTypeOK
<1>3. handoff # None
  BY <1>2, NoneIsNoRecord DEF TakeBack, Handoff, Binding
<1>4. /\ data' = truth /\ truth \in Contents
  BY <1>2, <1>3, SnapshotIs
  DEF TakeBack, Inv, TypeOK, HistoryTypeOK, DataInv, RolledBack, Contents
<1>5. /\ launcher'.at = "withdrawing"
      /\ launcher'.safety = launcher.safety
      /\ launcher'.binding = launcher.binding
  BY DEF TakeBack, Inv, TypeOK, ProcessTypeOK, StillOf
<1>6. /\ StoreTypeOK' /\ AdmissionTypeOK' /\ FileTypeOK' /\ HistoryTypeOK'
      /\ HandoffInv' /\ KeptInv'
  BY Untouched DEF TakeBack, StillOf
<1>7. SnapshotsTypeOK'
  BY <1>4 DEF TakeBack, StillOf, Inv, TypeOK, SnapshotsTypeOK, Contents
<1>8. ProcessTypeOK'
  BY <1>1, <1>2, <1>3, <1>4, <1>5
  DEF TakeBack, StillOf, Inv, TypeOK, ProcessTypeOK, Places, Stages, Inside
<1>9. HoldsAgree'
  BY <1>5 DEF TakeBack, Inv, TypeOK, HoldsAgree
<1>10. AloneInv'
  BY <1>1, <1>5
  DEF TakeBack, Inv, AloneInv, AloneInStores, Launched, LockFree, Spawned
<1>11. RequestInv'
  BY <1>1 DEF TakeBack, Inv, RequestInv, Launched
<1>12. LaunchInv'
  BY <1>2, <1>5
  DEF TakeBack, Whole, Inv, LaunchInv, Launched, Claimed, Handed, Spawned
<1>13. DataInv'
  BY <1>2, <1>3, <1>4, <1>5
  DEF TakeBack, Inv, AloneInv, DataInv, Interrupted, RolledBack, Keeps,
      Spawned
<1>14. BarrierInv'
  BY <1>1, BarrierEmpty DEF TakeBack
<1> QED
  BY <1>6, <1>7, <1>8, <1>9, <1>10, <1>11, <1>12, <1>13, <1>14 DEF Inv, TypeOK

LEMMA WithdrawKeepsInv ==
    ASSUME Inv, Withdraw
    PROVE  Inv'
<1>1. /\ shared = {} /\ grant = None
      /\ \A q \in Process : at[q] \in Outside
  BY UpdatingIs DEF Withdraw, Launched
<1>2. data = truth /\ installer = None
  BY DEF Withdraw, Inv, AloneInv, DataInv, Spawned
<1>3. /\ StoreTypeOK' /\ SnapshotsTypeOK' /\ HistoryTypeOK'
  BY Untouched DEF Withdraw, Ended, Idle
<1>4. AdmissionTypeOK'
  BY <1>1, <1>2 DEF Withdraw, Ended, Idle, Inv, TypeOK, AdmissionTypeOK
<1>5. FileTypeOK'
  BY <1>1, <1>2 DEF Withdraw, Ended, Idle, Inv, TypeOK, FileTypeOK
<1>6. ProcessTypeOK'
  BY <1>1, <1>2
  DEF Withdraw, Ended, Idle, Inv, TypeOK, ProcessTypeOK, Places, Stages,
      Inside
<1>7. HoldsAgree'
  BY ProcessAssumption
  DEF Withdraw, Ended, Idle, Inv, TypeOK, HoldsAgree, ProcessTypeOK, LockFree,
      Inside
<1>8. AloneInv'
  BY <1>1, <1>2
  DEF Withdraw, Ended, Idle, Inv, TypeOK, ProcessTypeOK, AloneInv,
      AloneInStores, Launched, LockFree, Inside, Spawned
<1>9. RequestInv'
  BY <1>1, <1>2 DEF Withdraw, Inv, RequestInv, Launched
<1>10. LaunchInv'
  BY LaunchEnds DEF Withdraw, Ended, Idle
<1>11. HandoffInv'
  BY <1>2 DEF Withdraw, HandoffInv, InstallerOnRecord
<1>12. DataInv'
  BY <1>1, <1>2
  DEF Withdraw, Ended, Idle, Inv, DataInv, Interrupted, RolledBack, Keeps
<1>13. BarrierInv'
  BY <1>1, BarrierEmpty DEF Withdraw
<1>14. KeptInv'
  BY <1>1, <1>2 DEF Withdraw, Ended, Idle, Inv, KeptInv, Kept, Sound,
         Listed, Whole
<1> QED
  BY <1>3, <1>4, <1>5, <1>6, <1>7, <1>8, <1>9, <1>10, <1>11, <1>12, <1>13,
     <1>14
  DEF Inv, TypeOK

\* A launch that gives up drops its claim only if no data was replaced.
LEMMA LaunchFailsKeepsInv ==
    ASSUME Inv, LaunchFails
    PROVE  Inv'
<1>1. /\ shared = {} /\ grant = None
      /\ \A q \in Process : at[q] \in Outside
  BY UpdatingIs DEF LaunchFails, Launched
<1>2. /\ installer = None /\ launching # None
      /\ launching.step = "claimed" => ~Interrupted
  BY DEF LaunchFails, Interrupted, Inv, LaunchInv, Launched, Claimed, Handed,
         Spawned, AloneInv
<1>3. /\ StoreTypeOK' /\ SnapshotsTypeOK' /\ HistoryTypeOK' /\ HandoffInv'
  BY Untouched DEF LaunchFails, Ended, Idle
<1>4. AdmissionTypeOK'
  BY <1>1, <1>2 DEF LaunchFails, Ended, Idle, Inv, TypeOK, AdmissionTypeOK
<1>5. FileTypeOK'
  BY DEF LaunchFails, Ended, Idle, Inv, TypeOK, FileTypeOK
<1>6. ProcessTypeOK'
  BY <1>1, <1>2
  DEF LaunchFails, Ended, Idle, Inv, TypeOK, ProcessTypeOK, Places, Stages,
      Inside
<1>7. HoldsAgree'
  BY ProcessAssumption
  DEF LaunchFails, Ended, Idle, Inv, TypeOK, HoldsAgree, ProcessTypeOK,
      LockFree, Inside
<1>8. AloneInv'
  BY <1>1, <1>2
  DEF LaunchFails, Ended, Idle, Inv, TypeOK, ProcessTypeOK, AloneInv,
      AloneInStores, Launched, LockFree, Inside, Spawned
<1>9. RequestInv'
  BY <1>1, <1>2 DEF LaunchFails, Inv, RequestInv, Launched
<1>10. LaunchInv'
  BY LaunchEnds DEF LaunchFails, Ended, Idle
<1>11. DataInv'
  BY <1>2
  DEF LaunchFails, Ended, Idle, Inv, DataInv, Interrupted, RolledBack, Keeps
<1>12. BarrierInv'
  BY <1>1, BarrierEmpty DEF LaunchFails
<1>13. KeptInv'
  BY DEF LaunchFails, Ended, Idle, Inv, KeptInv, Kept, Sound,
         Listed, Whole
<1> QED
  BY <1>3, <1>4, <1>5, <1>6, <1>7, <1>8, <1>9, <1>10, <1>11, <1>12, <1>13
  DEF Inv, TypeOK

LEMMA KillLauncherKeepsInv ==
    ASSUME Inv, KillLauncher
    PROVE  Inv'
<1>1. /\ StoreTypeOK' /\ SnapshotsTypeOK' /\ FileTypeOK' /\ HistoryTypeOK'
      /\ HandoffInv' /\ BarrierInv' /\ KeptInv'
  BY Untouched DEF KillLauncher, Ended, Idle
<1>2. AdmissionTypeOK'
  BY DEF KillLauncher, Ended, Idle, Inv, TypeOK, AdmissionTypeOK
<1>3. ProcessTypeOK'
  BY DEF KillLauncher, Ended, Idle, Inv, TypeOK, ProcessTypeOK, Places,
         Stages, Inside
<1>4. HoldsAgree'
  BY ProcessAssumption
  DEF KillLauncher, Ended, Idle, Inv, TypeOK, HoldsAgree, ProcessTypeOK,
      LockFree, Inside
<1>5. AloneInv'
  BY DEF KillLauncher, Ended, Idle, Inv, TypeOK, ProcessTypeOK, AloneInv,
         AloneInStores, Launched, LockFree, Inside, Spawned
<1>6. RequestInv'
  BY DEF KillLauncher, Ended, Idle, Inv, RequestInv, Launched, Harmless
<1>7. LaunchInv'
  BY LaunchEnds DEF KillLauncher, Ended, Idle
<1>8. DataInv'
  BY DEF KillLauncher, Ended, Idle, Inv, DataInv, Interrupted, RolledBack,
         Keeps
<1> QED
  BY <1>1, <1>2, <1>3, <1>4, <1>5, <1>6, <1>7, <1>8 DEF Inv, TypeOK

\* The data that was put back belongs to the build that was installed.
LEMMA InstallKeepsInv ==
    ASSUME Inv, NEW receipt \in BOOLEAN, Install(receipt)
    PROVE  Inv'
<1>1. /\ grant = None /\ phase = "handed_off" /\ ~Interrupted
      /\ installer \in Running /\ handoff # None /\ handoff \in Handoff
      /\ handoff.version = installer.version
      /\ handoff.nonce = installer.nonce
      /\ handoff.restored = installer.restored
      /\ handoff.nonce \in 1..nonces /\ handoff.nonce \notin applied
      /\ installer.restored # 0 => Keeps(installer.restored, data)
      /\ launcher.at \in {"off"} \union Spawned
  BY UpdatingIs
  DEF Install, Inv, TypeOK, ProcessTypeOK, FileTypeOK, HandoffInv,
      InstallerOnRecord, DataInv, AloneInv
<1>2. /\ installer.restored = 0 => data = truth
      /\ 0 \notin Listed
  BY <1>1, ListedIs DEF Install, Inv, TypeOK, HandoffInv, DataInv, RolledBack
<1>3. /\ data = truth' /\ truth' \in Contents
  BY <1>1, <1>2, SnapshotIs DEF Install, Inv, TypeOK, HistoryTypeOK, Contents
<1>4. /\ StoreTypeOK' /\ SnapshotsTypeOK' /\ FileTypeOK' /\ KeptInv'
  BY Untouched DEF Install, InstallerEnds
<1>5. AdmissionTypeOK'
  BY <1>1, <1>2, <1>3 DEF Install, InstallerEnds, Inv, TypeOK, AdmissionTypeOK
<1>6. ProcessTypeOK'
  BY <1>1
  DEF Install, InstallerEnds, Inv, TypeOK, ProcessTypeOK, Places, Stages,
      Inside, Running
<1>7. HistoryTypeOK'
  BY <1>1, <1>3
  DEF Install, InstallerEnds, Inv, TypeOK, HistoryTypeOK, Contents
<1>8. HoldsAgree'
  BY <1>1, <1>2, <1>3
  DEF Install, InstallerEnds, Inv, TypeOK, HoldsAgree, ProcessTypeOK,
      LockFree, Inside
<1>9. AloneInv'
  BY <1>1
  DEF Install, InstallerEnds, Inv, TypeOK, ProcessTypeOK, AloneInv,
      AloneInStores, Launched, LockFree, Inside, Spawned
<1>10. RequestInv'
  BY <1>1 DEF Install, InstallerEnds, Inv, RequestInv
<1>11. LaunchInv'
  BY <1>1
  DEF Install, InstallerEnds, Whole, Harmless, Inv, LaunchInv, Launched,
      Claimed, Handed, Spawned
<1>12. HandoffInv'
  BY <1>1 DEF Install, InstallerEnds, HandoffInv, InstallerOnRecord, Inv
<1>13. DataInv'
  BY <1>1, <1>3
  DEF Install, InstallerEnds, DataInv, Interrupted, RolledBack, Spawned
<1>14. BarrierInv'
  BY BarrierEmpty DEF Install, InstallerEnds, Outside
<1> QED
  BY <1>4, <1>5, <1>6, <1>7, <1>8, <1>9, <1>10, <1>11, <1>12, <1>13, <1>14
  DEF Inv, TypeOK

LEMMA InstallFailsKeepsInv ==
    ASSUME Inv, InstallFails
    PROVE  Inv'
<1>1. /\ StoreTypeOK' /\ SnapshotsTypeOK' /\ FileTypeOK' /\ HistoryTypeOK'
      /\ LaunchInv' /\ BarrierInv' /\ KeptInv'
  BY Untouched DEF InstallFails, InstallerEnds
<1>2. AdmissionTypeOK'
  BY DEF InstallFails, InstallerEnds, Inv, TypeOK, AdmissionTypeOK
<1>3. ProcessTypeOK'
  BY DEF InstallFails, InstallerEnds, Inv, TypeOK, ProcessTypeOK, Places,
         Stages, Inside
<1>4. HoldsAgree'
  BY DEF InstallFails, InstallerEnds, Inv, TypeOK, HoldsAgree, ProcessTypeOK,
         LockFree, Inside
<1>5. AloneInv'
  BY DEF InstallFails, InstallerEnds, Inv, TypeOK, ProcessTypeOK, AloneInv,
         AloneInStores, Launched, LockFree, Inside, Spawned
<1>6. RequestInv'
  BY DEF InstallFails, InstallerEnds, Inv, RequestInv, Launched, Harmless
<1>7. HandoffInv'
  BY DEF InstallFails, InstallerEnds, Inv, HandoffInv, InstallerOnRecord
<1>8. DataInv'
  BY DEF InstallFails, InstallerEnds, Inv, DataInv, Interrupted, RolledBack,
         Keeps
<1> QED
  BY <1>1, <1>2, <1>3, <1>4, <1>5, <1>6, <1>7, <1>8 DEF Inv, TypeOK

\* A power cut leaves the files and the data as they are.
LEMMA PowerCutKeepsInv ==
    ASSUME Inv, PowerCut
    PROVE  Inv'
<1>1. /\ StoreTypeOK' /\ SnapshotsTypeOK' /\ FileTypeOK' /\ HistoryTypeOK'
      /\ KeptInv'
  BY Untouched DEF PowerCut, Idle
<1>2. AdmissionTypeOK'
  BY DEF PowerCut, Idle, Inv, TypeOK, AdmissionTypeOK
<1>3. ProcessTypeOK'
  BY DEF PowerCut, Idle, Inv, TypeOK, ProcessTypeOK, Places, Stages, Inside
<1>4. HoldsAgree'
  BY DEF PowerCut, Idle, Inv, TypeOK, HoldsAgree, ProcessTypeOK, LockFree,
         Inside
<1>5. AloneInv'
  BY DEF PowerCut, Idle, Inv, TypeOK, ProcessTypeOK, AloneInv, AloneInStores,
         Launched, LockFree, Inside, Spawned
<1>6. RequestInv'
  BY DEF PowerCut, Idle, Inv, RequestInv, Launched, Harmless
<1>7. LaunchInv'
  BY LaunchEnds DEF PowerCut, Idle
<1>8. HandoffInv'
  BY DEF PowerCut, Idle, Inv, HandoffInv, InstallerOnRecord
<1>9. DataInv'
  BY DEF PowerCut, Idle, Inv, DataInv, Interrupted, RolledBack, Keeps
<1>10. BarrierInv'
  BY BarrierEmpty DEF PowerCut, Outside
<1> QED
  BY <1>1, <1>2, <1>3, <1>4, <1>5, <1>6, <1>7, <1>8, <1>9, <1>10
  DEF Inv, TypeOK

\* What a start finds when it asks the update store for its conclusion.
LEMMA ConfirmingIs ==
    ASSUME Inv, NEW p \in Process, at[p] = "confirming"
    PROVE  /\ ~Launched /\ installer = None
           /\ \A q \in Process : at[q] \in Judging => q = p
           /\ phase = "handed_off" /\ staged \in Package
           /\ judged \in Judgement /\ judged # None /\ judged.package = staged
           /\ judged.evidence => handoff # None /\ handoff.nonce \in applied
           /\ Interrupted => data = truth /\ handoff = None
           /\ handoff # None /\ handoff.safety # 0 =>
                  /\ handoff.nonce \in applied <=> staged.version = build
                  /\ handoff.kind = "rollback"
<1>1. /\ ~Launched /\ installer = None
      /\ \A q \in Process : at[q] \in Judging => q = p
  BY JudgingIs DEF Judging, Inside
<1>2. /\ phase = "handed_off" /\ staged \in Package
      /\ judged \in Judgement /\ judged # None /\ judged.package = staged
      /\ judged.evidence => handoff # None /\ handoff.nonce \in applied
      /\ Interrupted => data = truth /\ handoff = None
  BY DEF Inv, TypeOK, StoreTypeOK, ProcessTypeOK, BarrierInv, Judging, Inside
<1>3. ASSUME handoff # None, handoff.safety # 0
      PROVE  /\ handoff.nonce \in applied <=> staged.version = build
             /\ handoff.kind = "rollback"
  <2>1. handoff.kind = "rollback" /\ staged.version = handoff.version
    BY <1>2, <1>3 DEF Inv, HandoffInv
  <2>2. IF handoff.nonce \in applied THEN handoff.version = build
        ELSE handoff.kind = Kind(handoff.version, build)
    BY <1>3 DEF Inv, HandoffInv
  <2>3. Kind(build, build) = "repair"
    BY VersionsAre DEF Kind, Inv, TypeOK, ProcessTypeOK
  <2> QED
    BY <2>1, <2>2, <2>3
<1> QED
  BY <1>1, <1>2, <1>3

\* The update took place: the package is done with.
LEMMA AppliedKeepsInv ==
    ASSUME Inv, NEW p \in Process, ConfirmUpdate(p),
           Confirmed(build, judged.evidence) = "applied"
    PROVE  Inv'
<1>1. /\ at[p] = "confirming" /\ staged.version = build
      /\ staged.kind = "repair" => judged.evidence
      /\ phase' = "idle" /\ staged' = None /\ judged' = judged
      /\ at' = [at EXCEPT ![p] = "recording_applied"]
      /\ UNCHANGED << data, exclusive, launching, outcome >>
  BY DEF ConfirmUpdate, Confirm, Confirmed, Go, Inv, TypeOK, ProcessTypeOK
<1>2. /\ AdmissionTypeOK' /\ SnapshotsTypeOK' /\ FileTypeOK' /\ HistoryTypeOK'
      /\ DataInv' /\ KeptInv'
  BY <1>1, Untouched DEF ConfirmUpdate
<1>3. StoreTypeOK' /\ ProcessTypeOK'
  BY <1>1 DEF ConfirmUpdate, Inv, TypeOK, StoreTypeOK, ProcessTypeOK, Places,
              Inside
<1>4. HoldsAgree' /\ AloneInv'
  <2>1. HoldsAgree'
    BY <1>1, ConfirmingIs
    DEF ConfirmUpdate, Inv, TypeOK, HoldsAgree, ProcessTypeOK, Judging, Inside
  <2>2. AloneInv'
    BY <1>1, ConfirmingIs
    DEF ConfirmUpdate, Inv, AloneInv, AloneInStores, Launched
  <2> QED
    BY <2>1, <2>2
<1>5. RequestInv' /\ HandoffInv'
  BY <1>1, ConfirmingIs
  DEF ConfirmUpdate, Inv, RequestInv, HandoffInv, InstallerOnRecord, Launched,
      Harmless
<1>6. LaunchInv'
  BY ConfirmingIs, <1>1, LaunchEnds DEF ConfirmUpdate, Launched
<1>7. BarrierInv'
  <2>1. ~RolledBack
    BY <1>1, ConfirmingIs DEF RolledBack
  <2> QED
    BY <1>1, <2>1, ConfirmingIs
    DEF ConfirmUpdate, Inv, TypeOK, ProcessTypeOK, BarrierInv, Interrupted,
        RolledBack, Harmless, Judging, Inside
<1> QED
  BY <1>2, <1>3, <1>4, <1>5, <1>6, <1>7 DEF Inv, TypeOK

\* A repair without a receipt: nobody can tell, and that is recorded.
LEMMA UnconfirmedKeepsInv ==
    ASSUME Inv, NEW p \in Process, ConfirmUpdate(p),
           Confirmed(build, judged.evidence) = "unconfirmed"
    PROVE  Inv'
<1>1. /\ at[p] = "confirming" /\ staged.kind = "repair"
      /\ judged' = None /\ launching' = None
      /\ outcome' = Judged("unconfirmed")
      /\ at' = [at EXCEPT ![p] = "admission"]
      /\ UNCHANGED << phase, staged, data, exclusive >>
  BY DEF ConfirmUpdate, Confirm, Confirmed, Go, Inv, TypeOK, ProcessTypeOK
<1>2. /\ StoreTypeOK' /\ AdmissionTypeOK' /\ SnapshotsTypeOK' /\ HistoryTypeOK'
      /\ HandoffInv'
  BY <1>1, Untouched DEF ConfirmUpdate
<1>3. outcome' \in Outcome /\ outcome'.kind = "repair"
  BY <1>1, ConfirmingIs DEF Judged, Outcome, Package
<1>4. FileTypeOK' /\ ProcessTypeOK' /\ KeptInv'
  BY <1>1, <1>3 DEF ConfirmUpdate, Inv, TypeOK, FileTypeOK, ProcessTypeOK,
                    KeptInv, Kept, Sound,
                    Listed, Whole, Places, Inside
<1>5. HoldsAgree' /\ AloneInv'
  <2>1. HoldsAgree'
    BY <1>1, ConfirmingIs
    DEF ConfirmUpdate, Inv, TypeOK, HoldsAgree, ProcessTypeOK, Judging, Inside
  <2>2. AloneInv'
    BY <1>1, ConfirmingIs
    DEF ConfirmUpdate, Inv, AloneInv, AloneInStores, Launched
  <2> QED
    BY <2>1, <2>2
<1>6. RequestInv'
  BY <1>1, <1>3 DEF ConfirmUpdate, Inv, RequestInv, Launched, Harmless
<1>7. LaunchInv'
  BY ConfirmingIs, <1>1, LaunchEnds DEF ConfirmUpdate, Launched
<1>8. DataInv'
  BY <1>1, ConfirmingIs
  DEF ConfirmUpdate, Inv, DataInv, Interrupted, RolledBack, Keeps, Launched
<1>9. BarrierInv'
  BY <1>1, ConfirmingIs
  DEF ConfirmUpdate, Inv, TypeOK, ProcessTypeOK, BarrierInv, Interrupted,
      RolledBack, Harmless, Judging, Inside
<1> QED
  BY <1>2, <1>4, <1>5, <1>6, <1>7, <1>8, <1>9 DEF Inv, TypeOK

\* The build that runs is another one: what was put back for it is undone.
LEMMA NotAppliedKeepsInv ==
    ASSUME Inv, NEW p \in Process, ConfirmUpdate(p),
           Confirmed(build, judged.evidence) = "not_applied"
    PROVE  Inv'
<1> DEFINE Gives == \/ /\ at' = [at EXCEPT ![p] = "recording_not_applied"]
                       /\ judged' = judged /\ Harmless
                       /\ UNCHANGED << data, exclusive >>
                    \/ /\ at' = [at EXCEPT ![p] = "off"] /\ judged' = None
                       /\ UNCHANGED << data, exclusive >>
<1> DEFINE Undoes == /\ at' = [at EXCEPT ![p] = "undoing"] /\ judged' = judged
                     /\ MayExclude /\ handoff # None /\ handoff.safety # 0
                     /\ data' = Torn /\ exclusive' = {p}
<1>1. /\ at[p] = "confirming" /\ staged.version # build
      /\ UNCHANGED << phase, staged, launching, outcome >>
      /\ Gives \/ Undoes
  BY DEF ConfirmUpdate, Confirm, Confirmed, Go, Inv, TypeOK, ProcessTypeOK,
         Harmless
<1>2. /\ StoreTypeOK' /\ FileTypeOK' /\ HistoryTypeOK' /\ RequestInv'
      /\ LaunchInv' /\ HandoffInv' /\ KeptInv'
  BY <1>1, Untouched DEF ConfirmUpdate
<1>3. ProcessTypeOK' /\ AdmissionTypeOK' /\ SnapshotsTypeOK'
  BY <1>1 DEF ConfirmUpdate, Inv, TypeOK, ProcessTypeOK, AdmissionTypeOK,
              SnapshotsTypeOK, Torn, Places, Inside
<1>4. HoldsAgree' /\ AloneInv'
  <2>1. HoldsAgree'
    BY <1>1, ConfirmingIs
    DEF ConfirmUpdate, Inv, TypeOK, HoldsAgree, ProcessTypeOK, MayExclude,
        Judging, Inside
  <2>2. AloneInv'
    BY <1>1, ConfirmingIs
    DEF ConfirmUpdate, Inv, AloneInv, AloneInStores, Launched
  <2> QED
    BY <2>1, <2>2
<1>5. Undoes => RolledBack
  BY <1>1, ConfirmingIs DEF RolledBack
<1>6. Gives /\ Harmless => data = truth
  BY ConfirmingIs, <1>1 DEF Inv, DataInv, Interrupted, RolledBack, Harmless
<1>7. DataInv'
  BY <1>1, <1>5, ConfirmingIs
  DEF ConfirmUpdate, Inv, DataInv, Interrupted, RolledBack, Keeps, Launched
<1>8. BarrierInv'
  BY <1>1, <1>5, <1>6, ConfirmingIs
  DEF ConfirmUpdate, Inv, TypeOK, ProcessTypeOK, BarrierInv, Interrupted,
      RolledBack, Harmless, Judging, Inside, HoldsAgree, MayExclude
<1> QED
  BY <1>2, <1>3, <1>4, <1>7, <1>8 DEF Inv, TypeOK

LEMMA ConfirmUpdateKeepsInv ==
    ASSUME Inv, NEW p \in Process, ConfirmUpdate(p)
    PROVE  Inv'
<1>1. Confirmed(build, judged.evidence)
          \in {"applied", "unconfirmed", "not_applied"}
  BY DEF ConfirmUpdate
<1> QED
  BY <1>1, AppliedKeepsInv, UnconfirmedKeepsInv, NotAppliedKeepsInv

-----------------------------------------------------------------------------
(* The theorems. *)

LEMMA InitIsInv == Init => Inv
<1> SUFFICES ASSUME Init PROVE Inv
  OBVIOUS
<1>1. /\ build \in Version /\ data = [format |-> build, content |-> 1]
      /\ snapshots = {} /\ taken = 0 /\ phase = "idle" /\ staged = None
      /\ shared = {} /\ exclusive = {} /\ fence = {}
      /\ truth = data /\ launcher.at = "off"
  BY DEF Init, SnapshotsInit, StoreInit, AdmissionInit, Idle
<1>2. StoreTypeOK /\ AdmissionTypeOK /\ SnapshotsTypeOK /\ FileTypeOK
  BY <1>1 DEF Init, StoreTypeOK, AdmissionTypeOK, SnapshotsTypeOK, FileTypeOK
<1>3. ProcessTypeOK
  BY DEF Init, ProcessTypeOK, Idle, Places, Stages
<1>4. HistoryTypeOK
  BY <1>1, BoundsAssumption DEF Init, HistoryTypeOK
<1>5. HoldsAgree
  BY <1>1 DEF Init, HoldsAgree, Inside
<1>6. AloneInv /\ RequestInv /\ LaunchInv /\ HandoffInv
  BY <1>1 DEF Init, AloneInv, AloneInStores, RequestInv, LaunchInv, HandoffInv,
              InstallerOnRecord, Launched, LockFree, Inside
<1>7. DataInv /\ BarrierInv /\ KeptInv
  BY <1>1 DEF Init, DataInv, BarrierInv, KeptInv, Interrupted, RolledBack,
              Judging, Inside
<1> QED
  BY <1>2, <1>3, <1>4, <1>5, <1>6, <1>7 DEF Inv, TypeOK

LEMMA StartStepKeepsInv ==
    ASSUME Inv, NEW p \in Process, StartStep(p)
    PROVE  Inv'
  BY StartRefusedKeepsInv, PutBackKeepsInv, PutBackDoneKeepsInv,
     NothingToPutBackKeepsInv, SettledKeepsInv, JudgeKeepsInv,
     ConfirmUpdateKeepsInv, UndoDoneKeepsInv, RecordOutcomeKeepsInv,
     AdmitKeepsInv, OpenKeepsInv, SecondLookRefusedKeepsInv DEF StartStep

LEMMA AskingKeepsInv ==
    ASSUME Inv, NEW p \in Process, Asking(p)
    PROVE  Inv'
  BY RequestKeepsInv, ApprovalRefusedKeepsInv, ApproveKeepsInv,
     DiscardKeepsInv DEF Asking

LEMMA LauncherStepKeepsInv ==
    ASSUME Inv, LauncherStep
    PROVE  Inv'
  BY ClaimKeepsInv, ClaimRefusedKeepsInv, KeepCopyKeepsInv, HandOverKeepsInv,
     SaveDataKeepsInv, BeginReplacingKeepsInv, FinishReplacingKeepsInv,
     ReplacingFailsKeepsInv, RecordStartKeepsInv, SpawnKeepsInv,
     RecordLaunchedKeepsInv, LetGoKeepsInv, NotStartedKeepsInv,
     TakeBackKeepsInv, WithdrawKeepsInv, LaunchFailsKeepsInv, DropCopyKeepsInv
  DEF LauncherStep

LEMMA StutterKeepsInv ==
    ASSUME Inv, UNCHANGED vars
    PROVE  Inv'
<1>1. /\ StoreTypeOK' /\ AdmissionTypeOK' /\ SnapshotsTypeOK' /\ FileTypeOK'
      /\ ProcessTypeOK' /\ HistoryTypeOK'
      /\ HoldsAgree' /\ AloneInv' /\ RequestInv'
      /\ LaunchInv' /\ HandoffInv' /\ DataInv' /\ BarrierInv' /\ KeptInv'
  BY Untouched DEF vars
<1> QED
  BY <1>1 DEF Inv, TypeOK

LEMMA NextKeepsInv == Inv /\ [Next]_vars => Inv'
<1> SUFFICES ASSUME Inv, [Next]_vars PROVE Inv'
  OBVIOUS
<1>1. ASSUME NEW p \in Process,
             Start(p) \/ StartStep(p) \/ Close(p) \/ Kill(p)
      PROVE  Inv'
  BY <1>1, StartKeepsInv, StartStepKeepsInv, CloseKeepsInv, KillKeepsInv
<1>2. ASSUME NEW p \in Process, Asking(p) \/ Write(p)
      PROVE  Inv'
  BY <1>2, AskingKeepsInv, WriteKeepsInv
<1>3. CASE Quiesce \/ LauncherStep \/ KillLauncher
  BY <1>3, QuiesceKeepsInv, LauncherStepKeepsInv, KillLauncherKeepsInv
<1>4. CASE InstallFails \/ PowerCut \/ \E receipt \in BOOLEAN : Install(receipt)
  BY <1>4, InstallKeepsInv, InstallFailsKeepsInv, PowerCutKeepsInv
<1>5. CASE UNCHANGED vars
  BY <1>5, StutterKeepsInv
<1> QED
  BY <1>1, <1>2, <1>3, <1>4, <1>5 DEF Next

\* Whatever is killed, and whenever the power goes, the claim, the handoff and
\* the safety copies together say what the data is and where it comes back
\* from (update_service.py:1338-1520, startup_admission.py).
THEOREM UpdateInvariant == Spec => []Inv
<1>1. Inv /\ [Next]_vars => Inv'
  BY NextKeepsInv
<1> QED
  BY <1>1, InitIsInv, PTL DEF Spec

\* Every variable has its type; the stores' lock, the fence and the lock of the
\* update store are held by those whose place in the code says so.
THEOREM UpdateTypeCorrect == Spec => []TypeOK
<1>1. Inv => TypeOK
  BY DEF Inv
<1> QED
  BY <1>1, UpdateInvariant, PTL

\* A process with open stores finds the data of the build that runs, whatever
\* launch, installer or start died on the way.
THEOREM OpenStoresAreTrue == Spec => []DataIsTrue
<1>1. Inv => DataIsTrue
  BY OpenIs DEF DataIsTrue
<1> QED
  BY <1>1, UpdateInvariant, PTL

\* Nobody has the stores open while a launch or its installer is alive.
THEOREM UpdatesAreAlone == Spec => []AloneInStores
<1>1. Inv => AloneInStores
  BY DEF Inv, AloneInv
<1> QED
  BY <1>1, UpdateInvariant, PTL

\* An installer that runs is the one of the durable handoff.
THEOREM InstallersAreOnRecord == Spec => []InstallerOnRecord
<1>1. Inv => InstallerOnRecord
  BY DEF Inv, HandoffInv
<1> QED
  BY <1>1, UpdateInvariant, PTL

\* No copy that something still refers to is pruned, and none that a start may
\* have to put back loses its files.
THEOREM ReferredCopiesAreKept == Spec => []CopiesAreKept
<1>1. Inv => CopiesAreKept
  BY KeptIs DEF Inv
<1> QED
  BY <1>1, UpdateInvariant, PTL

\* Who writes an outcome: the start that judged the update, and nobody else.
LEMMA OutcomeIsRecorded ==
    ASSUME [Next]_vars
    PROVE  \/ outcome' \in {outcome, None}
           \/ outcome'.result = "unconfirmed"
           \/ \E p \in Process : RecordOutcome(p)
<1>1. ASSUME NEW p \in Process, ConfirmUpdate(p)
      PROVE  outcome' = outcome \/ outcome'.result = "unconfirmed"
  BY <1>1 DEF ConfirmUpdate, Judged
<1>2. ASSUME NEW p \in Process, StartStep(p),
             ~ConfirmUpdate(p), ~RecordOutcome(p)
      PROVE  outcome' = outcome
  BY <1>2 DEF StartStep, StartRefused, PutBack, PutBackDone, NothingToPutBack,
              Settled, Judge, UndoDone, Admit, Open, SecondLookRefused
<1>3. ASSUME NEW p \in Process, Start(p) \/ Close(p) \/ Kill(p) \/ Write(p)
      PROVE  outcome' = outcome
  BY <1>3 DEF Start, Close, Kill, Write
<1>4. ASSUME NEW p \in Process, Asking(p)
      PROVE  outcome' \in {outcome, None}
  BY <1>4 DEF Asking, Request, ApprovalRefused, Approve, Discard
<1>5. CASE LauncherStep
  BY <1>5
  DEF LauncherStep, Claim, ClaimRefused, KeepCopy, HandOver, SaveData,
      BeginReplacing, FinishReplacing, ReplacingFails, RecordStart, Spawn,
      RecordLaunched, LetGo, NotStarted, TakeBack, Withdraw, LaunchFails,
      DropCopy
<1>6. CASE Quiesce \/ KillLauncher \/ InstallFails \/ PowerCut
           \/ \E receipt \in BOOLEAN : Install(receipt)
  BY <1>6 DEF Quiesce, KillLauncher, InstallFails, Install, InstallerEnds,
              PowerCut
<1>7. CASE UNCHANGED vars
  BY <1>7 DEF vars
<1> QED
  BY <1>1, <1>2, <1>3, <1>4, <1>5, <1>6, <1>7 DEF Next

\* An update is recorded as applied only if that very installation took place,
\* and as not applied only if it did not.
THEOREM OutcomesAreHonest == Spec => HonestOutcome
<1> DEFINE Records == /\ outcome' # outcome /\ outcome' # None
                      /\ handoff # None
                      /\ outcome'.version = handoff.version
                      /\ outcome'.kind = handoff.kind
<1> DEFINE Honest == /\ outcome'.result = "applied" =>
                            handoff.nonce \in applied
                     /\ outcome'.result = "not_applied" =>
                            handoff.nonce \notin applied
<1>1. ASSUME Inv, [Next]_vars, Records
      PROVE  Honest
  <2>1. CASE outcome'.result = "unconfirmed"
    BY <2>1
  <2>2. ASSUME NEW p \in Process, RecordOutcome(p)
        PROVE  Honest
    <3>1. /\ outcome'.version = judged.package.version
          /\ outcome'.kind = judged.package.kind
          /\ outcome'.result = IF at[p] = "recording_applied"
                               THEN "applied" ELSE "not_applied"
      BY <2>2 DEF RecordOutcome, Judged
    <3>2. IF handoff.nonce \in applied THEN handoff.version = build
          ELSE handoff.kind = Kind(handoff.version, build)
      BY <1>1 DEF Inv, HandoffInv
    <3>3. CASE at[p] = "recording_applied"
      <4>1. /\ handoff.version = build
            /\ handoff.kind = "repair" => handoff.nonce \in applied
        BY <1>1, <3>1, <3>3 DEF Inv, BarrierInv
      <4>2. Kind(build, build) = "repair"
        BY <1>1, VersionsAre DEF Kind, Inv, TypeOK, ProcessTypeOK
      <4> QED
        BY <3>1, <3>2, <3>3, <4>1, <4>2
    <3>4. CASE at[p] = "recording_not_applied"
      <4>1. handoff.version # build
        BY <1>1, <3>1, <3>4 DEF Inv, BarrierInv
      <4> QED
        BY <3>1, <3>2, <3>4, <4>1
    <3> QED
      BY <2>2, <3>3, <3>4 DEF RecordOutcome
  <2> QED
    BY <1>1, <2>1, <2>2, OutcomeIsRecorded
<1>2. Inv /\ [Next]_vars => [Records => Honest]_vars
  BY <1>1
<1> QED
  BY <1>2, UpdateInvariant, PTL DEF Spec, HonestOutcome
=============================================================================
