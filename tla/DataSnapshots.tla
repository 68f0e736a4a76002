---------------------------- MODULE DataSnapshots ---------------------------
(* core/update_service.py, snapshots: the copies of the single-file stores   *)
(* the updater keeps, which of them it prunes, and the data itself.  Content *)
(* is a number; data half replaced file by file is Torn.  A copy is an entry *)
(* of the saved list and a folder of files, which go before the entry does.  *)
EXTENDS Builds, FiniteSets

CONSTANT Keep           \* _SNAPSHOT_KEEP

ASSUME KeepAssumption == Keep \in Nat \ {0}

VARIABLES data,         \* what the store files hold: a format and a content
          snapshots,    \* the recorded copies, numbered as they were taken
          taken         \* how many have been taken: the next one's number

snapshotVars == << data, snapshots, taken >>

Torn == [format |-> 0, content |-> 0]

Copy == [id : Nat \ {0}, reason : {"upgrade", "pre_restore"},
         from : Version, holds : [format : Version, content : Nat],
         whole : BOOLEAN]   \* its files are all there

SnapshotsTypeOK == /\ data \in [format : Version \union {0}, content : Nat]
                   /\ snapshots \subseteq Copy
                   /\ taken \in Nat
                   /\ \A s \in snapshots : s.id <= taken
                   /\ \A s, r \in snapshots : s.id = r.id => s = r

SnapshotsInit(build) ==
    data = [format |-> build, content |-> 1] /\ snapshots = {} /\ taken = 0

Listed == {s.id : s \in snapshots}

\* The copies that can be put back (_snapshot_contents).
Whole == {s.id : s \in {r \in snapshots : r.whole}}

Snapshot(id) == CHOOSE s \in snapshots : s.id = id

\* A mutant of CopyFor: the newest copy, of whatever format.
NewestCopy(version) ==
    LET upgrades == {s.id : s \in {c \in snapshots : c.reason = "upgrade"}}
    IN  IF upgrades = {} THEN 0
        ELSE CHOOSE n \in upgrades : \A m \in upgrades : m <= n

\* The copy a rollback to this version would put back: the newest one from
\* before an upgrade that the version can read (0: there is none).
CopyFor(version) ==
    LET readable == {s.id : s \in {c \in snapshots :
                        c.reason = "upgrade" /\ c.from <= version}}
    IN  IF readable = {} THEN 0
        ELSE CHOOSE n \in readable : \A m \in readable : m <= n

Crowded(copies) ==
    \/ Cardinality({s \in copies : s.reason = "upgrade"}) > Keep
    \/ Cardinality(copies) > Keep + 1

\* The copies that stay when one more was added: the oldest copies nothing
\* refers to go, one after the other, as long as there are too many.
Pruned(copies, pinned) ==
    LET older(s) == {r \in copies : r.id \notin pinned /\ r.id < s.id}
    IN  {s \in copies : s.id \in pinned \/ ~Crowded(copies \ older(s))}

Entry(reason, build) == [id |-> taken + 1, reason |-> reason, from |-> build,
                         holds |-> data, whole |-> TRUE]

Left(entry, pinned) ==
    Pruned(snapshots \union {entry}, pinned \union {entry.id})

\* _delete_snapshot: while a copy is taken, the files of the oldest copy that
\* has to go are deleted.  The saved list still names it.
DropOldest(reason, build, pinned) ==
    LET going == {s \in snapshots \ Left(Entry(reason, build), pinned) : s.whole}
    IN  \E s \in going :
            /\ \A r \in going : s.id <= r.id
            /\ snapshots' = (snapshots \ {s})
                                \union {[s EXCEPT !.whole = FALSE]}
            /\ UNCHANGED << data, taken >>

\* The list is saved, once the files of every copy that has to go are gone.
TakeSnapshot(reason, build, pinned) ==
    LET copies == Left(Entry(reason, build), pinned)
    IN  /\ \A s \in snapshots \ copies : ~s.whole
        /\ Cardinality(copies) <= Keep + 3  \* "Too many unresolved snapshots"
        /\ snapshots' = copies
        /\ taken' = taken + 1
        /\ UNCHANGED data
=============================================================================
