--------------------------- MODULE DeviceLinkProofs ---------------------------
(***************************************************************************)
(* Proofs about the device link, for any devices, commands, connections    *)
(* and limits.                                                             *)
(***************************************************************************)
EXTENDS DeviceLink, FiniteSetTheorems, TLAPS

-----------------------------------------------------------------------------
(* The ledger by itself. *)

Kept == {x \in Device \X Cid : entries[x[1]][x[2]].kept # {}}

\* Only what is finished has an answer that is kept.
KeptIsDone ==
    \A d \in Device, c \in Cid :
        entries[d][c].kept # {} => entries[d][c].state = "done"

EntriesTyped == entries \in [Device -> [Cid -> Entries]]

Account == retained = Cardinality(Kept) /\ retained <= MaxRetained

LedgerInv == EntriesTyped /\ KeptIsDone /\ Account

\* An entry of which a part changes is an entry, and the rest of it is as it
\* was.
LEMMA EntryDone ==
    ASSUME NEW e \in Entries, NEW g, g = [e EXCEPT !.state = "done"]
    PROVE  /\ g \in Entries /\ g.state = "done"
           /\ g.op = e.op /\ g.kept = e.kept /\ g.old = e.old
  BY DEF Entries

LEMMA EntryKept ==
    ASSUME NEW e \in Entries, NEW os \in SUBSET Op
    PROVE  /\ [e EXCEPT !.kept = os] \in Entries
           /\ [e EXCEPT !.kept = os].kept = os
           /\ [e EXCEPT !.kept = os].state = e.state
           /\ [e EXCEPT !.kept = os].op = e.op
           /\ [e EXCEPT !.kept = os].old = e.old
<1> DEFINE g == [e EXCEPT !.kept = os]
<1>1. /\ g \in Entries /\ g.kept = os /\ g.state = e.state
      /\ g.op = e.op /\ g.old = e.old
  BY DEF Entries
<1> QED
  BY <1>1

LEMMA EntryOld ==
    ASSUME NEW e \in Entries, NEW g, g = [e EXCEPT !.old = TRUE]
    PROVE  /\ g \in Entries /\ g.old = TRUE
           /\ g.op = e.op /\ g.state = e.state /\ g.kept = e.kept
  BY DEF Entries

\* One entry of one device's ledger changes.
LEMMA OneEntry ==
    ASSUME NEW f \in [Device -> [Cid -> Entries]],
           NEW d \in Device, NEW c \in Cid, NEW e \in Entries,
           NEW g, g = [f EXCEPT ![d] = [f[d] EXCEPT ![c] = e]]
    PROVE  /\ g \in [Device -> [Cid -> Entries]]
           /\ \A b \in Device, x \in Cid :
                 g[b][x] = IF b = d /\ x = c THEN e ELSE f[b][x]
  OBVIOUS

\* What the account says is the number of the kept answers, of which there are
\* finitely many.
LEMMA KeptFinite ==
    /\ IsFiniteSet(Kept) /\ Cardinality(Kept) \in Nat
<1>1. IsFiniteSet(Device \X Cid)
  BY LedgerAssumption, FS_Product
<1>2. IsFiniteSet(Kept)
  BY <1>1, FS_Subset DEF Kept
<1> QED
  BY <1>2, FS_CardinalityType

\* Dropping answers of one device and giving back what they took keeps the
\* account true.
LEMMA DroppingIsHonest ==
    ASSUME NEW d \in Device, NEW cs, EntriesTyped, Account,
           Kept' = Kept \ ({d} \X (Answers(entries[d]) \cap cs)),
           retained' = retained - Freed(d, cs)
    PROVE  Account'
<1> DEFINE gone == Answers(entries[d]) \cap cs
<1>1. IsFiniteSet(gone) /\ gone \subseteq Cid
  <2>1. gone \subseteq Cid
    BY DEF Answers
  <2> QED
    BY <2>1, FS_Subset, LedgerAssumption
<1>2. Cardinality({d} \X gone) = Cardinality(gone)
  <2>1. IsFiniteSet({d}) /\ Cardinality({d}) = 1
    BY FS_Singleton
  <2>2. Cardinality({d} \X gone) = 1 * Cardinality(gone)
    BY <2>1, <1>1, FS_Product
  <2>3. Cardinality(gone) \in Nat
    BY <1>1, FS_CardinalityType
  <2> QED
    BY <2>2, <2>3
<1>3. Kept \cap ({d} \X gone) = {d} \X gone
  <2>1. ASSUME NEW x \in {d} \X gone
        PROVE  x \in Kept
    BY <2>1, <1>1 DEF Kept, Answers
  <2> QED
    BY <2>1
<1>4. /\ IsFiniteSet(Kept \ ({d} \X gone))
      /\ Cardinality(Kept \ ({d} \X gone))
            = Cardinality(Kept) - Cardinality(Kept \cap ({d} \X gone))
  BY KeptFinite, FS_Difference, Zenon
<1>5. Cardinality(Kept') = Cardinality(Kept) - Cardinality(gone)
  BY <1>2, <1>3, <1>4
<1>6. Cardinality(gone) \in Nat /\ Cardinality(Kept) \in Nat
  BY <1>1, KeptFinite, FS_CardinalityType
<1>7. retained' = Cardinality(Kept) - Cardinality(gone)
  BY DEF Account, Freed
<1> QED
  BY <1>5, <1>6, <1>7, LedgerAssumption DEF Account

\* begin: the commands `cs` are dropped, and a new one is begun or is not.
Claimed(d, c, o, cs) ==
    \A x \in Cid : entries'[d][x] =
        IF x = c THEN [state |-> "running", op |-> o, kept |-> {},
                       old |-> FALSE]
        ELSE IF x \in cs THEN NoEntry ELSE entries[d][x]

Dropped(d, cs) ==
    \A x \in Cid : entries'[d][x] =
        IF x \in cs THEN NoEntry ELSE entries[d][x]

LEMMA BeginShape ==
    ASSUME NEW d \in Device, NEW c \in Cid, NEW o \in Op,
           LedgerInv, Begin(d, c, o)
    PROVE  /\ EntriesTyped'
           /\ \A b \in Device \ {d} : entries'[b] = entries[b]
           /\ \/ /\ Verdict(d, c, o) # "new"
                 /\ Dropped(d, Lapsed(entries[d]))
                 /\ retained' = retained - Freed(d, Lapsed(entries[d]))
              \/ /\ Verdict(d, c, o) = "new" /\ c \notin Known(Lasting(d))
                 /\ \E cs \in Evicted(Lasting(d)) :
                      /\ cs \subseteq Cid
                      /\ Claimed(d, c, o, Lapsed(entries[d]) \cup cs)
                      /\ retained' = retained
                                      - Freed(d, Lapsed(entries[d]) \cup cs)
<1> DEFINE e == entries[d]
           l == Without(e, Lapsed(e))
<1>0. /\ entries \in [Device -> [Cid -> Entries]]
      /\ e \in [Cid -> Entries] /\ l \in [Cid -> Entries]
  BY DEF LedgerInv, EntriesTyped, Without, Entries, NoEntry
<1>1. Lasting(d) = l
  BY DEF Lasting
<1>2. CASE Verdict(d, c, o) = "new"
  <2>1. PICK cs \in Evicted(l) :
            /\ entries' = [entries EXCEPT ![d] =
                 [Without(l, cs) EXCEPT ![c] =
                    [state |-> "running", op |-> o, kept |-> {},
                     old |-> FALSE]]]
            /\ retained' = retained - Freed(d, Lapsed(e) \cup cs)
    BY <1>1, <1>2 DEF Begin
  <2>2. cs \subseteq Cid
    BY <2>1 DEF Evicted, Finished
  <2>3. c \notin Known(l)
    BY <1>1, <1>2 DEF Verdict
  <2>4. Claimed(d, c, o, Lapsed(e) \cup cs)
    BY <2>1, <2>2, <1>0 DEF Without, Claimed
  <2>5. \A b \in Device \ {d} : entries'[b] = entries[b]
    BY <2>1, <1>0
  <2>6. EntriesTyped'
    <3>1. Without(l, cs) \in [Cid -> Entries]
      BY <1>0 DEF Without, Entries, NoEntry
    <3>2. [state |-> "running", op |-> o, kept |-> {}, old |-> FALSE]
              \in Entries
      BY DEF Entries
    <3> QED
      BY <2>1, <3>1, <3>2, <1>0 DEF EntriesTyped
  <2> QED
    BY <1>1, <1>2, <2>1, <2>2, <2>3, <2>4, <2>5, <2>6
<1>3. CASE Verdict(d, c, o) # "new"
  <2>1. entries' = [entries EXCEPT ![d] = l]
        /\ retained' = retained - Freed(d, Lapsed(e))
    BY <1>1, <1>3 DEF Begin
  <2>2. EntriesTyped'
    BY <2>1, <1>0 DEF EntriesTyped
  <2>3. Dropped(d, Lapsed(e))
    BY <2>1, <1>0 DEF Without, Dropped
  <2>4. \A b \in Device \ {d} : entries'[b] = entries[b]
    BY <2>1, <1>0
  <2> QED
    BY <1>3, <2>1, <2>2, <2>3, <2>4
<1> QED
  BY <1>2, <1>3

\* begin: expiry and eviction give back what they drop.
LEMMA BeginIsHonest ==
    ASSUME NEW d \in Device, NEW c \in Cid, NEW o \in Op,
           LedgerInv, Begin(d, c, o)
    PROVE  LedgerInv'
<1>1. EntriesTyped' /\ \A b \in Device \ {d} : entries'[b] = entries[b]
  BY BeginShape
<1>2. KeptIsDone /\ Account /\ EntriesTyped
  BY DEF LedgerInv
<1>3. Kept \subseteq Device \X Cid /\ Kept' \subseteq Device \X Cid
  BY DEF Kept
<1>4. ASSUME NEW cs, cs \subseteq Cid, c \notin Known(Lasting(d)),
             Claimed(d, c, o, Lapsed(entries[d]) \cup cs),
             retained' = retained - Freed(d, Lapsed(entries[d]) \cup cs)
      PROVE  LedgerInv'
  <2> DEFINE e == entries[d]
             all == Lapsed(e) \cup cs
  <2>1. c \in Answers(e) => c \in Lapsed(e)
    BY <1>2, <1>4 DEF Answers, Known, Lasting, Without, Lapsed, KeptIsDone
  <2>2. ASSUME NEW b \in Device, NEW x \in Cid
        PROVE  <<b, x>> \in Kept' <=>
               <<b, x>> \in Kept \ ({d} \X (Answers(e) \cap all))
    BY <1>1, <1>4, <2>1 DEF Claimed, Kept, Answers, NoEntry
  <2>3. Kept' = Kept \ ({d} \X (Answers(e) \cap all))
    BY <1>3, <2>2
  <2>4. KeptIsDone'
    BY <1>1, <1>2, <1>4 DEF Claimed, KeptIsDone, NoEntry
  <2>5. Account'
    BY <1>2, <1>4, <2>3, DroppingIsHonest
  <2> QED
    BY <1>1, <2>4, <2>5 DEF LedgerInv
<1>5. ASSUME Dropped(d, Lapsed(entries[d])),
             retained' = retained - Freed(d, Lapsed(entries[d]))
      PROVE  LedgerInv'
  <2> DEFINE e == entries[d]
  <2>1. ASSUME NEW b \in Device, NEW x \in Cid
        PROVE  <<b, x>> \in Kept' <=>
               <<b, x>> \in Kept \ ({d} \X (Answers(e) \cap Lapsed(e)))
    BY <1>1, <1>5 DEF Dropped, Kept, Answers, NoEntry
  <2>2. Kept' = Kept \ ({d} \X (Answers(e) \cap Lapsed(e)))
    BY <1>3, <2>1
  <2>3. KeptIsDone'
    BY <1>1, <1>2, <1>5 DEF Dropped, KeptIsDone, NoEntry
  <2>4. Account'
    <3> DEFINE cs == Lapsed(e)
    <3>1. /\ Kept' = Kept \ ({d} \X (Answers(entries[d]) \cap cs))
          /\ retained' = retained - Freed(d, cs)
      BY <1>5, <2>2, Zenon
    <3> HIDE DEF cs
    <3> QED
      BY <1>2, <3>1, DroppingIsHonest
  <2> QED
    BY <1>1, <2>3, <2>4 DEF LedgerInv
<1> QED
  BY <1>4, <1>5, BeginShape

\* finish: the command is done, the answers `gone` make room, and the answer
\* `k`, if it is kept, is the new one.
FinishedWith(d, c, k, gone) ==
    \A b \in Device, y \in Cid :
        /\ entries'[b][y].state = IF b = d /\ y = c THEN "done"
                                  ELSE entries[b][y].state
        /\ entries'[b][y].op = entries[b][y].op
        /\ entries'[b][y].old = entries[b][y].old
        /\ entries'[b][y].kept = IF b = d /\ y = c THEN k
                                 ELSE IF <<b, y>> \in gone THEN {}
                                 ELSE entries[b][y].kept

LEMMA FinishShape ==
    ASSUME NEW d \in Device, NEW c \in Cid, NEW o \in Op,
           LedgerInv, Finish(d, c, o), entries[d][c].state = "running"
    PROVE  /\ EntriesTyped' /\ <<d, c>> \notin Kept
           /\ \/ FinishedWith(d, c, {}, {}) /\ UNCHANGED retained
              \/ /\ FinishedWith(d, c, {o}, {})
                 /\ retained < MaxRetained /\ retained' = retained + 1
              \/ \E x \in Kept :
                    FinishedWith(d, c, {o}, {x}) /\ UNCHANGED retained
<1>0. entries \in [Device -> [Cid -> Entries]]
  BY DEF LedgerInv, EntriesTyped
<1>1. entries[d][c].kept = {} /\ <<d, c>> \notin Kept
  BY DEF LedgerInv, KeptIsDone, Kept
<1> DEFINE e1 == [entries[d][c] EXCEPT !.state = "done"]
           f1 == [entries EXCEPT ![d] = [entries[d] EXCEPT ![c] = e1]]
<1>2. /\ e1 \in Entries /\ e1.state = "done" /\ e1.kept = {}
      /\ e1.op = entries[d][c].op /\ e1.old = entries[d][c].old
  BY <1>0, <1>1, EntryDone
<1>3. /\ f1 \in [Device -> [Cid -> Entries]]
      /\ \A b \in Device, x \in Cid :
            f1[b][x] = IF b = d /\ x = c THEN e1 ELSE entries[b][x]
  <2> HIDE DEF e1
  <2> QED
    BY <1>0, <1>2, OneEntry
<1>4. \/ entries' = f1 /\ UNCHANGED retained
      \/ /\ retained < MaxRetained
         /\ entries' = [f1 EXCEPT ![d][c].kept = {o}]
         /\ retained' = retained + 1
      \/ /\ retained >= MaxRetained
         /\ \E x \in Kept :
              entries' = [f1 EXCEPT ![x[1]][x[2]].kept = {},
                                    ![d][c].kept = {o}]
         /\ UNCHANGED retained
  <2>1. f1 = [entries EXCEPT ![d][c].state = "done"]
    OBVIOUS
  <2> QED
    BY <2>1, Zenon DEF Finish, Kept
<1> HIDE DEF f1, e1
<1>5. CASE entries' = f1 /\ UNCHANGED retained
  <2>1. FinishedWith(d, c, {}, {})
    BY <1>2, <1>3, <1>5 DEF FinishedWith
  <2> QED
    BY <1>1, <1>3, <1>5, <2>1 DEF EntriesTyped
<1>6. CASE /\ retained < MaxRetained
           /\ entries' = [f1 EXCEPT ![d][c].kept = {o}]
           /\ retained' = retained + 1
  <2> DEFINE e2 == [f1[d][c] EXCEPT !.kept = {o}]
  <2>1. /\ e2 \in Entries /\ e2.state = "done" /\ e2.kept = {o}
        /\ e2.op = entries[d][c].op /\ e2.old = entries[d][c].old
    <3>1. /\ f1[d][c] \in Entries /\ f1[d][c].state = "done"
          /\ f1[d][c].op = entries[d][c].op
          /\ f1[d][c].old = entries[d][c].old
      BY <1>2, <1>3
    <3>2. {o} \in SUBSET Op
      OBVIOUS
    <3> QED
      BY <3>1, <3>2, EntryKept, Zenon
  <2>2. entries' = [f1 EXCEPT ![d] = [f1[d] EXCEPT ![c] = e2]]
    BY <1>6
  <2> HIDE DEF e2
  <2>3. /\ EntriesTyped'
        /\ \A b \in Device, x \in Cid :
              entries'[b][x] = IF b = d /\ x = c THEN e2 ELSE f1[b][x]
    BY <1>3, <2>1, <2>2, OneEntry DEF EntriesTyped
  <2>4. FinishedWith(d, c, {o}, {})
    <3> SUFFICES ASSUME NEW b \in Device, NEW x \in Cid
                 PROVE  /\ entries'[b][x].state =
                              IF b = d /\ x = c THEN "done"
                              ELSE entries[b][x].state
                        /\ entries'[b][x].op = entries[b][x].op
                        /\ entries'[b][x].old = entries[b][x].old
                        /\ entries'[b][x].kept =
                              IF b = d /\ x = c THEN {o}
                              ELSE entries[b][x].kept
      BY DEF FinishedWith
    <3>1. CASE b = d /\ x = c
      BY <2>1, <2>3, <3>1
    <3>2. CASE ~(b = d /\ x = c)
      BY <1>3, <2>3, <3>2
    <3> QED
      BY <3>1, <3>2
  <2> QED
    BY <1>1, <1>6, <2>3, <2>4
<1>7. ASSUME UNCHANGED retained, NEW x \in Kept,
             entries' = [f1 EXCEPT ![x[1]][x[2]].kept = {},
                                   ![d][c].kept = {o}]
      PROVE  EntriesTyped' /\ FinishedWith(d, c, {o}, {x})
  <2>0. PICK a \in Device, z \in Cid : x = <<a, z>> /\ <<a, z>> # <<d, c>>
    BY <1>1, <1>7 DEF Kept
  <2> DEFINE e2 == [f1[a][z] EXCEPT !.kept = {}]
             f2 == [f1 EXCEPT ![a] = [f1[a] EXCEPT ![z] = e2]]
             e3 == [f2[d][c] EXCEPT !.kept = {o}]
  <2>1. entries' = [f2 EXCEPT ![d] = [f2[d] EXCEPT ![c] = e3]]
    BY <1>7, <2>0
  <2>2. /\ e2 \in Entries /\ e2.kept = {} /\ e2.state = f1[a][z].state
        /\ e2.op = f1[a][z].op /\ e2.old = f1[a][z].old
    <3>1. f1[a][z] \in Entries /\ {} \in SUBSET Op
      BY <1>3
    <3> QED
      BY <3>1, EntryKept, Zenon
  <2> HIDE DEF e2
  <2>3. /\ f2 \in [Device -> [Cid -> Entries]]
        /\ \A b \in Device, y \in Cid :
              f2[b][y] = IF b = a /\ y = z THEN e2 ELSE f1[b][y]
    BY <1>3, <2>2, OneEntry
  <2> HIDE DEF f2
  <2>4. /\ e3 \in Entries /\ e3.kept = {o} /\ e3.state = "done"
        /\ e3.op = entries[d][c].op /\ e3.old = entries[d][c].old
    <3>1. /\ f2[d][c] \in Entries /\ f2[d][c].state = "done"
          /\ f2[d][c].op = entries[d][c].op
          /\ f2[d][c].old = entries[d][c].old
      BY <1>2, <1>3, <2>0, <2>3
    <3>2. {o} \in SUBSET Op
      OBVIOUS
    <3> QED
      BY <3>1, <3>2, EntryKept, Zenon
  <2> HIDE DEF e3
  <2>5. /\ EntriesTyped'
        /\ \A b \in Device, y \in Cid :
              entries'[b][y] = IF b = d /\ y = c THEN e3 ELSE f2[b][y]
    BY <2>1, <2>3, <2>4, OneEntry DEF EntriesTyped
  <2>6. ASSUME NEW b \in Device, NEW y \in Cid
        PROVE  /\ entries'[b][y].state = IF b = d /\ y = c THEN "done"
                                         ELSE entries[b][y].state
               /\ entries'[b][y].op = entries[b][y].op
               /\ entries'[b][y].old = entries[b][y].old
               /\ entries'[b][y].kept = IF b = d /\ y = c THEN {o}
                                        ELSE IF <<b, y>> \in {x} THEN {}
                                        ELSE entries[b][y].kept
    <3>1. CASE b = d /\ y = c
      BY <2>4, <2>5, <3>1
    <3>2. CASE b = a /\ y = z
      <4>1. entries'[b][y] = e2 /\ f1[b][y] = entries[b][y]
        BY <1>3, <2>0, <2>3, <2>5, <3>2
      <4> QED
        BY <2>0, <2>2, <3>2, <4>1
    <3>3. CASE ~(b = d /\ y = c) /\ ~(b = a /\ y = z)
      <4>1. entries'[b][y] = entries[b][y] /\ <<b, y>> # x
        BY <1>3, <2>0, <2>3, <2>5, <3>3
      <4> QED
        BY <3>3, <4>1
    <3> QED
      BY <3>1, <3>2, <3>3
  <2> QED
    BY <2>5, <2>6 DEF FinishedWith
<1> QED
  BY <1>1, <1>4, <1>5, <1>6, <1>7

\* finish: the answer that is added is the only one, or it takes the place of
\* another.
LEMMA FinishIsHonest ==
    ASSUME NEW d \in Device, NEW c \in Cid, NEW o \in Op,
           LedgerInv, Finish(d, c, o)
    PROVE  LedgerInv'
<1>0. CASE UNCHANGED commands
  BY <1>0 DEF commands, LedgerInv, EntriesTyped, KeptIsDone, Account, Kept
<1>1. CASE entries[d][c].state = "running"
  <2>0. /\ IsFiniteSet(Kept) /\ Cardinality(Kept) \in Nat
        /\ retained = Cardinality(Kept) /\ retained <= MaxRetained
    BY KeptFinite DEF LedgerInv, Account
  <2>1. EntriesTyped' /\ <<d, c>> \notin Kept
    BY <1>1, FinishShape
  <2>2. Kept \subseteq Device \X Cid /\ Kept' \subseteq Device \X Cid
    BY DEF Kept
  <2>3. ASSUME NEW k, NEW gone, FinishedWith(d, c, k, gone)
        PROVE  KeptIsDone'
    <3> SUFFICES ASSUME NEW b \in Device, NEW y \in Cid,
                        entries'[b][y].kept # {}
                 PROVE  entries'[b][y].state = "done"
      BY DEF KeptIsDone
    <3>1. CASE b = d /\ y = c
      BY <2>3, <3>1 DEF FinishedWith
    <3>2. CASE ~(b = d /\ y = c)
      <4>1. /\ entries'[b][y].state = entries[b][y].state
            /\ entries[b][y].kept # {}
        BY <2>3, <3>2 DEF FinishedWith
      <4> QED
        BY <4>1 DEF LedgerInv, KeptIsDone
    <3> QED
      BY <3>1, <3>2
  <2>4. CASE FinishedWith(d, c, {}, {}) /\ UNCHANGED retained
    <3>1. \A b \in Device, y \in Cid :
              <<b, y>> \in Kept' <=> <<b, y>> \in Kept
      BY <2>1, <2>4 DEF FinishedWith, Kept
    <3>2. Kept' = Kept
      BY <2>2, <3>1
    <3> QED
      BY <2>0, <2>1, <2>3, <2>4, <3>2 DEF Account, LedgerInv
  <2>5. CASE /\ FinishedWith(d, c, {o}, {})
             /\ retained < MaxRetained /\ retained' = retained + 1
    <3>1. \A b \in Device, y \in Cid :
              <<b, y>> \in Kept' <=> <<b, y>> \in Kept \cup {<<d, c>>}
      BY <2>1, <2>5 DEF FinishedWith, Kept
    <3>2. Kept' = Kept \cup {<<d, c>>}
      BY <2>2, <3>1
    <3>3. Cardinality(Kept') = Cardinality(Kept) + 1
      BY <2>0, <2>1, <3>2, FS_AddElement
    <3> QED
      BY <2>0, <2>1, <2>3, <2>5, <3>3, LedgerAssumption
      DEF Account, LedgerInv
  <2>6. ASSUME NEW x \in Kept, FinishedWith(d, c, {o}, {x}),
               UNCHANGED retained
        PROVE  LedgerInv'
    <3>1. \A b \in Device, y \in Cid :
              <<b, y>> \in Kept' <=>
              <<b, y>> \in (Kept \ {x}) \cup {<<d, c>>}
      BY <2>1, <2>6 DEF FinishedWith, Kept
    <3>2. Kept' = (Kept \ {x}) \cup {<<d, c>>}
      BY <2>2, <3>1
    <3>3. /\ IsFiniteSet(Kept \ {x})
          /\ Cardinality(Kept \ {x}) = Cardinality(Kept) - 1
      BY <2>0, <2>6, FS_RemoveElement
    <3>4. <<d, c>> \notin Kept \ {x}
      BY <2>1
    <3>5. Cardinality(Kept') = Cardinality(Kept \ {x}) + 1
      BY <3>2, <3>3, <3>4, FS_AddElement
    <3> QED
      BY <2>0, <2>1, <2>3, <2>6, <3>3, <3>5 DEF Account, LedgerInv
  <2>7. \/ FinishedWith(d, c, {}, {}) /\ UNCHANGED retained
        \/ /\ FinishedWith(d, c, {o}, {})
           /\ retained < MaxRetained /\ retained' = retained + 1
        \/ \E x \in Kept :
              FinishedWith(d, c, {o}, {x}) /\ UNCHANGED retained
    BY <1>1, FinishShape
  <2> QED
    BY <2>4, <2>5, <2>6, <2>7
<1> QED
  BY <1>0, <1>1 DEF Finish

\* forget_device: what the device's answers took comes back.
LEMMA ForgetIsHonest ==
    ASSUME NEW d \in Device, LedgerInv, Forget(d)
    PROVE  LedgerInv'
<1> USE DEF LedgerInv
<1>1. \A b \in Device, x \in Cid :
          entries'[b][x] = IF b = d THEN NoEntry ELSE entries[b][x]
  BY DEF Forget, EntriesTyped
<1>2. EntriesTyped'
  BY DEF Forget, EntriesTyped, Entries, NoEntry
<1>3. Kept' = Kept \ ({d} \X (Answers(entries[d]) \cap Cid))
  <2>1. ASSUME NEW b \in Device, NEW x \in Cid
        PROVE  <<b, x>> \in Kept' <=>
               <<b, x>> \in Kept \ ({d} \X (Answers(entries[d]) \cap Cid))
    BY <1>1 DEF Kept, Answers, NoEntry
  <2> QED
    BY <2>1 DEF Kept
<1>4. KeptIsDone'
  BY <1>1 DEF KeptIsDone, NoEntry
<1>5. Account'
  BY <1>3, DroppingIsHonest DEF Forget
<1> QED
  BY <1>2, <1>4, <1>5

\* The ttl of a command passes, and nothing else.
LEMMA AgeShape ==
    ASSUME NEW d \in Device, NEW c \in Cid, LedgerInv, Age(d, c)
    PROVE  /\ EntriesTyped' /\ entries'[d][c].old = TRUE
           /\ \A b \in Device, x \in Cid :
                 /\ entries'[b][x].state = entries[b][x].state
                 /\ entries'[b][x].op = entries[b][x].op
                 /\ entries'[b][x].kept = entries[b][x].kept
                 /\ ~(b = d /\ x = c) => entries'[b][x] = entries[b][x]
<1> DEFINE older == [entries[d][c] EXCEPT !.old = TRUE]
<1>1. entries' = [entries EXCEPT ![d] = [entries[d] EXCEPT ![c] = older]]
  BY DEF Age
<1>2. entries \in [Device -> [Cid -> Entries]]
  BY DEF LedgerInv, EntriesTyped
<1>3. /\ older \in Entries /\ older.old = TRUE
      /\ older.kept = entries[d][c].kept /\ older.op = entries[d][c].op
      /\ older.state = entries[d][c].state
  <2>1. entries[d][c] \in Entries
    BY <1>2
  <2> QED
    BY <2>1, EntryOld, Zenon
<1> HIDE DEF older
<1>4. /\ EntriesTyped'
      /\ \A b \in Device, x \in Cid :
            entries'[b][x] = IF b = d /\ x = c THEN older ELSE entries[b][x]
  BY <1>1, <1>2, <1>3, OneEntry DEF EntriesTyped
<1>5. ASSUME NEW b \in Device, NEW x \in Cid
      PROVE  /\ entries'[b][x].state = entries[b][x].state
             /\ entries'[b][x].op = entries[b][x].op
             /\ entries'[b][x].kept = entries[b][x].kept
             /\ ~(b = d /\ x = c) => entries'[b][x] = entries[b][x]
  <2>1. CASE b = d /\ x = c
    BY <1>3, <1>4, <2>1
  <2>2. CASE ~(b = d /\ x = c)
    BY <1>4, <2>2
  <2> QED
    BY <2>1, <2>2
<1>6. entries'[d][c].old = TRUE
  BY <1>3, <1>4
<1> QED
  BY <1>4, <1>5, <1>6

\* The passing of time keeps every answer.
LEMMA AgeIsHonest ==
    ASSUME NEW d \in Device, NEW c \in Cid, LedgerInv, Age(d, c)
    PROVE  LedgerInv'
<1>1. /\ EntriesTyped' /\ entries'[d][c].old = TRUE
      /\ \A b \in Device, x \in Cid :
            /\ entries'[b][x].state = entries[b][x].state
            /\ entries'[b][x].op = entries[b][x].op
            /\ entries'[b][x].kept = entries[b][x].kept
            /\ ~(b = d /\ x = c) => entries'[b][x] = entries[b][x]
  BY AgeShape
<1>2. Kept' = Kept
  BY <1>1 DEF Kept
<1> QED
  BY <1>1, <1>2 DEF Age, LedgerInv, KeptIsDone, Account

\* A ledger with nothing in it.
LEMMA BlankIsHonest ==
    ASSUME entries = [d \in Device |-> [c \in Cid |-> NoEntry]], retained = 0
    PROVE  LedgerInv
<1>1. Kept = {}
  BY DEF Kept, NoEntry
<1>2. Cardinality(Kept) = 0
  BY <1>1, FS_EmptySet
<1> QED
  BY <1>2, LedgerAssumption
  DEF LedgerInv, EntriesTyped, KeptIsDone, Account, Entries, NoEntry

LEMMA BlankAgainIsHonest ==
    ASSUME entries' = [d \in Device |-> [c \in Cid |-> NoEntry]],
           retained' = 0
    PROVE  LedgerInv'
<1>1. Kept' = {}
  BY DEF Kept, NoEntry
<1>2. Cardinality(Kept') = 0
  BY <1>1, FS_EmptySet
<1> QED
  BY <1>2, LedgerAssumption
  DEF LedgerInv, EntriesTyped, KeptIsDone, Account, Entries, NoEntry

LEMMA UnchangedIsHonest ==
    ASSUME LedgerInv, UNCHANGED commands
    PROVE  LedgerInv'
  BY DEF LedgerInv, EntriesTyped, KeptIsDone, Account, Kept, commands

-----------------------------------------------------------------------------
(* The registry by itself. *)

\* A copy that was loaded from the file as it is says what the file says.
SeenIsFile == seen => mem = file

RegistryInv == RegistryTypeOK /\ SeenIsFile

LEMMA NowIsFile ==
    ASSUME RegistryInv
    PROVE  Now = file
  BY DEF RegistryInv, SeenIsFile, Now, RegistryTypeOK

LEMMA LookKeeps ==
    ASSUME RegistryInv, Look
    PROVE  RegistryInv' /\ file' = file
<1>1. mem' = file /\ file' = file /\ seen'
  BY NowIsFile DEF Look
<1> QED
  BY <1>1 DEF RegistryInv, RegistryTypeOK, SeenIsFile, Look

LEMMA ReloadKeeps ==
    ASSUME RegistryInv, Reload
    PROVE  RegistryInv' /\ file' = file
  BY DEF RegistryInv, RegistryTypeOK, SeenIsFile, Reload, Fresh

LEMMA ChangeKeeps ==
    ASSUME RegistryInv, NEW d, NEW st \in Statuses, Change(d, st)
    PROVE  /\ RegistryInv'
           /\ \A b \in Device : file'[b] = IF b = d THEN st ELSE file[b]
  BY DEF RegistryInv, RegistryTypeOK, SeenIsFile, Change, Fresh

LEMMA RevokeElsewhereKeeps ==
    ASSUME RegistryInv, NEW d \in Device, RevokeElsewhere(d)
    PROVE  /\ RegistryInv'
           /\ \A b \in Device :
                 file'[b] = IF b = d THEN "revoked" ELSE file[b]
  BY DEF RegistryInv, RegistryTypeOK, SeenIsFile, RevokeElsewhere, Statuses

LEMMA UnchangedRegistryKeeps ==
    ASSUME RegistryInv, UNCHANGED registry
    PROVE  RegistryInv' /\ file' = file
  BY DEF RegistryInv, RegistryTypeOK, SeenIsFile, registry

-----------------------------------------------------------------------------
(* The threads by themselves. *)

Jobs == [at : Steps, dev : Device \cup {NoDevice}, next : {"idle", "offer"}]

Asking == {"asked", "valid", "running", "answering"}

SessionsTyped ==
    /\ ask \in [Conn -> Requests \cup {NoAsk}]
    /\ said \in [Conn -> SUBSET Op]
    /\ line \subseteq Conn
    /\ ended \subseteq Conn
    /\ asks \in Nat

\* A thread that is at work on a device knows which, and a session that is at
\* work on a request has one.
Placed ==
    /\ \A t \in Thread :
          job[t].at \notin {"idle", "cancel", "offer"} => Dev(t) \in Device
    /\ \A s \in Conn : job[s].at \in Asking => ask[s] \in Requests

JobInv == job \in [Thread -> Jobs] /\ SessionsTyped /\ Placed

\* A job of which a part changes.
LEMMA JobAt ==
    ASSUME NEW j \in Jobs, NEW a \in Steps
    PROVE  /\ [j EXCEPT !.at = a] \in Jobs
           /\ [j EXCEPT !.at = a].at = a
           /\ [j EXCEPT !.at = a].dev = j.dev
           /\ [j EXCEPT !.at = a].next = j.next
<1> DEFINE g == [j EXCEPT !.at = a]
<1>1. g \in Jobs /\ g.at = a /\ g.dev = j.dev /\ g.next = j.next
  BY DEF Jobs
<1> QED
  BY <1>1

\* One thread moves on.
Moves(t, a, d) ==
    /\ job' \in [Thread -> Jobs]
    /\ job'[t].at = a /\ job'[t].dev = d
    /\ \A u \in Thread \ {t} : job'[u] = job[u]

LEMMA GoesMoves ==
    ASSUME JobInv, NEW t \in Thread, NEW a \in Steps, Goes(t, a)
    PROVE  Moves(t, a, Dev(t))
<1> DEFINE j == [job[t] EXCEPT !.at = a]
<1>1. job[t] \in Jobs
  BY DEF JobInv
<1>2. j \in Jobs /\ j.at = a /\ j.dev = Dev(t)
  BY <1>1, JobAt, Zenon DEF Dev
<1>3. job' = [job EXCEPT ![t] = j]
  BY DEF Goes
<1> HIDE DEF j
<1> QED
  BY <1>2, <1>3 DEF Moves, JobInv

LEMMA GoesForMoves ==
    ASSUME JobInv, NEW t \in Thread, NEW a \in Steps,
           NEW d \in Device \cup {NoDevice},
           job' = [job EXCEPT ![t].at = a, ![t].dev = d]
    PROVE  Moves(t, a, d)
<1> DEFINE j == [job[t] EXCEPT !.at = a, !.dev = d]
<1>1. job[t] \in Jobs
  BY DEF JobInv
<1>2. j \in Jobs /\ j.at = a /\ j.dev = d
  BY <1>1 DEF Jobs
<1>3. job' = [job EXCEPT ![t] = j]
  BY <1>1 DEF JobInv, Jobs
<1> HIDE DEF j
<1> QED
  BY <1>2, <1>3 DEF Moves, JobInv

LEMMA IdleIsJob == Idle \in Jobs /\ Idle.at = "idle" /\ Idle.dev = NoDevice
  BY DEF Idle, Jobs, Steps, PairingSteps, CancelSteps, LiveSteps

\* One thread moves on, and the sessions of the others stay as they are.
StepsTo(t, a, d) ==
    /\ Moves(t, a, d)
    /\ SessionsTyped'
    /\ \A s \in Conn \ {t} :
          /\ ask'[s] = ask[s] /\ said'[s] = said[s]
          /\ s \in ended' <=> s \in ended

LEMMA StillSteps ==
    ASSUME JobInv, NEW t \in Thread, NEW a, NEW d, Moves(t, a, d),
           UNCHANGED sessions
    PROVE  StepsTo(t, a, d) /\ ask' = ask /\ said' = said /\ ended' = ended
  BY DEF StepsTo, sessions, JobInv, SessionsTyped

LEMMA LeavesSteps ==
    ASSUME JobInv, NEW t \in Thread, Leaves(t)
    PROVE  StepsTo(t, "idle", NoDevice)
<1>1. Moves(t, "idle", NoDevice)
  BY IdleIsJob DEF Leaves, Moves, JobInv
<1>2. SessionsTyped'
  <2>1. CASE t \in Conn
    BY <2>1 DEF Leaves, JobInv, SessionsTyped
  <2>2. CASE t \notin Conn
    BY <2>2 DEF Leaves, JobInv, SessionsTyped
  <2> QED
    BY <2>1, <2>2
<1>3. \A s \in Conn \ {t} :
          /\ ask'[s] = ask[s] /\ said'[s] = said[s]
          /\ s \in ended' <=> s \in ended
  <2>1. CASE t \in Conn
    BY <2>1 DEF Leaves, JobInv, SessionsTyped
  <2>2. CASE t \notin Conn
    BY <2>2 DEF Leaves
  <2> QED
    BY <2>1, <2>2
<1> QED
  BY <1>1, <1>2, <1>3 DEF StepsTo

LEMMA AfterCancelSteps ==
    ASSUME JobInv, NEW t \in Thread, AfterCancel(t)
    PROVE  \E a \in {"idle", "offer"} : StepsTo(t, a, NoDevice)
<1>1. CASE job[t].next = "idle"
  BY <1>1, LeavesSteps DEF AfterCancel
<1>2. CASE job[t].next # "idle"
  <2> DEFINE j == [Idle EXCEPT !.at = job[t].next]
  <2>1. job[t].next = "offer"
    BY <1>2 DEF JobInv, Jobs
  <2>2. j \in Jobs /\ j.at = "offer" /\ j.dev = NoDevice
    BY <2>1 DEF Idle, Jobs, Steps, PairingSteps, CancelSteps
  <2>3. job' = [job EXCEPT ![t] = j] /\ UNCHANGED sessions
    BY <1>2 DEF AfterCancel
  <2> HIDE DEF j
  <2>4. Moves(t, "offer", NoDevice)
    BY <2>2, <2>3 DEF Moves, JobInv
  <2> QED
    BY <2>3, <2>4, StillSteps
<1> QED
  BY <1>1, <1>2

LEMMA StepsKeeps ==
    ASSUME JobInv, NEW t \in Thread, NEW a \in Steps, NEW d,
           StepsTo(t, a, d),
           a \notin {"idle", "cancel", "offer"} => d \in Device,
           t \in Conn /\ a \in Asking => ask'[t] \in Requests
    PROVE  JobInv'
  BY DEF JobInv, StepsTo, Moves, Placed, Dev, Thread

-----------------------------------------------------------------------------
(* What the threads know of their devices. *)

Unsettled == {"absent", "pending"}
Off == {"revoked", "gone"}

\* No device becomes unknown again, and none comes back.
FileMoves ==
    \A d \in Device :
        /\ file[d] \notin Unsettled => file'[d] \notin Unsettled
        /\ file[d] \in Off => file'[d] \in Off

\* A connection past the handshake is of a device that was paired, and what
\* the person revokes is off.
Standing ==
    /\ \A s \in Conn :
          job[s].at \in {"touching", "marking", "admitted"} \cup LiveSteps
              => file[Dev(s)] \notin Unsettled
    /\ job[Person].at \in {"ending", "forgetting"} => file[Dev(Person)] \in Off

BaseInv ==
    RegistryInv /\ PairingTypeOK /\ LedgerInv /\ JobInv /\ Standing

\* Sessions past the check of the registry.
Busy == {"valid", "running", "answering"}

\* Nothing happens to the work of the sessions.
SameWork ==
    \A s \in Conn :
        job[s].at \in Busy \/ job'[s].at \in Busy =>
            /\ job'[s] = job[s] /\ ask'[s] = ask[s] /\ said'[s] = said[s]
            /\ s \in ended => s \in ended'

LEMMA StandingKeeps ==
    ASSUME JobInv, Standing, FileMoves, NEW t \in Thread, NEW a, NEW d,
           Moves(t, a, d),
           t \in Conn /\ a \in {"touching", "marking", "admitted"} \cup LiveSteps
               => file'[d] \notin Unsettled,
           t = Person /\ a \in {"ending", "forgetting"} => file'[d] \in Off
    PROVE  Standing'
<1>1. \A s \in Conn \ {t} :
          job'[s].at \in {"touching", "marking", "admitted"} \cup LiveSteps
              => file'[job'[s].dev] \notin Unsettled
  <2> SUFFICES ASSUME NEW s \in Conn \ {t},
                      job'[s].at \in {"touching", "marking", "admitted"}
                                        \cup LiveSteps
               PROVE  file'[job'[s].dev] \notin Unsettled
    OBVIOUS
  <2>1. job'[s] = job[s]
    BY DEF Moves, Thread
  <2>2. job[s].dev \in Device
    BY <2>1 DEF JobInv, Placed, Dev, Thread, LiveSteps
  <2> QED
    BY <2>1, <2>2 DEF Standing, FileMoves, Dev
<1>2. Person # t /\ job'[Person].at \in {"ending", "forgetting"}
          => file'[job'[Person].dev] \in Off
  <2> SUFFICES ASSUME Person # t,
                      job'[Person].at \in {"ending", "forgetting"}
               PROVE  file'[job'[Person].dev] \in Off
    OBVIOUS
  <2>1. job'[Person] = job[Person]
    BY DEF Moves, Thread
  <2>2. job[Person].dev \in Device
    BY <2>1 DEF JobInv, Placed, Dev, Thread
  <2> QED
    BY <2>1, <2>2 DEF Standing, FileMoves, Dev
<1> QED
  BY <1>1, <1>2 DEF Standing, Dev, Moves

\* A step of a thread that has nothing to do with the work of a session.
LEMMA QuietStep ==
    ASSUME JobInv, Standing, FileMoves, NEW t \in Thread,
           NEW a \in Steps \ Busy, NEW d, StepsTo(t, a, d),
           t \in Conn => job[t].at \notin Busy,
           a \notin {"idle", "cancel", "offer"} => d \in Device,
           t \in Conn /\ a = "asked" => ask'[t] \in Requests,
           t \in Conn /\ a \in {"touching", "marking", "admitted"} \cup LiveSteps
               => file'[d] \notin Unsettled,
           t = Person /\ a \in {"ending", "forgetting"} => file'[d] \in Off
    PROVE  JobInv' /\ Standing' /\ SameWork
<1>1. JobInv'
  BY StepsKeeps DEF Asking, Busy
<1>2. Standing'
  BY StandingKeeps DEF StepsTo
<1>3. SameWork
  BY DEF SameWork, StepsTo, Moves, Thread
<1> QED
  BY <1>1, <1>2, <1>3
-----------------------------------------------------------------------------
(* Steps that leave the ledger and the work of the sessions alone. *)

\* The person's thread is not about to forget a device on account of the step.
PersonStill == job'[Person].at = "forgetting" => job'[Person] = job[Person]

Quiet ==
    BaseInv' /\ FileMoves /\ SameWork /\ PersonStill /\ UNCHANGED commands

\* Where the steps of this part lead.
Aside == Steps \ (Busy \cup {"forgetting"})

LEMMA UnchangedPairingKeeps ==
    ASSUME PairingTypeOK, UNCHANGED pairing
    PROVE  PairingTypeOK'
  BY DEF PairingTypeOK, pairing

\* What a quiet step of a thread amounts to.
LEMMA ThreadIsQuiet ==
    ASSUME BaseInv, RegistryInv', PairingTypeOK', FileMoves,
           UNCHANGED commands, NEW t \in Thread,
           NEW a \in Aside, NEW d, StepsTo(t, a, d),
           t \in Conn => job[t].at \notin Busy,
           a \notin {"idle", "cancel", "offer"} => d \in Device,
           t \in Conn /\ a = "asked" => ask'[t] \in Requests,
           t \in Conn /\ a \in {"touching", "marking", "admitted"} \cup LiveSteps
               => file'[d] \notin Unsettled,
           t = Person /\ a \in {"ending", "forgetting"} => file'[d] \in Off
    PROVE  Quiet
<1>1. JobInv' /\ Standing' /\ SameWork
  BY QuietStep DEF BaseInv, Aside
<1>3. PersonStill
  BY DEF PersonStill, Aside, StepsTo, Moves, Thread
<1>2. LedgerInv'
  BY UnchangedIsHonest DEF BaseInv
<1> QED
  BY <1>1, <1>2, <1>3 DEF Quiet, BaseInv

\* A thread that leaves is quiet, unless it leaves its work behind.
LEMMA LeavingIsQuiet ==
    ASSUME BaseInv, RegistryInv', PairingTypeOK', FileMoves,
           UNCHANGED commands, NEW t \in Thread, job[t].at \notin Busy,
           Leaves(t)
    PROVE  Quiet
<1>1. StepsTo(t, "idle", NoDevice)
  BY LeavesSteps DEF BaseInv
<1>2. "idle" \in Aside
  BY DEF Aside, Steps, Busy
<1>3. "idle" \notin {"touching", "marking", "admitted"} \cup LiveSteps
  BY DEF LiveSteps
<1> QED
  BY <1>1, <1>2, <1>3, ThreadIsQuiet

LEMMA AfterCancelIsQuiet ==
    ASSUME BaseInv, RegistryInv', PairingTypeOK', FileMoves,
           UNCHANGED commands, NEW t \in Thread, job[t].at \notin Busy,
           AfterCancel(t)
    PROVE  Quiet
<1>1. PICK a \in {"idle", "offer"} : StepsTo(t, a, NoDevice)
  BY AfterCancelSteps DEF BaseInv
<1>2. a \in Aside
  BY <1>1 DEF Aside, Steps, Busy, PairingSteps
<1>3. a \notin {"touching", "marking", "admitted"} \cup LiveSteps
  BY <1>1 DEF LiveSteps
<1> QED
  BY <1>1, <1>2, <1>3, ThreadIsQuiet

\* A thread that goes on with the same device.
LEMMA GoingIsQuiet ==
    ASSUME BaseInv, RegistryInv', PairingTypeOK', FileMoves,
           UNCHANGED commands, UNCHANGED sessions, NEW t \in Thread,
           job[t].at \notin Busy, NEW a \in Aside, Goes(t, a),
           job[t].at \notin {"idle", "cancel", "offer"} \/ a = "cancel",
           a # "asked",
           t \in Conn /\ a \in {"touching", "marking", "admitted"} \cup LiveSteps
               => file'[Dev(t)] \notin Unsettled,
           t = Person /\ a \in {"ending", "forgetting"} => file'[Dev(t)] \in Off
    PROVE  Quiet
<1>1. StepsTo(t, a, Dev(t))
  BY GoesMoves, StillSteps DEF BaseInv, Aside
<1>2. a \notin {"idle", "cancel", "offer"} => Dev(t) \in Device
  BY DEF BaseInv, JobInv, Placed
<1> QED
  BY <1>1, <1>2, ThreadIsQuiet

LEMMA SameFileMoves == file' = file => FileMoves
  BY DEF FileMoves

LEMMA CancelDropIsQuiet ==
    ASSUME BaseInv, NEW t \in Thread, CancelDrop(t)
    PROVE  Quiet
<1>1. RegistryInv' /\ FileMoves /\ UNCHANGED commands
  BY UnchangedRegistryKeeps, SameFileMoves DEF CancelDrop, BaseInv
<1>2. PairingTypeOK'
  BY DEF CancelDrop, CloseWindow, NoWindow, BaseInv, PairingTypeOK
<1>3. job[t].at \notin Busy
  BY DEF CancelDrop, At, Busy
<1>4. CASE window.dev = NoDevice
  BY <1>1, <1>2, <1>3, <1>4, AfterCancelIsQuiet DEF CancelDrop
<1>5. CASE window.dev # NoDevice
  <2>1. /\ job' = [job EXCEPT ![t].at = "look", ![t].dev = window.dev]
        /\ UNCHANGED sessions
    BY <1>5 DEF CancelDrop
  <2>2. window.dev \in Device
    BY <1>5 DEF BaseInv, PairingTypeOK
  <2>3. "look" \in Aside
    BY DEF Aside, Steps, PairingSteps, CancelSteps, Busy
  <2>4. StepsTo(t, "look", window.dev)
    BY <2>1, <2>2, <2>3, GoesForMoves, StillSteps DEF BaseInv, Aside
  <2>5. "look" \notin {"touching", "marking", "admitted"} \cup LiveSteps
    BY DEF LiveSteps
  <2> QED
    BY <1>1, <1>2, <1>3, <2>2, <2>3, <2>4, <2>5, ThreadIsQuiet
<1> QED
  BY <1>4, <1>5

LEMMA CancelLookIsQuiet ==
    ASSUME BaseInv, NEW t \in Thread, CancelLook(t)
    PROVE  Quiet
<1>1. RegistryInv' /\ FileMoves /\ UNCHANGED commands
  BY LookKeeps, SameFileMoves DEF CancelLook, BaseInv
<1>2. PairingTypeOK'
  BY UnchangedPairingKeeps DEF CancelLook, BaseInv
<1>3. job[t].at = "look" /\ job[t].at \notin Busy
  BY DEF CancelLook, At, Busy
<1>4. CASE Goes(t, "remove") /\ UNCHANGED sessions
  <2>1. "remove" \in Aside
    BY DEF Aside, Steps, PairingSteps, CancelSteps, Busy
  <2>2. "remove" \notin {"touching", "marking", "admitted"} \cup LiveSteps
    BY DEF LiveSteps
  <2> QED
    BY <1>1, <1>2, <1>3, <1>4, <2>1, <2>2, GoingIsQuiet
<1>5. CASE AfterCancel(t)
  BY <1>1, <1>2, <1>3, <1>5, AfterCancelIsQuiet
<1> QED
  BY <1>4, <1>5 DEF CancelLook

LEMMA CancelRemoveIsQuiet ==
    ASSUME BaseInv, NEW t \in Thread, CancelRemove(t)
    PROVE  Quiet
<1>1. PairingTypeOK' /\ UNCHANGED commands
  BY UnchangedPairingKeeps DEF CancelRemove, BaseInv
<1>2. job[t].at \notin Busy
  BY DEF CancelRemove, At, Busy
<1>3. CASE Change(Dev(t), "gone") /\ AfterCancel(t)
  <2>1. "gone" \in Statuses
    BY DEF Statuses
  <2>2. RegistryInv' /\ FileMoves
    BY <1>3, <2>1, ChangeKeeps DEF BaseInv, FileMoves, Unsettled, Off
  <2> QED
    BY <1>1, <1>2, <1>3, <2>2, AfterCancelIsQuiet
<1>4. CASE Reload /\ Leaves(t)
  <2>1. RegistryInv' /\ FileMoves
    BY <1>4, ReloadKeeps, SameFileMoves DEF BaseInv
  <2> QED
    BY <1>1, <1>2, <1>4, <2>1, LeavingIsQuiet
<1> QED
  BY <1>3, <1>4 DEF CancelRemove

LEMMA SweepIsQuiet ==
    ASSUME BaseInv, Sweep
    PROVE  Quiet
<1>1. RegistryInv' /\ FileMoves /\ UNCHANGED commands /\ PairingTypeOK'
  BY UnchangedRegistryKeeps, SameFileMoves, UnchangedPairingKeeps
  DEF Sweep, BaseInv
<1>2. "cancel" \in Aside
  BY DEF Aside, Steps, PairingSteps, CancelSteps, Busy
<1>3. "cancel" \notin {"touching", "marking", "admitted"} \cup LiveSteps
  BY DEF LiveSteps
<1>4. Sweeper \in Thread /\ job[Sweeper].at \notin Busy
  BY DEF Thread, Sweep, At, Busy
<1>5. Goes(Sweeper, "cancel") /\ UNCHANGED sessions
  BY DEF Sweep
<1> QED
  BY <1>1, <1>2, <1>3, <1>4, <1>5, GoingIsQuiet

LEMMA AskPairingIsQuiet ==
    ASSUME BaseInv, AskPairing
    PROVE  Quiet
<1>1. RegistryInv' /\ FileMoves /\ UNCHANGED commands /\ PairingTypeOK'
  BY UnchangedRegistryKeeps, SameFileMoves, UnchangedPairingKeeps
  DEF AskPairing, BaseInv
<1>2. "cancel" \in Aside
  BY DEF Aside, Steps, PairingSteps, CancelSteps, Busy
<1>3. "cancel" \notin {"touching", "marking", "admitted"} \cup LiveSteps
  BY DEF LiveSteps
<1>4. Person \in Thread /\ job[Person].at \notin Busy /\ Person \notin Conn
  BY LinkAssumption DEF Thread, AskPairing, At, Busy
<1>5. PICK next \in {"idle", "offer"} :
          job' = [job EXCEPT ![Person] =
                    [at |-> "cancel", dev |-> NoDevice, next |-> next]]
  BY DEF AskPairing
<1>6. [at |-> "cancel", dev |-> NoDevice, next |-> next] \in Jobs
  BY <1>2 DEF Jobs, Aside
<1>7. Moves(Person, "cancel", NoDevice)
  BY <1>4, <1>5, <1>6 DEF Moves, BaseInv, JobInv
<1>8. StepsTo(Person, "cancel", NoDevice)
  BY <1>4, <1>7, StillSteps DEF AskPairing, BaseInv
<1> QED
  BY <1>1, <1>2, <1>3, <1>4, <1>8, ThreadIsQuiet

LEMMA OfferIsQuiet ==
    ASSUME BaseInv, NEW d \in Device, Offer(d)
    PROVE  Quiet
<1>1. "pending" \in Statuses
  BY DEF Statuses
<1>2. RegistryInv' /\ FileMoves
  BY <1>1, ChangeKeeps DEF Offer, BaseInv, FileMoves, Fresh, Unsettled, Off
<1>3. PairingTypeOK' /\ UNCHANGED commands
  BY DEF Offer, ShowWindow, BaseInv, PairingTypeOK
<1>4. Person \in Thread /\ job[Person].at \notin Busy /\ Leaves(Person)
  BY DEF Thread, Offer, At, Busy
<1> QED
  BY <1>2, <1>3, <1>4, LeavingIsQuiet

LEMMA RevokeIsQuiet ==
    ASSUME BaseInv, NEW d \in Device, Revoke(d)
    PROVE  Quiet
<1>1. "revoked" \in Statuses
  BY DEF Statuses
<1>2. RegistryInv' /\ FileMoves /\ file'[d] \in Off
  BY <1>1, ChangeKeeps DEF Revoke, BaseInv, FileMoves, Unsettled, Off
<1>3. PairingTypeOK' /\ UNCHANGED commands
  BY UnchangedPairingKeeps DEF Revoke, BaseInv
<1>4. Person \in Thread /\ Person \notin Conn
  BY LinkAssumption DEF Thread
<1>5. "ending" \in Aside
  BY DEF Aside, Steps, Busy
<1>6. StepsTo(Person, "ending", d)
  BY <1>4, <1>5, GoesForMoves, StillSteps DEF Revoke, BaseInv, Aside
<1> QED
  BY <1>2, <1>3, <1>4, <1>5, <1>6, ThreadIsQuiet
LEMMA ConnectIsQuiet ==
    ASSUME BaseInv, NEW s \in Conn, NEW d \in Device, Connect(s, d)
    PROVE  Quiet
<1>1. RegistryInv' /\ FileMoves /\ file' = file /\ Now = file
  BY LookKeeps, NowIsFile, SameFileMoves DEF Connect, BaseInv
<1>2. PairingTypeOK' /\ UNCHANGED commands
  BY UnchangedPairingKeeps DEF Connect, BaseInv
<1>3. s \in Thread /\ s # Person /\ job[s].at \notin Busy
  BY LinkAssumption DEF Thread, Connect, At, Busy
<1> DEFINE a == IF Now[d] = "pending" THEN "pairing" ELSE "touching"
           j == [at |-> a, dev |-> d, next |-> "idle"]
<1>4. a \in Aside /\ a \notin {"idle", "cancel", "offer", "asked"}
  BY DEF Aside, Steps, PairingSteps, Busy
<1>5. j \in Jobs /\ j.at = a /\ j.dev = d
  BY <1>4 DEF Jobs, Aside
<1>6. job' = [job EXCEPT ![s] = j]
  BY DEF Connect
<1>7. a \in {"touching", "marking", "admitted"} \cup LiveSteps
          => file'[d] \notin Unsettled
  BY <1>1 DEF Connect, CanAuthenticate, Unsettled, LiveSteps
<1> HIDE DEF a, j
<1>8. Moves(s, a, d)
  BY <1>3, <1>5, <1>6 DEF Moves, BaseInv, JobInv
<1>9. StepsTo(s, a, d)
  BY <1>8 DEF StepsTo, Connect, BaseInv, JobInv, SessionsTyped
<1> QED
  BY <1>1, <1>2, <1>3, <1>4, <1>7, <1>9, ThreadIsQuiet

LEMMA CompletePairingIsQuiet ==
    ASSUME BaseInv, NEW s \in Conn, CompletePairing(s)
    PROVE  Quiet
<1>1. PairingTypeOK' /\ UNCHANGED commands
  BY UnchangedPairingKeeps DEF CompletePairing, BaseInv
<1>2. /\ s \in Thread /\ s # Person
      /\ job[s].at = "pairing" /\ job[s].at \notin Busy
  BY LinkAssumption DEF Thread, CompletePairing, At, Busy
<1>3. RegistryInv' /\ FileMoves
  BY LookKeeps, UnchangedRegistryKeeps, SameFileMoves
  DEF CompletePairing, BaseInv
<1>4. "cancel" \in Aside /\ "activating" \in Aside
  BY DEF Aside, Steps, PairingSteps, CancelSteps, Busy
<1>5. {"cancel", "activating"}
          \cap ({"touching", "marking", "admitted"} \cup LiveSteps) = {}
  BY DEF LiveSteps
<1>6. CASE Leaves(s)
  BY <1>1, <1>2, <1>3, <1>6, LeavingIsQuiet
<1>7. CASE Goes(s, "cancel") /\ UNCHANGED sessions
  BY <1>1, <1>2, <1>3, <1>4, <1>5, <1>7, GoingIsQuiet
<1>8. CASE Goes(s, "activating") /\ UNCHANGED sessions
  BY <1>1, <1>2, <1>3, <1>4, <1>5, <1>8, GoingIsQuiet
<1> QED
  BY <1>6, <1>7, <1>8 DEF CompletePairing

LEMMA ActivateIsQuiet ==
    ASSUME BaseInv, NEW s \in Conn, Activate(s)
    PROVE  Quiet
<1>1. PairingTypeOK' /\ UNCHANGED commands
  BY UnchangedPairingKeeps DEF Activate, BaseInv
<1>2. /\ s \in Thread /\ s # Person
      /\ job[s].at = "activating" /\ job[s].at \notin Busy
  BY LinkAssumption DEF Thread, Activate, At, Busy
<1>3. CASE /\ Fresh[Dev(s)] \in {"pending", "active"}
           /\ Change(Dev(s), "active") /\ Goes(s, "marking")
           /\ UNCHANGED sessions
  <2>1. "active" \in Statuses /\ "marking" \in Aside
    BY DEF Statuses, Aside, Steps, PairingSteps, Busy
  <2>2. Dev(s) \in Device
    BY <1>2 DEF BaseInv, JobInv, Placed
  <2>3. RegistryInv' /\ \A b \in Device :
            file'[b] = IF b = Dev(s) THEN "active" ELSE file[b]
    BY <1>3, <2>1, ChangeKeeps DEF BaseInv
  <2>4. FileMoves /\ file'[Dev(s)] \notin Unsettled
    BY <1>3, <2>2, <2>3 DEF FileMoves, Fresh, Unsettled, Off
  <2> QED
    BY <1>1, <1>2, <1>3, <2>1, <2>3, <2>4, GoingIsQuiet
<1>4. CASE Reload /\ Leaves(s)
  <2>1. RegistryInv' /\ FileMoves
    BY <1>4, ReloadKeeps, SameFileMoves DEF BaseInv
  <2> QED
    BY <1>1, <1>2, <1>4, <2>1, LeavingIsQuiet
<1> QED
  BY <1>3, <1>4 DEF Activate

LEMMA MarkIsQuiet ==
    ASSUME BaseInv, NEW s \in Conn, Mark(s)
    PROVE  Quiet
<1>1. RegistryInv' /\ FileMoves /\ file' = file /\ UNCHANGED commands
  BY UnchangedRegistryKeeps, SameFileMoves DEF Mark, BaseInv
<1>2. /\ s \in Thread /\ s # Person
      /\ job[s].at = "marking" /\ job[s].at \notin Busy
  BY LinkAssumption DEF Thread, Mark, At, Busy
<1>3. Dev(s) \in Device
  BY <1>2 DEF BaseInv, JobInv, Placed
<1>4. PairingTypeOK'
  BY <1>3 DEF Mark, MarkUsed, BaseInv, PairingTypeOK
<1>5. "admitted" \in Aside
  BY DEF Aside, Steps, Busy
<1>6. file'[Dev(s)] \notin Unsettled
  BY <1>1, <1>2 DEF BaseInv, Standing
<1>7. Goes(s, "admitted") /\ UNCHANGED sessions
  BY DEF Mark
<1> QED
  BY <1>1, <1>2, <1>4, <1>5, <1>6, <1>7, GoingIsQuiet

LEMMA TouchIsQuiet ==
    ASSUME BaseInv, NEW s \in Conn, Touch(s)
    PROVE  Quiet
<1>1. PairingTypeOK' /\ UNCHANGED commands
  BY UnchangedPairingKeeps DEF Touch, BaseInv
<1>2. /\ s \in Thread /\ s # Person
      /\ job[s].at = "touching" /\ job[s].at \notin Busy
  BY LinkAssumption DEF Thread, Touch, At, Busy
<1>3. CASE /\ Change(Dev(s), Fresh[Dev(s)]) /\ Goes(s, "admitted")
           /\ UNCHANGED sessions
  <2>1. Dev(s) \in Device
    BY <1>2 DEF BaseInv, JobInv, Placed
  <2>2. Fresh[Dev(s)] \in Statuses /\ "admitted" \in Aside
    BY <2>1 DEF Fresh, BaseInv, RegistryInv, RegistryTypeOK, Aside, Steps, Busy
  <2>3. RegistryInv' /\ \A b \in Device : file'[b] = file[b]
    BY <1>3, <2>2, ChangeKeeps DEF BaseInv, Fresh
  <2>4. FileMoves /\ file'[Dev(s)] \notin Unsettled
    BY <1>2, <2>1, <2>3 DEF FileMoves, BaseInv, Standing
  <2> QED
    BY <1>1, <1>2, <1>3, <2>2, <2>3, <2>4, GoingIsQuiet
<1>4. CASE Reload /\ Leaves(s)
  <2>1. RegistryInv' /\ FileMoves
    BY <1>4, ReloadKeeps, SameFileMoves DEF BaseInv
  <2> QED
    BY <1>1, <1>2, <1>4, <2>1, LeavingIsQuiet
<1> QED
  BY <1>3, <1>4 DEF Touch

LEMMA RegisterIsQuiet ==
    ASSUME BaseInv, NEW s \in Conn, Register(s)
    PROVE  Quiet
<1>1. /\ RegistryInv' /\ FileMoves /\ file' = file /\ UNCHANGED commands
      /\ PairingTypeOK'
  BY UnchangedRegistryKeeps, SameFileMoves, UnchangedPairingKeeps
  DEF Register, BaseInv
<1>2. /\ s \in Thread /\ s # Person
      /\ job[s].at = "admitted" /\ job[s].at \notin Busy
  BY LinkAssumption DEF Thread, Register, At, Busy
<1>3. "open" \in Aside
  BY DEF Aside, Steps, LiveSteps, Busy
<1>4. file'[Dev(s)] \notin Unsettled
  BY <1>1, <1>2 DEF BaseInv, Standing
<1>5. Goes(s, "open") /\ UNCHANGED sessions
  BY DEF Register
<1> QED
  BY <1>1, <1>2, <1>3, <1>4, <1>5, GoingIsQuiet

LEMMA AskIsQuiet ==
    ASSUME BaseInv, NEW s \in Conn, NEW c \in Cid, NEW o \in Op, Ask(s, c, o)
    PROVE  Quiet
<1>1. /\ RegistryInv' /\ FileMoves /\ file' = file /\ UNCHANGED commands
      /\ PairingTypeOK'
  BY UnchangedRegistryKeeps, SameFileMoves, UnchangedPairingKeeps
  DEF Ask, BaseInv
<1>2. /\ s \in Thread /\ s # Person
      /\ job[s].at = "open" /\ job[s].at \notin Busy
  BY LinkAssumption DEF Thread, Ask, At, Busy
<1>3. "asked" \in Aside
  BY DEF Aside, Steps, LiveSteps, Busy
<1>4. file'[Dev(s)] \notin Unsettled /\ Dev(s) \in Device
  BY <1>1, <1>2 DEF BaseInv, Standing, LiveSteps, JobInv, Placed
<1>5. Moves(s, "asked", Dev(s))
  BY <1>2, <1>3, GoesMoves DEF Ask, BaseInv, Aside
<1>6. [cid |-> c, op |-> o] \in Requests
  BY DEF Requests
<1>7. SessionsTyped' /\ ask'[s] \in Requests
  BY <1>6 DEF Ask, BaseInv, JobInv, SessionsTyped
<1>8. StepsTo(s, "asked", Dev(s))
  BY <1>5, <1>7 DEF StepsTo, Ask, BaseInv, JobInv, SessionsTyped
<1> QED
  BY <1>1, <1>2, <1>3, <1>4, <1>7, <1>8, ThreadIsQuiet

LEMMA HangUpIsQuiet ==
    ASSUME BaseInv, NEW s \in Conn, HangUp(s)
    PROVE  Quiet
<1>1. /\ RegistryInv' /\ FileMoves /\ file' = file /\ UNCHANGED commands
      /\ PairingTypeOK'
  BY UnchangedRegistryKeeps, SameFileMoves, UnchangedPairingKeeps
  DEF HangUp, BaseInv
<1>2. s \in Thread /\ job[s].at \notin Busy /\ Leaves(s)
  BY DEF Thread, HangUp, At, Busy
<1> QED
  BY <1>1, <1>2, LeavingIsQuiet

\* What happens to no thread.
LEMMA NobodyMoves ==
    ASSUME BaseInv, RegistryInv', PairingTypeOK', FileMoves, SessionsTyped',
           UNCHANGED <<commands, job, ask, said, ended>>
    PROVE  Quiet
<1>1. LedgerInv'
  BY UnchangedIsHonest DEF BaseInv
<1>2. JobInv'
  BY DEF BaseInv, JobInv, Placed, Dev
<1>3. Standing'
  <2>1. \A t \in Thread : job[t].at \in
            {"touching", "marking", "admitted", "ending", "forgetting"}
              \cup LiveSteps => job[t].dev \in Device
    BY DEF BaseInv, JobInv, Placed, Dev, LiveSteps
  <2> QED
    BY <2>1 DEF BaseInv, Standing, FileMoves, Dev, Thread
<1>4. SameWork
  BY DEF SameWork
<1>5. PersonStill
  BY DEF PersonStill
<1> QED
  BY <1>1, <1>2, <1>3, <1>4, <1>5 DEF Quiet, BaseInv

LEMMA DropLineIsQuiet ==
    ASSUME BaseInv, NEW s \in Conn, DropLine(s)
    PROVE  Quiet
<1>1. RegistryInv' /\ FileMoves /\ PairingTypeOK'
  BY UnchangedRegistryKeeps, SameFileMoves, UnchangedPairingKeeps
  DEF DropLine, BaseInv
<1>2. SessionsTyped'
  BY DEF DropLine, BaseInv, JobInv, SessionsTyped
<1> QED
  BY <1>1, <1>2, NobodyMoves DEF DropLine

LEMMA OutsideIsQuiet ==
    ASSUME BaseInv,
           \/ WindowEnds /\ UNCHANGED <<registry, commands, job, sessions>>
           \/ \E d \in Device :
                 /\ RevokeElsewhere(d)
                 /\ UNCHANGED <<pairing, commands, job, sessions>>
    PROVE  Quiet
<1>1. SessionsTyped'
      /\ UNCHANGED <<commands, job, ask, said, ended>>
  BY DEF BaseInv, JobInv, SessionsTyped, sessions
<1>2. CASE WindowEnds /\ UNCHANGED <<registry, commands, job, sessions>>
  <2>1. RegistryInv' /\ FileMoves
    BY <1>2, UnchangedRegistryKeeps, SameFileMoves DEF BaseInv
  <2>2. PairingTypeOK'
    BY <1>2 DEF WindowEnds, BaseInv, PairingTypeOK
  <2> QED
    BY <1>1, <2>1, <2>2, NobodyMoves
<1>3. ASSUME NEW d \in Device, RevokeElsewhere(d), UNCHANGED pairing
      PROVE  Quiet
  <2>1. PairingTypeOK'
    BY <1>3, UnchangedPairingKeeps DEF BaseInv
  <2>2. RegistryInv' /\ FileMoves
    BY <1>3, RevokeElsewhereKeeps DEF BaseInv, FileMoves, Unsettled, Off
  <2> QED
    BY <1>1, <2>1, <2>2, NobodyMoves
<1> QED
  BY <1>2, <1>3

\* The sessions of a device that is off are told to end.
Cut(d) ==
    /\ file[d] \in Off
    /\ \A s \in Conn : job[s].at \in Busy /\ Dev(s) = d => s \in ended

CutByPerson == job[Person].at = "forgetting" => Cut(Dev(Person))

LEMMA EndSessionsCuts ==
    ASSUME BaseInv, EndSessions
    PROVE  /\ BaseInv' /\ FileMoves /\ SameWork /\ UNCHANGED commands
           /\ CutByPerson'
<1>1. /\ RegistryInv' /\ FileMoves /\ file' = file /\ LedgerInv'
      /\ PairingTypeOK' /\ UNCHANGED commands
  BY UnchangedRegistryKeeps, SameFileMoves, UnchangedPairingKeeps,
     UnchangedIsHonest DEF EndSessions, BaseInv
<1>2. Person \in Thread /\ Person \notin Conn /\ job[Person].at = "ending"
  BY LinkAssumption DEF Thread, EndSessions, At
<1>3. "forgetting" \in Steps
  BY DEF Aside, Steps
<1>4. Moves(Person, "forgetting", Dev(Person))
  BY <1>2, <1>3, GoesMoves DEF EndSessions, BaseInv
<1>5. Dev(Person) \in Device /\ file[Dev(Person)] \in Off
  BY <1>2 DEF BaseInv, JobInv, Placed, Standing
<1>6. SessionsTyped'
  BY DEF EndSessions, Registered, BaseInv, JobInv, SessionsTyped
<1>7. \A s \in Conn : job'[s] = job[s] /\ ask'[s] = ask[s] /\ said'[s] = said[s]
  BY <1>2, <1>4 DEF Moves, EndSessions, Thread
<1>8. JobInv'
  BY <1>4, <1>5, <1>6, <1>7 DEF JobInv, Moves, Placed, Dev, Thread, BaseInv
<1>9. Standing'
  BY <1>1, <1>2, <1>4, <1>5, StandingKeeps DEF BaseInv
<1>10. SameWork
  BY <1>7 DEF SameWork, EndSessions
<1>11. CutByPerson'
  BY <1>1, <1>4, <1>5, <1>7
  DEF CutByPerson, Cut, Dev, Moves, EndSessions, Registered, Busy, LiveSteps
<1> QED
  BY <1>1, <1>8, <1>9, <1>10, <1>11 DEF BaseInv
-----------------------------------------------------------------------------
(* Steps of the work, and of the ledger. *)

\* Session `s` goes on with its work at step `a`.
Works(s, a) ==
    /\ job'[s].at = a /\ job'[s].dev = Dev(s) /\ ask'[s] = ask[s]
    /\ \A r \in Conn \ {s} :
          job'[r] = job[r] /\ ask'[r] = ask[r] /\ said'[r] = said[r]
    /\ ended' = ended /\ file' = file
    /\ PersonStill

\* What a step of a session's work keeps.
LEMMA WorkingKeeps ==
    ASSUME BaseInv, NEW s \in Conn, NEW a \in Busy, job[s].at \in Asking,
           Goes(s, a), SessionsTyped', UNCHANGED <<registry, pairing>>,
           ended' = ended, ask' = ask,
           \A r \in Conn \ {s} : said'[r] = said[r],
           LedgerInv'
    PROVE  BaseInv' /\ Works(s, a)
<1>1. RegistryInv' /\ FileMoves /\ file' = file /\ PairingTypeOK'
  BY UnchangedRegistryKeeps, SameFileMoves, UnchangedPairingKeeps DEF BaseInv
<1>2. s \in Thread /\ s # Person
  BY LinkAssumption DEF Thread
<1>3. a \in Steps
  BY DEF Busy, Steps, LiveSteps
<1>4. Moves(s, a, Dev(s))
  BY <1>2, <1>3, GoesMoves DEF BaseInv
<1>5. /\ Dev(s) \in Device /\ ask[s] \in Requests
      /\ file[Dev(s)] \notin Unsettled
  BY <1>2 DEF BaseInv, JobInv, Placed, Standing, Asking, LiveSteps
<1>6. StepsTo(s, a, Dev(s))
  BY <1>4 DEF StepsTo
<1>7. JobInv'
  BY <1>2, <1>3, <1>5, <1>6, StepsKeeps DEF BaseInv
<1>8. Standing'
  BY <1>1, <1>2, <1>4, <1>5, StandingKeeps DEF BaseInv
<1>9. Works(s, a)
  BY <1>1, <1>2, <1>4 DEF Works, Moves, PersonStill, Thread
<1> QED
  BY <1>1, <1>7, <1>8, <1>9 DEF BaseInv

LEMMA CheckValidDoes ==
    ASSUME BaseInv, NEW s \in Conn, CheckValid(s)
    PROVE  \/ Quiet
           \/ /\ BaseInv' /\ Works(s, "valid") /\ UNCHANGED commands
              /\ said' = said /\ file[Dev(s)] = "active"
<1>1. RegistryInv' /\ FileMoves /\ file' = file /\ Now = file
  BY LookKeeps, NowIsFile, SameFileMoves DEF CheckValid, BaseInv
<1>2. PairingTypeOK' /\ UNCHANGED commands /\ LedgerInv'
  BY UnchangedPairingKeeps, UnchangedIsHonest DEF CheckValid, BaseInv
<1>3. /\ s \in Thread /\ s # Person
      /\ job[s].at = "asked" /\ job[s].at \notin Busy
  BY LinkAssumption DEF Thread, CheckValid, At, Busy
<1>4. CASE Leaves(s)
  BY <1>1, <1>2, <1>3, <1>4, LeavingIsQuiet
<1>5. CASE /\ Now[Dev(s)] = "active"
           /\ Goes(s, "valid") /\ UNCHANGED sessions
  <2>1. "valid" \in Steps
    BY DEF Steps, LiveSteps
  <2>2. Moves(s, "valid", Dev(s))
    BY <1>3, <1>5, <2>1, GoesMoves DEF BaseInv
  <2>3. /\ StepsTo(s, "valid", Dev(s))
        /\ ask' = ask /\ said' = said /\ ended' = ended
    BY <1>3, <1>5, <2>2, StillSteps DEF BaseInv
  <2>4. /\ Dev(s) \in Device /\ ask[s] \in Requests
        /\ file[Dev(s)] \notin Unsettled
    BY <1>3 DEF BaseInv, JobInv, Placed, Standing, Asking, LiveSteps
  <2>5. JobInv'
    BY <1>3, <2>1, <2>3, <2>4, StepsKeeps DEF BaseInv
  <2>6. Standing'
    BY <1>1, <1>3, <2>2, <2>4, StandingKeeps DEF BaseInv
  <2>7. Works(s, "valid")
    BY <1>1, <1>3, <2>2, <2>3 DEF Works, Moves, PersonStill, Thread
  <2> QED
    BY <1>1, <1>2, <1>5, <2>3, <2>5, <2>6, <2>7 DEF BaseInv
<1> QED
  BY <1>4, <1>5 DEF CheckValid

LEMMA BeginCommandDoes ==
    ASSUME BaseInv, NEW s \in Conn, BeginCommand(s)
    PROVE  LET d == Dev(s)  c == ask[s].cid  o == ask[s].op IN
           /\ d \in Device /\ c \in Cid /\ o \in Op /\ job[s].at = "valid"
           /\ BaseInv' /\ Begin(d, c, o)
           /\ Works(s, IF Verdict(d, c, o) = "new" THEN "running"
                                                   ELSE "answering")
           /\ said'[s] = IF Verdict(d, c, o) = "done"
                         THEN entries[d][c].kept ELSE {}
<1> DEFINE d == Dev(s)
           c == ask[s].cid
           o == ask[s].op
           a == IF Verdict(d, c, o) = "new" THEN "running" ELSE "answering"
           w == IF Verdict(d, c, o) = "done" THEN entries[d][c].kept ELSE {}
<1>1. job[s].at = "valid" /\ job[s].at \in Asking /\ s \in Thread
  BY DEF BeginCommand, At, Asking, Thread
<1>2. d \in Device /\ c \in Cid /\ o \in Op
  <2>1. ask[s] \in Requests
    BY <1>1 DEF BaseInv, JobInv, Placed
  <2>2. d \in Device
    BY <1>1 DEF BaseInv, JobInv, Placed
  <2> QED
    BY <2>1, <2>2 DEF Requests
<1>3. Begin(d, c, o) /\ Goes(s, a) /\ said' = [said EXCEPT ![s] = w]
  BY DEF BeginCommand
<1>4. LedgerInv'
  BY <1>2, <1>3, BeginIsHonest DEF BaseInv
<1>5. a \in Busy
  BY DEF Busy
<1>6. w \in SUBSET Op
  BY <1>2 DEF BaseInv, LedgerInv, EntriesTyped, Entries
<1>7. UNCHANGED <<registry, pairing, ask, line, ended, asks>>
  BY DEF BeginCommand
<1> HIDE DEF a, w, d, c, o
<1>8. /\ SessionsTyped' /\ said'[s] = w
      /\ \A r \in Conn \ {s} : said'[r] = said[r]
  BY <1>3, <1>6, <1>7 DEF BaseInv, JobInv, SessionsTyped
<1>9. BaseInv' /\ Works(s, a)
  BY <1>1, <1>3, <1>4, <1>5, <1>7, <1>8, WorkingKeeps
<1> QED
  BY <1>1, <1>2, <1>3, <1>8, <1>9 DEF a, w, d, c, o

LEMMA FinishCommandDoes ==
    ASSUME BaseInv, NEW s \in Conn, FinishCommand(s)
    PROVE  LET d == Dev(s)  c == ask[s].cid  o == ask[s].op IN
           /\ d \in Device /\ c \in Cid /\ o \in Op /\ job[s].at = "running"
           /\ BaseInv' /\ Finish(d, c, o)
           /\ Works(s, "answering") /\ said'[s] = {o}
<1> DEFINE d == Dev(s)
           c == ask[s].cid
           o == ask[s].op
<1>1. job[s].at = "running" /\ job[s].at \in Asking /\ s \in Thread
  BY DEF FinishCommand, At, Asking, Thread
<1>2. d \in Device /\ c \in Cid /\ o \in Op
  <2>1. ask[s] \in Requests
    BY <1>1 DEF BaseInv, JobInv, Placed
  <2>2. d \in Device
    BY <1>1 DEF BaseInv, JobInv, Placed
  <2> QED
    BY <2>1, <2>2 DEF Requests
<1>3. /\ Finish(d, c, o) /\ Goes(s, "answering")
      /\ said' = [said EXCEPT ![s] = {o}]
  BY DEF FinishCommand
<1>4. LedgerInv'
  BY <1>2, <1>3, FinishIsHonest DEF BaseInv
<1>5. "answering" \in Busy
  BY DEF Busy
<1>6. UNCHANGED <<registry, pairing, ask, line, ended, asks>>
  BY DEF FinishCommand
<1> HIDE DEF d, c, o
<1>7. /\ SessionsTyped' /\ said'[s] = {o}
      /\ \A r \in Conn \ {s} : said'[r] = said[r]
  BY <1>2, <1>3, <1>6 DEF BaseInv, JobInv, SessionsTyped
<1>8. BaseInv' /\ Works(s, "answering")
  BY <1>1, <1>3, <1>4, <1>5, <1>6, <1>7, WorkingKeeps
<1> QED
  BY <1>1, <1>2, <1>3, <1>7, <1>8 DEF d, c, o

\* A session whose answer is sent, or not, is done with its work.
LEMMA SendDoes ==
    ASSUME BaseInv, NEW s \in Conn, Send(s)
    PROVE  /\ BaseInv' /\ file' = file /\ UNCHANGED commands /\ PersonStill
           /\ job'[s].at \notin Busy /\ job[s].at = "answering"
           /\ \A r \in Conn \ {s} :
                 /\ job'[r] = job[r] /\ ask'[r] = ask[r] /\ said'[r] = said[r]
                 /\ r \in ended' <=> r \in ended
<1>1. /\ RegistryInv' /\ FileMoves /\ file' = file /\ UNCHANGED commands
      /\ PairingTypeOK' /\ LedgerInv'
  BY UnchangedRegistryKeeps, SameFileMoves, UnchangedPairingKeeps,
     UnchangedIsHonest DEF Send, BaseInv
<1>2. s \in Thread /\ s # Person /\ job[s].at = "answering"
  BY LinkAssumption DEF Thread, Send, At
<1>3. /\ Dev(s) \in Device /\ file[Dev(s)] \notin Unsettled
  BY <1>2 DEF BaseInv, JobInv, Placed, Standing, LiveSteps
<1>4. \E a \in {"open", "idle"}, d \in Device \cup {NoDevice} :
          StepsTo(s, a, d) /\ (a = "open" => d = Dev(s))
  <2>1. CASE s \in line \ ended
    <3>1. "open" \in Steps
      BY DEF Steps, LiveSteps
    <3>2. Moves(s, "open", Dev(s))
      BY <1>2, <2>1, <3>1, GoesMoves DEF Send, BaseInv
    <3> QED
      BY <1>3, <2>1, <3>2
      DEF Send, StepsTo, BaseInv, JobInv, SessionsTyped
  <2>2. CASE s \notin line \ ended
    BY <1>2, <2>2, LeavesSteps DEF Send, BaseInv
  <2> QED
    BY <2>1, <2>2
<1>5. PICK a \in {"open", "idle"}, d \in Device \cup {NoDevice} :
          StepsTo(s, a, d) /\ (a = "open" => d = Dev(s))
  BY <1>4
<1>6. a \in Steps /\ a \notin Busy \cup Asking
      /\ (a = "idle" => a \notin LiveSteps)
  BY DEF Steps, LiveSteps, Busy, Asking
<1>7. JobInv'
  BY <1>2, <1>3, <1>5, <1>6, StepsKeeps DEF BaseInv
<1>8. Standing'
  BY <1>1, <1>2, <1>3, <1>5, <1>6, StandingKeeps DEF BaseInv, StepsTo
<1>9. PersonStill
  BY <1>2, <1>5 DEF PersonStill, StepsTo, Moves, Thread
<1> QED
  BY <1>1, <1>2, <1>5, <1>6, <1>7, <1>8, <1>9
  DEF BaseInv, StepsTo, Moves, Thread

LEMMA AgeDoes ==
    ASSUME BaseInv, NEW d \in Device, NEW c \in Cid, Age(d, c),
           UNCHANGED <<registry, pairing, job, sessions>>
    PROVE  BaseInv' /\ UNCHANGED <<file, job, ask, said, ended>>
<1>1. RegistryInv' /\ file' = file /\ PairingTypeOK'
  BY UnchangedRegistryKeeps, UnchangedPairingKeeps DEF BaseInv
<1>2. LedgerInv'
  BY AgeIsHonest DEF BaseInv
<1>3. UNCHANGED <<job, ask, said, line, ended, asks>>
  BY DEF sessions
<1>4. JobInv' /\ Standing'
  BY <1>1, <1>3
  DEF BaseInv, JobInv, Placed, Standing, Dev, SessionsTyped
<1> QED
  BY <1>1, <1>2, <1>3, <1>4 DEF BaseInv

LEMMA ForgetDeviceDoes ==
    ASSUME BaseInv, ForgetDevice
    PROVE  /\ BaseInv' /\ file' = file /\ SameWork /\ PersonStill
           /\ Dev(Person) \in Device /\ Forget(Dev(Person))
           /\ job[Person].at = "forgetting"
<1>1. RegistryInv' /\ file' = file /\ PairingTypeOK' /\ FileMoves
  BY UnchangedRegistryKeeps, UnchangedPairingKeeps, SameFileMoves
  DEF ForgetDevice, BaseInv
<1>2. /\ Person \in Thread /\ Person \notin Conn
      /\ job[Person].at = "forgetting"
  BY LinkAssumption DEF Thread, ForgetDevice, At
<1>3. Dev(Person) \in Device
  BY <1>2 DEF BaseInv, JobInv, Placed
<1>4. LedgerInv'
  BY <1>3, ForgetIsHonest DEF BaseInv, ForgetDevice
<1>5. StepsTo(Person, "idle", NoDevice)
  BY <1>2, LeavesSteps DEF BaseInv, ForgetDevice
<1>6. "idle" \in Steps \ Busy
  BY DEF Steps, Busy
<1>7. JobInv' /\ Standing' /\ SameWork
  BY <1>1, <1>2, <1>5, <1>6, QuietStep DEF BaseInv
<1>8. PersonStill
  BY <1>5 DEF PersonStill, StepsTo, Moves
<1> QED
  BY <1>1, <1>2, <1>3, <1>4, <1>7, <1>8 DEF BaseInv, ForgetDevice

\* The window's device, if it is still pending, goes with the restart.
LEMMA RestartLinkDoes ==
    ASSUME BaseInv, RestartLink
    PROVE  /\ BaseInv' /\ FileMoves
           /\ job' = [t \in Thread |-> Idle]
           /\ entries' = [d \in Device |-> [c \in Cid |-> NoEntry]]
           /\ \A d \in Device :
                 \/ file'[d] = file[d]
                 \/ file[d] = "pending" /\ file'[d] = "gone"
<1>1. /\ RegistryInv'
      /\ \A d \in Device : \/ file'[d] = file[d]
                           \/ file[d] = "pending" /\ file'[d] = "gone"
  <2>1. CASE Fresh[window.dev] = "pending" /\ Change(window.dev, "gone")
    <3>1. "gone" \in Statuses
      BY DEF Statuses
    <3> QED
      BY <2>1, <3>1, ChangeKeeps DEF BaseInv, Fresh
  <2>2. CASE Reload
    BY <2>2, ReloadKeeps DEF BaseInv
  <2> QED
    BY <2>1, <2>2 DEF RestartLink
<1>2. FileMoves
  BY <1>1 DEF FileMoves, Unsettled, Off
<1>3. PairingTypeOK'
  BY DEF RestartLink, NoWindow, BaseInv, PairingTypeOK
<1>4. LedgerInv'
  BY BlankAgainIsHonest DEF RestartLink
<1>5. /\ job' = [t \in Thread |-> Idle]
      /\ entries' = [d \in Device |-> [c \in Cid |-> NoEntry]]
  BY DEF RestartLink
<1>6. \A t \in Thread : job'[t] \in Jobs /\ job'[t].at = "idle"
  BY <1>5, IdleIsJob
<1>7. JobInv'
  <2>1. SessionsTyped'
    BY DEF RestartLink, BaseInv, JobInv, SessionsTyped, NoAsk
  <2>2. Placed'
    BY <1>6 DEF Placed, Asking, Thread
  <2>3. job' \in [Thread -> Jobs]
    BY <1>5, IdleIsJob
  <2> QED
    BY <2>1, <2>2, <2>3 DEF JobInv
<1>8. Standing'
  BY <1>6 DEF Standing, LiveSteps, Thread
<1> QED
  BY <1>1, <1>2, <1>3, <1>4, <1>5, <1>7, <1>8 DEF BaseInv
-----------------------------------------------------------------------------
(* The work of the sessions and the ledger. *)

\* The ledger's view of a device is the sessions': a command is running in it
\* while one handler carries it out, and what is kept or about to be sent is
\* the answer to it.
Sound(d) ==
    /\ \A s \in Conn, c \in Cid : Runs(s, d, c) =>
          entries[d][c].state = "running" /\ entries[d][c].op = ask[s].op
    /\ \A s, r \in Conn, c \in Cid : Runs(s, d, c) /\ Runs(r, d, c) => s = r
    /\ \A c \in Cid :
          entries[d][c].state = "running" => \E s \in Conn : Runs(s, d, c)
    /\ \A c \in Cid : entries[d][c].kept \subseteq {entries[d][c].op}
    /\ \A s \in Conn : At(s, "answering") /\ Dev(s) = d =>
          said[s] \subseteq {ask[s].op}

\* forget_device makes the two differ: only for a device that is off, and the
\* sessions at its work will not answer.
WorkInv == \A d \in Device : Cut(d) \/ Sound(d)

\* Nothing is remembered of a device before it was let in.
FreshBlank ==
    \A d \in Device : file[d] \in Unsettled =>
        \A c \in Cid : entries[d][c] = NoEntry

Inv == BaseInv /\ WorkInv /\ FreshBlank /\ CutByPerson

\* The runs and the answers of a device's sessions are the same, or fewer
\* answers are left to send.
SameRuns(d) ==
    \A r \in Conn :
        /\ job[r].at = "running" /\ job[r].dev = d =>
              job'[r] = job[r] /\ ask'[r] = ask[r]
        /\ job'[r].at \in {"running", "answering"} /\ job'[r].dev = d =>
              job'[r] = job[r] /\ ask'[r] = ask[r] /\ said'[r] = said[r]

\* A device's ledger is the same, or keeps fewer answers.
SameLedger(d) ==
    \A c \in Cid :
        /\ entries'[d][c].state = entries[d][c].state
        /\ entries'[d][c].op = entries[d][c].op
        /\ entries'[d][c].kept \subseteq entries[d][c].kept

LEMMA SoundStays ==
    ASSUME NEW d \in Device, Sound(d), SameRuns(d), SameLedger(d)
    PROVE  Sound(d)'
<1>1. \A s \in Conn, c \in Cid : Runs(s, d, c)' <=> Runs(s, d, c)
  BY DEF SameRuns, Runs, At, Dev
<1>2. \A s \in Conn, c \in Cid : Runs(s, d, c) => ask'[s] = ask[s]
  BY DEF SameRuns, Runs, At, Dev
<1>3. \A s \in Conn, c \in Cid : Runs(s, d, c)' =>
          entries'[d][c].state = "running" /\ entries'[d][c].op = ask'[s].op
  BY <1>1, <1>2 DEF Sound, SameLedger
<1>4. \A s, r \in Conn, c \in Cid :
          Runs(s, d, c)' /\ Runs(r, d, c)' => s = r
  BY <1>1 DEF Sound
<1>5. \A c \in Cid :
          entries'[d][c].state = "running" => \E s \in Conn : Runs(s, d, c)'
  BY <1>1 DEF Sound, SameLedger
<1>6. \A c \in Cid : entries'[d][c].kept \subseteq {entries'[d][c].op}
  BY DEF Sound, SameLedger
<1>7. \A s \in Conn : At(s, "answering")' /\ Dev(s)' = d =>
          said'[s] \subseteq {ask'[s].op}
  BY DEF Sound, SameRuns, At, Dev
<1> QED
  BY <1>3, <1>4, <1>5, <1>6, <1>7 DEF Sound

LEMMA CutStays ==
    ASSUME NEW d \in Device, Cut(d), FileMoves,
           \A r \in Conn : job'[r].at \in Busy /\ job'[r].dev = d =>
               /\ job[r].at \in Busy /\ job[r].dev = d
               /\ r \in ended => r \in ended'
    PROVE  Cut(d)'
  BY DEF Cut, FileMoves, Dev

LEMMA PersonStays ==
    ASSUME BaseInv, CutByPerson, PersonStill, FileMoves,
           \A d \in Device : Cut(d) => Cut(d)'
    PROVE  CutByPerson'
<1>1. job[Person].at = "forgetting" => Dev(Person) \in Device
  BY DEF BaseInv, JobInv, Placed, Thread
<1> QED
  BY <1>1 DEF CutByPerson, PersonStill, Dev

LEMMA SameWorkKeeps ==
    ASSUME BaseInv, WorkInv, FreshBlank, FileMoves, SameWork,
           UNCHANGED commands
    PROVE  /\ WorkInv' /\ FreshBlank'
           /\ \A d \in Device : Cut(d) => Cut(d)'
<1>1. ASSUME NEW d \in Device, Cut(d)
      PROVE  Cut(d)'
  BY <1>1, CutStays DEF SameWork
<1>2. ASSUME NEW d \in Device, Sound(d)
      PROVE  Sound(d)'
  <2>1. SameRuns(d)
    BY DEF SameWork, SameRuns, Busy
  <2>2. SameLedger(d)
    BY DEF SameLedger, commands
  <2> QED
    BY <1>2, <2>1, <2>2, SoundStays
<1>3. FreshBlank'
  BY DEF FreshBlank, FileMoves, commands, BaseInv
<1> QED
  BY <1>1, <1>2, <1>3 DEF WorkInv

LEMMA QuietKeepsInv ==
    ASSUME Inv, Quiet
    PROVE  Inv'
  BY SameWorkKeeps, PersonStays DEF Inv, Quiet

LEMMA EndSessionsKeepsInv ==
    ASSUME Inv, EndSessions
    PROVE  Inv'
  BY SameWorkKeeps, EndSessionsCuts DEF Inv

LEMMA CheckValidKeepsInv ==
    ASSUME Inv, NEW s \in Conn, CheckValid(s)
    PROVE  Inv'
<1>1. CASE Quiet
  BY <1>1, QuietKeepsInv
<1>2. CASE /\ BaseInv' /\ Works(s, "valid") /\ UNCHANGED commands
           /\ said' = said /\ file[Dev(s)] = "active"
  <2>1. FileMoves
    BY <1>2, SameFileMoves DEF Works
  <2>2. job[s].at = "asked"
    BY DEF CheckValid, At
  <2>3. ASSUME NEW d \in Device, Cut(d)
        PROVE  Cut(d)'
    <3>1. Dev(s) # d
      BY <1>2, <2>3 DEF Cut, Off
    <3> QED
      BY <1>2, <2>1, <2>3, <3>1, CutStays DEF Works
  <2>4. ASSUME NEW d \in Device, Sound(d)
        PROVE  Sound(d)'
    <3>1. SameRuns(d)
      BY <1>2, <2>2 DEF Works, SameRuns
    <3>2. SameLedger(d)
      BY <1>2 DEF SameLedger, commands
    <3> QED
      BY <2>4, <3>1, <3>2, SoundStays
  <2>5. FreshBlank'
    BY <1>2 DEF FreshBlank, Works, commands, Inv
  <2>6. CutByPerson'
    BY <1>2, <2>1, <2>3, PersonStays DEF Inv, Works
  <2> QED
    BY <1>2, <2>3, <2>4, <2>5, <2>6 DEF Inv, WorkInv
<1> QED
  BY <1>1, <1>2, CheckValidDoes DEF Inv

LEMMA SendKeepsInv ==
    ASSUME Inv, NEW s \in Conn, Send(s)
    PROVE  Inv'
<1>1. /\ BaseInv' /\ file' = file /\ UNCHANGED commands /\ PersonStill
      /\ job'[s].at \notin Busy /\ job[s].at = "answering"
      /\ \A r \in Conn \ {s} :
            /\ job'[r] = job[r] /\ ask'[r] = ask[r] /\ said'[r] = said[r]
            /\ r \in ended' <=> r \in ended
  BY SendDoes DEF Inv
<1>2. FileMoves
  BY <1>1, SameFileMoves
<1>3. ASSUME NEW d \in Device, Cut(d)
      PROVE  Cut(d)'
  BY <1>1, <1>2, <1>3, CutStays
<1>4. ASSUME NEW d \in Device, Sound(d)
      PROVE  Sound(d)'
  <2>1. SameRuns(d)
    BY <1>1 DEF SameRuns, Busy
  <2>2. SameLedger(d)
    BY <1>1 DEF SameLedger, commands
  <2> QED
    BY <1>4, <2>1, <2>2, SoundStays
<1>5. FreshBlank'
  BY <1>1 DEF FreshBlank, commands, Inv
<1>6. CutByPerson'
  BY <1>1, <1>2, <1>3, PersonStays DEF Inv
<1> QED
  BY <1>1, <1>3, <1>4, <1>5, <1>6 DEF Inv, WorkInv

LEMMA AgeKeepsInv ==
    ASSUME Inv, NEW d \in Device, NEW c \in Cid, Age(d, c),
           UNCHANGED <<registry, pairing, job, sessions>>
    PROVE  Inv'
<1>1. BaseInv' /\ UNCHANGED <<file, job, ask, said, ended>>
  BY AgeDoes DEF Inv
<1>2. \A b \in Device, x \in Cid :
          /\ entries'[b][x].state = entries[b][x].state
          /\ entries'[b][x].op = entries[b][x].op
          /\ entries'[b][x].kept = entries[b][x].kept
          /\ ~(b = d /\ x = c) => entries'[b][x] = entries[b][x]
  BY AgeShape DEF Inv, BaseInv
<1>3. FileMoves /\ PersonStill
  BY <1>1, SameFileMoves DEF PersonStill
<1>4. ASSUME NEW b \in Device, Cut(b)
      PROVE  Cut(b)'
  BY <1>1, <1>3, <1>4, CutStays
<1>5. ASSUME NEW b \in Device, Sound(b)
      PROVE  Sound(b)'
  <2>1. SameRuns(b)
    BY <1>1 DEF SameRuns
  <2>2. SameLedger(b)
    BY <1>2 DEF SameLedger
  <2> QED
    BY <1>5, <2>1, <2>2, SoundStays
<1>6. FreshBlank'
  <2>1. entries[d][c] # NoEntry
    BY DEF Age, NoEntry
  <2> QED
    BY <1>1, <1>2, <2>1 DEF FreshBlank, Inv
<1>7. CutByPerson'
  BY <1>1, <1>3, <1>4, PersonStays DEF Inv
<1> QED
  BY <1>1, <1>4, <1>5, <1>6, <1>7 DEF Inv, WorkInv

LEMMA ForgetDeviceKeepsInv ==
    ASSUME Inv, ForgetDevice
    PROVE  Inv'
<1>1. /\ BaseInv' /\ file' = file /\ SameWork /\ PersonStill
      /\ Dev(Person) \in Device /\ Forget(Dev(Person))
      /\ job[Person].at = "forgetting"
  BY ForgetDeviceDoes DEF Inv
<1>2. FileMoves
  BY <1>1, SameFileMoves
<1>3. ASSUME NEW b \in Device, Cut(b)
      PROVE  Cut(b)'
  BY <1>1, <1>2, <1>3, CutStays DEF SameWork
<1>4. Cut(Dev(Person))
  BY <1>1 DEF CutByPerson, Inv
<1>5. /\ \A b \in Device \ {Dev(Person)} : entries'[b] = entries[b]
      /\ \A c \in Cid : entries'[Dev(Person)][c] = NoEntry
  BY <1>1 DEF Forget, Inv, BaseInv, LedgerInv, EntriesTyped
<1>6. ASSUME NEW b \in Device, b # Dev(Person), Sound(b)
      PROVE  Sound(b)'
  <2>1. SameRuns(b)
    BY <1>1 DEF SameWork, SameRuns, Busy
  <2>2. SameLedger(b)
    BY <1>5, <1>6 DEF SameLedger
  <2> QED
    BY <1>6, <2>1, <2>2, SoundStays
<1>7. WorkInv'
  BY <1>3, <1>4, <1>6 DEF Inv, WorkInv
<1>8. FreshBlank'
  BY <1>1, <1>5 DEF FreshBlank, Inv
<1>9. CutByPerson'
  BY <1>1, <1>2, <1>3, PersonStays DEF Inv
<1> QED
  BY <1>1, <1>7, <1>8, <1>9 DEF Inv

LEMMA RestartLinkKeepsInv ==
    ASSUME Inv, RestartLink
    PROVE  Inv'
<1>1. /\ BaseInv' /\ job' = [t \in Thread |-> Idle]
      /\ entries' = [d \in Device |-> [c \in Cid |-> NoEntry]]
  BY RestartLinkDoes DEF Inv
<1>2. \A t \in Thread : job'[t].at = "idle"
  BY <1>1, IdleIsJob
<1>3. ASSUME NEW d \in Device
      PROVE  Sound(d)'
  <2>1. \A s \in Conn, c \in Cid : ~Runs(s, d, c)'
    BY <1>2 DEF Runs, At, Thread
  <2>2. \A c \in Cid : entries'[d][c] = NoEntry
    BY <1>1
  <2>3. \A s \in Conn : ~At(s, "answering")'
    BY <1>2 DEF At, Thread
  <2> QED
    BY <2>1, <2>2, <2>3 DEF Sound, NoEntry
<1>4. FreshBlank'
  BY <1>1 DEF FreshBlank
<1>5. CutByPerson'
  BY <1>2 DEF CutByPerson, Thread
<1> QED
  BY <1>1, <1>3, <1>4, <1>5 DEF Inv, WorkInv
LEMMA BeginCommandKeepsInv ==
    ASSUME Inv, NEW s \in Conn, BeginCommand(s),
           NEW d \in Device, NEW c \in Cid, NEW o \in Op,
           d = Dev(s), c = ask[s].cid, o = ask[s].op
    PROVE  Inv'
<1> DEFINE a == IF Verdict(d, c, o) = "new" THEN "running" ELSE "answering"
<1>1. /\ job[s].at = "valid" /\ job[s].dev = d
      /\ BaseInv' /\ Begin(d, c, o) /\ Works(s, a)
      /\ said'[s] = IF Verdict(d, c, o) = "done"
                    THEN entries[d][c].kept ELSE {}
  BY BeginCommandDoes DEF Inv, Dev
<1>0. /\ job'[s].at = a /\ job'[s].dev = d
      /\ ask'[s] = ask[s] /\ ask'[s].cid = c /\ ask'[s].op = o
      /\ \A r \in Conn \ {s} :
            job'[r] = job[r] /\ ask'[r] = ask[r] /\ said'[r] = said[r]
  BY <1>1 DEF Works
<1>2. /\ \A b \in Device \ {d} : entries'[b] = entries[b]
      /\ \/ Verdict(d, c, o) # "new" /\ Dropped(d, Lapsed(entries[d]))
         \/ /\ Verdict(d, c, o) = "new" /\ c \notin Known(Lasting(d))
            /\ \E cs \in Evicted(Lasting(d)) :
                 Claimed(d, c, o, Lapsed(entries[d]) \cup cs)
  BY <1>1, BeginShape DEF Inv, BaseInv
<1>3. FileMoves /\ file' = file /\ PersonStill
  BY <1>1, SameFileMoves DEF Works
<1>4. ASSUME NEW b \in Device, Cut(b)
      PROVE  Cut(b)'
  <2>1. job[s].at \in Busy
    BY <1>1 DEF Busy
  <2> QED
    BY <1>1, <1>3, <1>4, <2>1, CutStays DEF Works, Dev
<1>5. ASSUME NEW b \in Device \ {d}, Sound(b)
      PROVE  Sound(b)'
  <2>1. SameRuns(b)
    BY <1>1, <1>5 DEF Works, SameRuns
  <2>2. SameLedger(b)
    BY <1>2 DEF SameLedger
  <2> QED
    BY <1>5, <2>1, <2>2, SoundStays
<1>6. ASSUME Sound(d), Verdict(d, c, o) = "new"
      PROVE  Sound(d)'
  <2>1. PICK cs \in Evicted(Lasting(d)) :
            Claimed(d, c, o, Lapsed(entries[d]) \cup cs)
    BY <1>2, <1>6
  <2>2. /\ cs \subseteq Cid
        /\ \A x \in Cid : x \in Lapsed(entries[d]) \cup cs =>
              entries[d][x].state = "done"
    BY <2>1 DEF Evicted, Finished, Lapsed, Lasting, Without, NoEntry
  <2>3. \A r \in Conn, x \in Cid : Runs(r, d, x) =>
            x # c /\ r # s /\ entries'[d][x] = entries[d][x]
    <3> SUFFICES ASSUME NEW r \in Conn, NEW x \in Cid, Runs(r, d, x)
                 PROVE  x # c /\ r # s /\ entries'[d][x] = entries[d][x]
      OBVIOUS
    <3>1. entries[d][x].state = "running"
      BY <1>6 DEF Sound
    <3>2. x # c
      BY <1>2, <1>6, <3>1 DEF Known, Lasting, Without, Lapsed, Finished
    <3>3. r # s
      BY <1>1 DEF Runs, At
    <3>4. x \notin Lapsed(entries[d]) \cup cs
      BY <2>2, <3>1
    <3> QED
      BY <2>1, <3>2, <3>3, <3>4 DEF Claimed
  <2>4. /\ Runs(s, d, c)'
        /\ \A x \in Cid : Runs(s, d, x)' => x = c
        /\ \A r \in Conn \ {s}, x \in Cid : Runs(r, d, x)' <=> Runs(r, d, x)
    BY <1>0, <1>1, <1>6 DEF Runs, At, Dev
  <2>5. entries'[d][c] = [state |-> "running", op |-> o, kept |-> {},
                          old |-> FALSE]
    BY <1>1, <2>1 DEF Claimed
  <2>6. \A r \in Conn \ {s} : ask'[r] = ask[r]
    BY <1>1 DEF Works
  <2>7. ask'[s].op = o
    BY <1>1 DEF Works
  <2>8. \A r \in Conn, x \in Cid : Runs(r, d, x)' =>
            entries'[d][x].state = "running" /\ entries'[d][x].op = ask'[r].op
    <3> SUFFICES ASSUME NEW r \in Conn, NEW x \in Cid, Runs(r, d, x)'
                 PROVE  /\ entries'[d][x].state = "running"
                        /\ entries'[d][x].op = ask'[r].op
      OBVIOUS
    <3>1. CASE r = s
      BY <2>4, <2>5, <2>7, <3>1
    <3>2. CASE r # s
      BY <1>6, <2>3, <2>4, <2>6, <3>2 DEF Sound
    <3> QED
      BY <3>1, <3>2
  <2>9. \A r, q \in Conn, x \in Cid :
            Runs(r, d, x)' /\ Runs(q, d, x)' => r = q
    BY <1>6, <2>3, <2>4 DEF Sound
  <2>10. \A x \in Cid :
            entries'[d][x].state = "running" => \E r \in Conn : Runs(r, d, x)'
    <3> SUFFICES ASSUME NEW x \in Cid, entries'[d][x].state = "running",
                        x # c
                 PROVE  \E r \in Conn : Runs(r, d, x)'
      BY <2>4
    <3>1. entries[d][x].state = "running"
      BY <2>1 DEF Claimed, NoEntry
    <3>2. PICK r \in Conn : Runs(r, d, x)
      BY <1>6, <3>1 DEF Sound
    <3>3. r # s
      BY <2>3, <3>2
    <3> QED
      BY <2>4, <3>2, <3>3
  <2>11. \A x \in Cid : entries'[d][x].kept \subseteq {entries'[d][x].op}
    BY <1>6, <2>1 DEF Claimed, NoEntry, Sound
  <2>12. \A r \in Conn : At(r, "answering")' /\ Dev(r)' = d =>
            said'[r] \subseteq {ask'[r].op}
    BY <1>0, <1>1, <1>6 DEF Works, At, Dev, Sound
  <2> QED
    BY <2>8, <2>9, <2>10, <2>11, <2>12 DEF Sound
<1>7. ASSUME Sound(d), Verdict(d, c, o) # "new"
      PROVE  Sound(d)'
  <2>1. Dropped(d, Lapsed(entries[d]))
    BY <1>2, <1>7
  <2>2. \A r \in Conn, x \in Cid : Runs(r, d, x)' <=> Runs(r, d, x)
    BY <1>0, <1>1, <1>7 DEF Works, Runs, At, Dev
  <2>3. \A r \in Conn, x \in Cid : Runs(r, d, x) =>
            ask'[r] = ask[r] /\ entries'[d][x] = entries[d][x]
    BY <1>0, <1>1, <1>7, <2>1
    DEF Works, Runs, At, Sound, Dropped, Lapsed, Finished
  <2>4. \A x \in Cid : \/ entries'[d][x] = entries[d][x]
                       \/ entries'[d][x] = NoEntry
    BY <2>1 DEF Dropped
  <2>5. said'[s] \subseteq {o}
    <3>1. Verdict(d, c, o) = "done" => entries[d][c].op = o
      BY DEF Verdict, Known, Lasting, Without, NoEntry, Conflicts
    <3> QED
      BY <1>1, <1>7, <3>1 DEF Sound
  <2>6. \A r \in Conn : At(r, "answering")' /\ Dev(r)' = d =>
            said'[r] \subseteq {ask'[r].op}
    BY <1>0, <1>1, <1>7, <2>5 DEF Works, At, Dev, Sound
  <2>7. \A r \in Conn, x \in Cid : Runs(r, d, x)' =>
            entries'[d][x].state = "running" /\ entries'[d][x].op = ask'[r].op
    BY <1>7, <2>2, <2>3 DEF Sound
  <2>8. \A r, q \in Conn, x \in Cid :
            Runs(r, d, x)' /\ Runs(q, d, x)' => r = q
    BY <1>7, <2>2 DEF Sound
  <2>9. \A x \in Cid :
            entries'[d][x].state = "running" => \E r \in Conn : Runs(r, d, x)'
    BY <1>7, <2>2, <2>4 DEF Sound, NoEntry
  <2>10. \A x \in Cid : entries'[d][x].kept \subseteq {entries'[d][x].op}
    BY <1>7, <2>4 DEF Sound, NoEntry
  <2> QED
    BY <2>6, <2>7, <2>8, <2>9, <2>10 DEF Sound
<1>8. WorkInv'
  BY <1>4, <1>5, <1>6, <1>7 DEF Inv, WorkInv
<1>9. FreshBlank'
  <2>1. file[d] \notin Unsettled
    BY <1>1 DEF Inv, BaseInv, Standing, LiveSteps
  <2> QED
    BY <1>2, <1>3, <2>1 DEF FreshBlank, Inv
<1>10. CutByPerson'
  BY <1>3, <1>4, PersonStays DEF Inv
<1> QED
  BY <1>1, <1>8, <1>9, <1>10 DEF Inv

LEMMA FinishCommandKeepsInv ==
    ASSUME Inv, NEW s \in Conn, FinishCommand(s),
           NEW d \in Device, NEW c \in Cid, NEW o \in Op,
           d = Dev(s), c = ask[s].cid, o = ask[s].op
    PROVE  Inv'
<1>1. /\ job[s].at = "running" /\ job[s].dev = d
      /\ BaseInv' /\ Finish(d, c, o)
      /\ Works(s, "answering") /\ said'[s] = {o}
  <2>1. BaseInv
    BY DEF Inv
  <2> QED
    BY <2>1, FinishCommandDoes DEF Dev
<1>0. /\ job'[s].at = "answering" /\ job'[s].dev = d
      /\ ask'[s] = ask[s] /\ ask'[s].cid = c /\ ask'[s].op = o
      /\ \A r \in Conn \ {s} :
            job'[r] = job[r] /\ ask'[r] = ask[r] /\ said'[r] = said[r]
  <2>1. /\ job'[s].at = "answering" /\ job'[s].dev = Dev(s)
        /\ ask'[s] = ask[s]
        /\ \A r \in Conn \ {s} :
              job'[r] = job[r] /\ ask'[r] = ask[r] /\ said'[r] = said[r]
    BY <1>1 DEF Works
  <2> QED
    BY <2>1
<1>2. FileMoves /\ file' = file /\ PersonStill
  <2>1. file' = file /\ PersonStill
    BY <1>1, Zenon DEF Works
  <2> QED
    BY <2>1, SameFileMoves
<1>3. /\ entries[d][c].state # "running" => UNCHANGED commands
      /\ entries[d][c].state = "running" =>
           \E k \in {{}, {o}}, gone \in SUBSET Kept :
              FinishedWith(d, c, k, gone)
  <2>1. CASE entries[d][c].state = "running"
    <3>1. \/ FinishedWith(d, c, {}, {})
          \/ FinishedWith(d, c, {o}, {})
          \/ \E x \in Kept : FinishedWith(d, c, {o}, {x})
      BY <1>1, <2>1, FinishShape DEF Inv, BaseInv
    <3> QED
      BY <2>1, <3>1
  <2> QED
    BY <1>1, <2>1 DEF Finish
<1>4. ASSUME NEW b \in Device, Cut(b)
      PROVE  Cut(b)'
  <2>1. job[s].at \in Busy
    BY <1>1 DEF Busy
  <2> QED
    BY <1>1, <1>2, <1>4, <2>1, CutStays DEF Works, Dev
<1>5. ASSUME NEW b \in Device \ {d}, Sound(b)
      PROVE  Sound(b)'
  <2>1. SameRuns(b)
    BY <1>1, <1>5 DEF Works, SameRuns
  <2>2. SameLedger(b)
    <3>1. CASE UNCHANGED commands
      BY <3>1 DEF SameLedger, commands
    <3>2. ASSUME NEW k, NEW gone, FinishedWith(d, c, k, gone)
          PROVE  SameLedger(b)
      <4>1. ASSUME NEW x \in Cid
            PROVE  /\ entries'[b][x].state = entries[b][x].state
                   /\ entries'[b][x].op = entries[b][x].op
                   /\ \/ entries'[b][x].kept = {}
                      \/ entries'[b][x].kept = entries[b][x].kept
        BY <1>5, <3>2 DEF FinishedWith
      <4> QED
        BY <4>1 DEF SameLedger
    <3> QED
      BY <1>3, <3>1, <3>2
  <2> QED
    BY <1>5, <2>1, <2>2, SoundStays
<1>6. ASSUME Sound(d)
      PROVE  Sound(d)'
  <2>1. Runs(s, d, c) /\ entries[d][c].state = "running"
        /\ entries[d][c].op = o
    BY <1>1, <1>6 DEF Runs, At, Sound
  <2>2. PICK k \in {{}, {o}}, gone \in SUBSET Kept :
            FinishedWith(d, c, k, gone)
    BY <1>3, <2>1
  <2>3. \A r \in Conn, x \in Cid :
            Runs(r, d, x)' <=> r # s /\ Runs(r, d, x)
    BY <1>0, <1>1 DEF Works, Runs, At, Dev
  <2>4. \A r \in Conn, x \in Cid : r # s /\ Runs(r, d, x) =>
            x # c /\ ask'[r] = ask[r]
    BY <1>0, <1>1, <1>6, <2>1 DEF Works, Sound
  <2>5. \A r \in Conn, x \in Cid : Runs(r, d, x)' =>
            entries'[d][x].state = "running" /\ entries'[d][x].op = ask'[r].op
    <3> SUFFICES ASSUME NEW r \in Conn, NEW x \in Cid, Runs(r, d, x)'
                 PROVE  /\ entries'[d][x].state = "running"
                        /\ entries'[d][x].op = ask'[r].op
      OBVIOUS
    <3>1. Runs(r, d, x) /\ x # c /\ ask'[r] = ask[r]
      BY <2>3, <2>4
    <3>2. entries[d][x].state = "running" /\ entries[d][x].op = ask[r].op
      BY <1>6, <3>1 DEF Sound
    <3> QED
      BY <2>2, <3>1, <3>2 DEF FinishedWith
  <2>6. \A r, q \in Conn, x \in Cid :
            Runs(r, d, x)' /\ Runs(q, d, x)' => r = q
    BY <1>6, <2>3 DEF Sound
  <2>7. \A x \in Cid :
            entries'[d][x].state = "running" => \E r \in Conn : Runs(r, d, x)'
    <3> SUFFICES ASSUME NEW x \in Cid, entries'[d][x].state = "running"
                 PROVE  \E r \in Conn : Runs(r, d, x)'
      OBVIOUS
    <3>1. x # c /\ entries[d][x].state = "running"
      BY <1>1, <2>2 DEF FinishedWith
    <3>2. PICK r \in Conn : Runs(r, d, x)
      BY <1>6, <3>1 DEF Sound
    <3>3. r # s
      BY <3>1, <3>2 DEF Runs
    <3> QED
      BY <2>3, <3>2, <3>3
  <2>8. \A x \in Cid : entries'[d][x].kept \subseteq {entries'[d][x].op}
    <3> SUFFICES ASSUME NEW x \in Cid
                 PROVE  entries'[d][x].kept \subseteq {entries'[d][x].op}
      OBVIOUS
    <3>1. entries'[d][x].op = entries[d][x].op
      BY <2>2 DEF FinishedWith
    <3>2. entries[d][x].kept \subseteq {entries[d][x].op}
      BY <1>6 DEF Sound
    <3>3. CASE x = c
      <4>1. entries'[d][x].kept = k
        BY <2>2, <3>3 DEF FinishedWith
      <4> QED
        BY <2>1, <3>1, <3>3, <4>1
    <3>4. CASE x # c
      <4>1. entries'[d][x].kept \subseteq entries[d][x].kept
        BY <2>2, <3>4 DEF FinishedWith
      <4> QED
        BY <3>1, <3>2, <4>1
    <3> QED
      BY <3>3, <3>4
  <2>9. \A r \in Conn : At(r, "answering")' /\ Dev(r)' = d =>
            said'[r] \subseteq {ask'[r].op}
    BY <1>0, <1>1, <1>6 DEF Works, At, Dev, Sound
  <2> QED
    BY <2>5, <2>6, <2>7, <2>8, <2>9 DEF Sound
<1>7. WorkInv'
  BY <1>4, <1>5, <1>6 DEF Inv, WorkInv
<1>8. FreshBlank'
  <2>1. file[d] \notin Unsettled
    BY <1>1 DEF Inv, BaseInv, Standing, LiveSteps
  <2>2. CASE UNCHANGED commands
    BY <1>2, <2>2 DEF FreshBlank, Inv, commands
  <2>3. ASSUME NEW k, NEW gone \in SUBSET Kept, FinishedWith(d, c, k, gone)
        PROVE  FreshBlank'
    <3> SUFFICES ASSUME NEW b \in Device, file'[b] \in Unsettled,
                        NEW x \in Cid
                 PROVE  entries'[b][x] = NoEntry
      BY DEF FreshBlank
    <3>1. b # d /\ entries[b][x] = NoEntry
      BY <1>2, <2>1 DEF FreshBlank, Inv
    <3>2. <<b, x>> \notin gone
      BY <3>1 DEF Kept, NoEntry
    <3>3. /\ entries'[b][x].state = "none" /\ entries'[b][x].op = "none"
          /\ entries'[b][x].old = FALSE /\ entries'[b][x].kept = {}
      BY <2>3, <3>1, <3>2 DEF FinishedWith, NoEntry
    <3>4. entries'[b][x] \in Entries
      BY <1>1 DEF BaseInv, LedgerInv, EntriesTyped
    <3> QED
      BY <3>3, <3>4 DEF Entries, NoEntry
  <2> QED
    BY <1>3, <2>2, <2>3
<1>9. CutByPerson'
  BY <1>2, <1>4, PersonStays DEF Inv
<1> QED
  BY <1>1, <1>7, <1>8, <1>9 DEF Inv
-----------------------------------------------------------------------------
(* The invariant, and what follows from it. *)

LEMMA StutterIsQuiet ==
    ASSUME BaseInv, UNCHANGED vars
    PROVE  Quiet
<1>1. /\ UNCHANGED registry /\ UNCHANGED pairing
      /\ UNCHANGED <<commands, job, ask, said, ended, line, asks>>
  BY DEF vars, sessions
<1>2. RegistryInv' /\ FileMoves /\ PairingTypeOK'
  BY <1>1, UnchangedRegistryKeeps, SameFileMoves, UnchangedPairingKeeps
  DEF BaseInv
<1>3. SessionsTyped'
  BY <1>1 DEF BaseInv, JobInv, SessionsTyped
<1> QED
  BY <1>1, <1>2, <1>3, NobodyMoves

LEMMA InitIsInv ==
    ASSUME Init
    PROVE  Inv
<1>1. RegistryInv
  BY DEF Init, RegistryInit, RegistryInv, RegistryTypeOK, SeenIsFile, Statuses
<1>2. PairingTypeOK
  BY DEF Init, PairingInit, NoWindow, PairingTypeOK
<1>3. LedgerInv
  BY BlankIsHonest DEF Init, LedgerInit
<1>4. \A t \in Thread : job[t] = Idle /\ job[t].at = "idle"
  BY IdleIsJob DEF Init
<1>5. JobInv
  <2>1. SessionsTyped
    BY LinkAssumption DEF Init, SessionsTyped, NoAsk
  <2>2. Placed
    BY <1>4 DEF Placed, Asking, Thread
  <2>3. job \in [Thread -> Jobs]
    BY IdleIsJob DEF Init
  <2> QED
    BY <2>1, <2>2, <2>3 DEF JobInv
<1>6. Standing /\ CutByPerson
  BY <1>4 DEF Standing, CutByPerson, LiveSteps, Thread
<1>7. \A d \in Device, c \in Cid : entries[d][c] = NoEntry
  BY DEF Init, LedgerInit
<1>8. ASSUME NEW d \in Device
      PROVE  Sound(d)
  <2>1. \A s \in Conn : ~At(s, "running") /\ ~At(s, "answering")
    BY <1>4 DEF At, Thread
  <2> QED
    BY <1>7, <2>1 DEF Sound, Runs, NoEntry
<1> QED
  BY <1>1, <1>2, <1>3, <1>5, <1>6, <1>7, <1>8
  DEF Inv, BaseInv, WorkInv, FreshBlank

LEMMA NextKeepsInv ==
    ASSUME Inv, [Next]_vars
    PROVE  Inv'
<1>0. BaseInv
  BY DEF Inv
<1>1. ASSUME NEW t \in Thread, Cancel(t)
      PROVE  Inv'
  BY <1>0, <1>1, CancelDropIsQuiet, CancelLookIsQuiet, CancelRemoveIsQuiet,
     QuietKeepsInv DEF Cancel
<1>2. CASE Sweep \/ AskPairing
  BY <1>0, <1>2, SweepIsQuiet, AskPairingIsQuiet, QuietKeepsInv
<1>3. CASE EndSessions
  BY <1>3, EndSessionsKeepsInv
<1>4. CASE ForgetDevice
  BY <1>4, ForgetDeviceKeepsInv
<1>5. CASE RestartLink
  BY <1>5, RestartLinkKeepsInv
<1>6. ASSUME NEW d \in Device, Offer(d) \/ Revoke(d)
      PROVE  Inv'
  BY <1>0, <1>6, OfferIsQuiet, RevokeIsQuiet, QuietKeepsInv
<1>7. ASSUME NEW s \in Conn, Serve(s)
      PROVE  Inv'
  <2>1. CASE CompletePairing(s) \/ Activate(s) \/ Mark(s) \/ Touch(s)
    BY <1>0, <2>1, CompletePairingIsQuiet, ActivateIsQuiet, MarkIsQuiet,
       TouchIsQuiet, QuietKeepsInv
  <2>2. CASE Register(s) \/ HangUp(s)
    BY <1>0, <2>2, RegisterIsQuiet, HangUpIsQuiet, QuietKeepsInv
  <2>3. CASE CheckValid(s)
    BY <2>3, CheckValidKeepsInv
  <2>4. CASE BeginCommand(s)
    <3>1. Dev(s) \in Device /\ ask[s].cid \in Cid /\ ask[s].op \in Op
      BY <1>0, <2>4, BeginCommandDoes
    <3> QED
      BY <2>4, <3>1, BeginCommandKeepsInv
  <2>5. CASE FinishCommand(s)
    <3>1. Dev(s) \in Device /\ ask[s].cid \in Cid /\ ask[s].op \in Op
      BY <1>0, <2>5, FinishCommandDoes
    <3> QED
      BY <2>5, <3>1, FinishCommandKeepsInv
  <2>6. CASE Send(s)
    BY <2>6, SendKeepsInv
  <2> QED
    BY <1>7, <2>1, <2>2, <2>3, <2>4, <2>5, <2>6 DEF Serve
<1>8. ASSUME NEW s \in Conn, Phone(s)
      PROVE  Inv'
  BY <1>0, <1>8, ConnectIsQuiet, AskIsQuiet, DropLineIsQuiet, QuietKeepsInv
  DEF Phone
<1>9. CASE Outside
  <2>1. ASSUME NEW d \in Device, NEW c \in Cid, Age(d, c),
               UNCHANGED <<registry, pairing, job, sessions>>
        PROVE  Inv'
    BY <2>1, AgeKeepsInv
  <2> QED
    BY <1>0, <1>9, <2>1, OutsideIsQuiet, QuietKeepsInv DEF Outside
<1>10. CASE UNCHANGED vars
  BY <1>0, <1>10, StutterIsQuiet, QuietKeepsInv
<1> QED
  BY <1>1, <1>2, <1>3, <1>4, <1>5, <1>6, <1>7, <1>8, <1>9, <1>10 DEF Next

\* The invariant holds in every state of the link.
THEOREM InvariantHolds == Spec => []Inv
<1>1. Init => Inv
  BY InitIsInv
<1>2. Inv /\ [Next]_vars => Inv'
  BY NextKeepsInv
<1> QED
  BY <1>1, <1>2, PTL DEF Spec

\* Whatever the devices, commands, connections and limits are, the variables
\* of the link hold what the code can put in them.
THEOREM LinkTypeCorrect == Spec => []TypeOK
<1>1. Inv => TypeOK
  <2> SUFFICES ASSUME Inv
               PROVE  TypeOK
    OBVIOUS
  <2>1. RegistryTypeOK /\ PairingTypeOK
    BY DEF Inv, BaseInv, RegistryInv
  <2>2. LedgerTypeOK
    BY KeptFinite
    DEF Inv, BaseInv, LedgerInv, EntriesTyped, Account, LedgerTypeOK
  <2> QED
    BY <2>1, <2>2 DEF Inv, BaseInv, JobInv, Jobs, SessionsTyped, TypeOK
<1> QED
  BY <1>1, InvariantHolds, PTL

\* The account of the kept answers is true and within the budget, for any
\* budget (CommandLedger._retained).
THEOREM RetainedCorrect == Spec => []RetainedHonest
<1>1. Inv => RetainedHonest
  BY DEF Inv, BaseInv, LedgerInv, Account, Kept, RetainedHonest
<1> QED
  BY <1>1, InvariantHolds, PTL

\* A phone is sent the answer to what it asked and no other, however many
\* connections and devices there are (CommandLedger.begin, _respond).
THEOREM AnswerIsOwnCorrect == Spec => []AnswerIsOwn
<1>1. Inv => AnswerIsOwn
  <2> SUFFICES ASSUME Inv, NEW s \in line \ ended, At(s, "answering")
               PROVE  said[s] \subseteq {ask[s].op}
    BY DEF AnswerIsOwn
  <2>1. s \in Conn
    BY DEF Inv, BaseInv, JobInv, SessionsTyped
  <2>2. Dev(s) \in Device
    BY <2>1 DEF Inv, BaseInv, JobInv, Placed, At, Thread
  <2>3. ~Cut(Dev(s))
    BY <2>1 DEF Cut, At, Busy
  <2> QED
    BY <2>1, <2>2, <2>3 DEF Inv, WorkInv, Sound
<1> QED
  BY <1>1, InvariantHolds, PTL
\* No device becomes unknown again and none comes back, and at most one device
\* changes at a time, but for the restart of the link.
OneFile ==
    \/ file' = file
    \/ \E d \in Device :
          /\ \A b \in Device \ {d} : file'[b] = file[b]
          /\ \/ file'[d] = file[d]
             \/ file'[d] \in Off
             \/ file[d] = "pending" /\ file'[d] = "active"
             \/ file[d] = "absent" /\ file'[d] = "pending"

LEMMA OneFileMoves ==
    ASSUME OneFile
    PROVE  FileMoves
  BY DEF OneFile, FileMoves, Off, Unsettled

\* A change of the record of one device, as the registry makes it.
LEMMA ChangesOneFile ==
    ASSUME RegistryInv, NEW d \in Device, NEW st \in Statuses, Change(d, st),
           \/ st = file[d] \/ st \in Off
           \/ file[d] \in {"pending", "active"} /\ st = "active"
           \/ file[d] = "absent" /\ st = "pending"
    PROVE  OneFile
  BY ChangeKeeps DEF OneFile

LEMMA NextChangesOneFile ==
    ASSUME BaseInv, [Next]_vars, ~RestartLink
    PROVE  OneFile
<1>0. RegistryInv /\ Statuses = {"absent", "pending", "active"} \cup Off
  BY DEF BaseInv, Statuses, Off
<1>1. ASSUME NEW t \in Thread, Cancel(t)
      PROVE  OneFile
  <2>1. CASE CancelDrop(t)
    BY <2>1 DEF CancelDrop, registry, OneFile
  <2>2. CASE CancelLook(t)
    BY <2>2 DEF CancelLook, Look, OneFile
  <2>3. CASE CancelRemove(t)
    <3>1. Dev(t) \in Device
      BY <2>3 DEF CancelRemove, At, BaseInv, JobInv, Placed
    <3>2. "gone" \in Statuses /\ "gone" \in Off
      BY DEF Statuses, Off
    <3>3. Change(Dev(t), "gone") \/ Reload
      BY <2>3 DEF CancelRemove
    <3> QED
      BY <1>0, <3>1, <3>2, <3>3, ChangesOneFile DEF Reload, OneFile
  <2> QED
    BY <1>1, <2>1, <2>2, <2>3 DEF Cancel
<1>2. CASE \/ Sweep \/ AskPairing \/ EndSessions \/ ForgetDevice
           \/ UNCHANGED vars
  BY <1>2
  DEF Sweep, AskPairing, EndSessions, ForgetDevice, vars, registry, OneFile
<1>3. ASSUME NEW d \in Device, Offer(d) \/ Revoke(d)
      PROVE  OneFile
  <2>1. /\ "pending" \in Statuses /\ "revoked" \in Statuses
        /\ "revoked" \in Off
    BY DEF Statuses, Off
  <2>2. \/ Change(d, "pending") /\ file[d] = "absent"
        \/ Change(d, "revoked")
    BY <1>3 DEF Offer, Revoke, Fresh
  <2> QED
    BY <1>0, <2>1, <2>2, ChangesOneFile
<1>4. ASSUME NEW s \in Conn, Serve(s)
      PROVE  OneFile
  <2>1. CASE Activate(s)
    <3>1. Dev(s) \in Device
      BY <2>1 DEF Activate, At, BaseInv, JobInv, Placed, Thread
    <3>2. \/ Change(Dev(s), "active") /\ file[Dev(s)] \in {"pending", "active"}
          \/ Reload
      BY <2>1 DEF Activate, Fresh
    <3>3. "active" \in Statuses
      BY DEF Statuses
    <3> QED
      BY <1>0, <3>1, <3>2, <3>3, ChangesOneFile DEF Reload, OneFile
  <2>2. CASE Touch(s)
    <3>1. Dev(s) \in Device
      BY <2>2 DEF Touch, At, BaseInv, JobInv, Placed, Thread
    <3>2. Change(Dev(s), file[Dev(s)]) \/ Reload
      BY <2>2 DEF Touch, Fresh
    <3>3. file[Dev(s)] \in Statuses
      BY <1>0, <3>1 DEF RegistryInv, RegistryTypeOK
    <3> QED
      BY <1>0, <3>1, <3>2, <3>3, ChangesOneFile DEF Reload, OneFile
  <2>3. CASE CompletePairing(s)
    BY <2>3 DEF CompletePairing, Look, registry, OneFile
  <2>4. CASE CheckValid(s)
    BY <2>4 DEF CheckValid, Look, OneFile
  <2>5. CASE \/ Mark(s) \/ Register(s) \/ BeginCommand(s) \/ FinishCommand(s)
             \/ Send(s) \/ HangUp(s)
    BY <2>5
    DEF Mark, Register, BeginCommand, FinishCommand, Send, HangUp, registry,
        OneFile
  <2> QED
    BY <1>4, <2>1, <2>2, <2>3, <2>4, <2>5 DEF Serve
<1>5. ASSUME NEW s \in Conn, Phone(s)
      PROVE  OneFile
  BY <1>5 DEF Phone, Connect, Look, Ask, DropLine, registry, OneFile
<1>6. CASE Outside
  <2>1. ASSUME NEW d \in Device, RevokeElsewhere(d)
        PROVE  OneFile
    BY <1>0, <2>1, RevokeElsewhereKeeps DEF OneFile, Off
  <2> QED
    BY <1>6, <2>1 DEF Outside, registry, OneFile
<1> QED
  BY <1>1, <1>2, <1>3, <1>4, <1>5, <1>6 DEF Next

\* A device that is revoked or removed stays so, whatever the other processes
\* and threads were about to write (DeviceRegistry._changing).
THEOREM RevocationCorrect == Spec => RevocationIsFinal
<1>1. Inv /\ [Next]_vars =>
          [\A d \in Device : file[d] \in {"revoked", "gone"} =>
               file'[d] \in {"revoked", "gone"}]_vars
  <2> SUFFICES ASSUME Inv, [Next]_vars
               PROVE  FileMoves
    BY DEF FileMoves, Off
  <2>1. CASE RestartLink
    BY <2>1, RestartLinkDoes DEF Inv
  <2>2. CASE ~RestartLink
    BY <2>2, NextChangesOneFile, OneFileMoves DEF Inv
  <2> QED
    BY <2>1, <2>2
<1> QED
  BY <1>1, InvariantHolds, PTL DEF Spec, RevocationIsFinal

\* A request is let through for an active device only, in any session
\* (LinkServer._still_valid).
THEOREM RefusalCorrect == Spec => RevokedIsRefused
<1> DEFINE Let(s) == At(s, "asked") /\ job'[s].at = "valid"
<1>1. Inv /\ [Next]_vars =>
          [\A s \in Conn : Let(s) => file[Dev(s)] = "active"]_vars
  <2> SUFFICES ASSUME Inv, [Next]_vars, NEW s \in Conn, Let(s)
               PROVE  file[Dev(s)] = "active"
    OBVIOUS
  <2>0. BaseInv
    BY DEF Inv
  <2>1. ~SameWork
    BY DEF SameWork, At, Busy
  <2>2. ASSUME NEW r \in Conn, NEW a, Works(r, a)
        PROVE  r = s /\ a = "valid"
    BY <2>2 DEF Works, At
  <2>3. ~Quiet
    BY <2>1 DEF Quiet
  <2>4. PICK r \in Conn : \/ CheckValid(r) \/ BeginCommand(r)
                          \/ FinishCommand(r) \/ Send(r)
    <3>1. ~(\E t \in Thread : Cancel(t))
      BY <2>0, <2>3, CancelDropIsQuiet, CancelLookIsQuiet,
         CancelRemoveIsQuiet DEF Cancel
    <3>2. ~(Sweep \/ AskPairing \/ EndSessions \/ ForgetDevice)
      BY <2>0, <2>1, <2>3, SweepIsQuiet, AskPairingIsQuiet,
         EndSessionsCuts, ForgetDeviceDoes
    <3>3. ~RestartLink
      <4>1. RestartLink => job'[s].at = "idle"
        BY <2>0, RestartLinkDoes, IdleIsJob DEF Thread
      <4> QED
        BY <4>1
    <3>4. ~(\E d \in Device : Offer(d) \/ Revoke(d))
      BY <2>0, <2>3, OfferIsQuiet, RevokeIsQuiet
    <3>5. ~Outside
      <4>1. UNCHANGED job => SameWork \/ job'[s] = job[s]
        OBVIOUS
      <4> QED
        BY <4>1, <2>0, <2>3, OutsideIsQuiet DEF Outside, At
    <3>6. ~(\E q \in Conn : Phone(q))
      BY <2>0, <2>3, ConnectIsQuiet, AskIsQuiet, DropLineIsQuiet DEF Phone
    <3>7. ~UNCHANGED vars
      BY DEF vars, At
    <3>8. PICK q \in Conn : Serve(q)
      BY <3>1, <3>2, <3>3, <3>4, <3>5, <3>6, <3>7 DEF Next
    <3> QED
      BY <2>0, <2>3, <3>8, CompletePairingIsQuiet, ActivateIsQuiet,
         MarkIsQuiet, TouchIsQuiet, RegisterIsQuiet, HangUpIsQuiet DEF Serve
  <2>5. CASE CheckValid(r)
    BY <2>0, <2>2, <2>3, <2>5, CheckValidDoes
  <2>6. CASE BeginCommand(r)
    BY <2>0, <2>2, <2>6, BeginCommandDoes
  <2>7. CASE FinishCommand(r)
    BY <2>0, <2>2, <2>7, FinishCommandDoes
  <2>8. CASE Send(r)
    BY <2>0, <2>8, SendDoes DEF At, Busy
  <2> QED
    BY <2>4, <2>5, <2>6, <2>7, <2>8
<1> QED
  BY <1>1, InvariantHolds, PTL DEF Spec, RevokedIsRefused
-----------------------------------------------------------------------------
(* The pairing window and the pending device. *)

\* Places of a thread at work on the window, or about to open one.
Cares == {"look", "remove", "offer", "marking"}

\* Nobody could pair with the window that is on the screen.
NothingOpen == window.dev = NoDevice \/ window.used

BeingDropped(d) ==
    \E t \in Thread : job[t].at \in {"look", "remove"} /\ Dev(t) = d
BeingPaired(d) ==
    \E t \in Thread : job[t].at = "marking" /\ Dev(t) = d

\* A window is of a device that exists, and a used one of a paired device.  A
\* thread that closes a window has taken it off the screen, and the person
\* opens one only when nothing is open.  A pending device is on the screen,
\* was replaced there, or is being dropped, and an open window is of a pending
\* device, a revoked one, or one whose pairing is being completed.
OfferInv ==
    /\ window.dev \in Device =>
          /\ file[window.dev] # "absent"
          /\ window.used => file[window.dev] \notin Unsettled
    /\ \A t \in Thread :
          job[t].at \in {"look", "remove"} =>
              /\ file[Dev(t)] # "absent"
              /\ window.dev = Dev(t) => window.used
    /\ job[Person].at \in {"look", "remove", "offer"} => NothingOpen
    /\ \A d \in Device :
          /\ file[d] = "pending" =>
                window.dev = d \/ d \in overwritten \/ BeingDropped(d)
          /\ window.dev = d /\ ~window.used =>
                file[d] \in {"pending", "revoked"} \/ BeingPaired(d)

\* Threads that have nothing to do with the window may move.
OthersMove ==
    \A t \in Thread : \/ job'[t] = job[t]
                      \/ job[t].at \notin Cares /\ job'[t].at \notin Cares

\* A step that leaves the window as it is, and at most revokes a device.
Elsewhere ==
    /\ window'.dev = window.dev /\ window'.used = window.used
    /\ overwritten' = overwritten
    /\ \A d \in Device : \/ file'[d] = file[d]
                         \/ file[d] # "absent" /\ file'[d] = "revoked"
    /\ OthersMove

LEMMA ElsewhereKeepsOffer ==
    ASSUME BaseInv, OfferInv, Elsewhere
    PROVE  OfferInv'
<1>0. /\ window.dev \in Device \cup {NoDevice}
      /\ \A t \in Thread : job[t].at \in {"look", "remove", "marking"} =>
                              Dev(t) \in Device
  BY DEF BaseInv, PairingTypeOK, JobInv, Placed
<1>1. \A t \in Thread : job'[t].at \in Cares \/ job[t].at \in Cares =>
                           job'[t] = job[t]
  BY DEF Elsewhere, OthersMove
<1>2. window'.dev \in Device =>
          /\ file'[window'.dev] # "absent"
          /\ window'.used => file'[window'.dev] \notin Unsettled
  BY DEF OfferInv, Elsewhere, Unsettled
<1>3. \A t \in Thread :
          job'[t].at \in {"look", "remove"} =>
              /\ file'[job'[t].dev] # "absent"
              /\ window'.dev = job'[t].dev => window'.used
  BY <1>0, <1>1 DEF OfferInv, Elsewhere, Cares, Dev
<1>4. job'[Person].at \in {"look", "remove", "offer"} => NothingOpen'
  BY <1>1 DEF OfferInv, Elsewhere, Cares, Thread, NothingOpen
<1>5. ASSUME NEW d \in Device
      PROVE  /\ file'[d] = "pending" =>
                   window'.dev = d \/ d \in overwritten' \/ BeingDropped(d)'
             /\ window'.dev = d /\ ~window'.used =>
                   file'[d] \in {"pending", "revoked"} \/ BeingPaired(d)'
  <2>1. BeingDropped(d) => BeingDropped(d)'
    BY <1>1 DEF BeingDropped, Cares, Dev
  <2>2. BeingPaired(d) => BeingPaired(d)'
    BY <1>1 DEF BeingPaired, Cares, Dev
  <2> QED
    BY <2>1, <2>2 DEF OfferInv, Elsewhere
<1> QED
  BY <1>2, <1>3, <1>4, <1>5 DEF OfferInv, Dev

LEMMA MovesElsewhere ==
    ASSUME NEW t \in Thread, NEW a, NEW d, Moves(t, a, d),
           job[t].at \notin Cares, a \notin Cares
    PROVE  OthersMove
  BY DEF Moves, OthersMove

LEMMA GoesElsewhere ==
    ASSUME JobInv, NEW t \in Thread, NEW a \in Steps \ Cares, Goes(t, a),
           job[t].at \notin Cares
    PROVE  OthersMove
  BY GoesMoves, MovesElsewhere

LEMMA LeavesElsewhere ==
    ASSUME JobInv, NEW t \in Thread, Leaves(t), job[t].at \notin Cares
    PROVE  OthersMove
<1>1. "idle" \notin Cares
  BY DEF Cares
<1> QED
  BY <1>1, LeavesSteps, MovesElsewhere DEF StepsTo

LEMMA StepsAre ==
    {"idle", "cancel", "pairing", "activating", "touching", "admitted", "open",
     "asked", "valid", "running", "answering", "ending", "forgetting"}
        \subseteq Steps \ Cares
  BY DEF Steps, PairingSteps, CancelSteps, LiveSteps, Cares

LEMMA PersonElsewhere ==
    ASSUME BaseInv, Sweep \/ AskPairing \/ EndSessions \/ ForgetDevice
    PROVE  Elsewhere
<1>1. JobInv /\ Person \in Thread /\ Sweeper \in Thread
  BY DEF BaseInv, Thread
<1>2. UNCHANGED <<window, overwritten, file>>
  BY DEF Sweep, AskPairing, EndSessions, ForgetDevice, registry, pairing
<1>3. OthersMove
  <2>1. CASE Sweep
    BY <1>1, <2>1, GoesElsewhere, StepsAre DEF Sweep, At, Cares
  <2>2. CASE AskPairing
    <3>1. job[Person].at \notin Cares
      BY <2>2 DEF AskPairing, At, Cares
    <3>2. job'[Person].at = "cancel" /\ \A t \in Thread \ {Person} :
                                           job'[t] = job[t]
      BY <1>1, <2>2 DEF AskPairing, JobInv
    <3> QED
      BY <3>1, <3>2 DEF OthersMove, Cares
  <2>3. CASE EndSessions
    BY <1>1, <2>3, GoesElsewhere, StepsAre DEF EndSessions, At, Cares
  <2>4. CASE ForgetDevice
    BY <1>1, <2>4, LeavesElsewhere DEF ForgetDevice, At, Cares
  <2> QED
    BY <2>1, <2>2, <2>3, <2>4
<1> QED
  BY <1>2, <1>3 DEF Elsewhere

LEMMA RevokeElsewhereToo ==
    ASSUME BaseInv, NEW d \in Device, Revoke(d)
    PROVE  Elsewhere
<1>1. JobInv /\ RegistryInv /\ Person \in Thread /\ "revoked" \in Statuses
  BY DEF BaseInv, Thread, Statuses
<1>2. \A b \in Device : file'[b] = IF b = d THEN "revoked" ELSE file[b]
  BY <1>1, ChangeKeeps DEF Revoke
<1>3. file[d] # "absent" /\ UNCHANGED <<window, overwritten>>
  BY DEF Revoke, Exists, Fresh, pairing
<1>4. Moves(Person, "ending", d)
  BY <1>1, StepsAre, GoesForMoves DEF Revoke
<1>5. job[Person].at \notin Cares /\ "ending" \notin Cares
  BY StepsAre DEF Revoke, At, Cares
<1> QED
  BY <1>1, <1>2, <1>3, <1>4, <1>5, MovesElsewhere DEF Elsewhere

LEMMA HandshakeElsewhere ==
    ASSUME BaseInv, NEW s \in Conn,
           \/ \E d \in Device : Connect(s, d)
           \/ CompletePairing(s) \/ Touch(s)
           \/ Activate(s) /\ Fresh[Dev(s)] \notin {"pending", "active"}
    PROVE  Elsewhere
<1>1. JobInv /\ RegistryInv /\ s \in Thread
  BY DEF BaseInv, Thread
<1>2. UNCHANGED <<window, overwritten>>
  BY DEF Connect, CompletePairing, Touch, Activate, pairing
<1>3. job[s].at \notin Cares
  BY DEF Connect, CompletePairing, Touch, Activate, At, Cares
<1>4. CASE \E d \in Device : Connect(s, d)
  <2>1. file' = file
    BY <1>4, <1>1, LookKeeps DEF Connect
  <2>2. job'[s].at \in {"pairing", "touching"}
        /\ \A t \in Thread \ {s} : job'[t] = job[t]
    BY <1>1, <1>4 DEF Connect, JobInv
  <2>3. OthersMove
    BY <1>3, <2>2 DEF OthersMove, Cares
  <2> QED
    BY <1>2, <2>1, <2>3 DEF Elsewhere
<1>5. CASE CompletePairing(s)
  <2>1. file' = file
    BY <1>1, <1>5, LookKeeps DEF CompletePairing, registry
  <2>2. Goes(s, "cancel") \/ Goes(s, "activating") \/ Leaves(s)
    BY <1>5 DEF CompletePairing
  <2>3. OthersMove
    BY <1>1, <1>3, <2>2, GoesElsewhere, LeavesElsewhere, StepsAre
  <2> QED
    BY <1>2, <2>1, <2>3 DEF Elsewhere
<1>6. CASE Touch(s)
  <2>1. Dev(s) \in Device
    BY <1>1, <1>6 DEF Touch, At, JobInv, Placed
  <2>2. file[Dev(s)] \in Statuses
    BY <1>1, <2>1 DEF RegistryInv, RegistryTypeOK
  <2>3. \A b \in Device : file'[b] = file[b]
    BY <1>1, <1>6, <2>1, <2>2, ChangeKeeps, ReloadKeeps DEF Touch, Fresh
  <2>4. Goes(s, "admitted") \/ Leaves(s)
    BY <1>6 DEF Touch
  <2>5. OthersMove
    BY <1>1, <1>3, <2>4, GoesElsewhere, LeavesElsewhere, StepsAre
  <2> QED
    BY <1>2, <2>3, <2>5 DEF Elsewhere
<1>7. CASE Activate(s) /\ Fresh[Dev(s)] \notin {"pending", "active"}
  BY <1>1, <1>2, <1>3, <1>7, ReloadKeeps, LeavesElsewhere
  DEF Activate, Elsewhere
<1> QED
  BY <1>4, <1>5, <1>6, <1>7

LEMMA SessionElsewhere ==
    ASSUME BaseInv, NEW s \in Conn,
           \/ Register(s) \/ CheckValid(s) \/ BeginCommand(s)
           \/ FinishCommand(s) \/ Send(s) \/ HangUp(s)
           \/ \E c \in Cid, o \in Op : Ask(s, c, o)
    PROVE  Elsewhere
<1>1. JobInv /\ RegistryInv /\ s \in Thread
  BY DEF BaseInv, Thread
<1>2. UNCHANGED <<window, overwritten, file>>
  BY <1>1, LookKeeps
  DEF Register, CheckValid, BeginCommand, FinishCommand, Send, HangUp, Ask,
      pairing, registry
<1>3. job[s].at \notin Cares
  BY DEF Register, CheckValid, BeginCommand, FinishCommand, Send, HangUp, Ask,
         At, Cares
<1>4. \/ \E a \in {"open", "asked", "valid", "running", "answering"} :
             Goes(s, a)
      \/ Leaves(s)
  BY DEF Register, CheckValid, BeginCommand, FinishCommand, Send, HangUp, Ask
<1>5. OthersMove
  BY <1>1, <1>3, <1>4, GoesElsewhere, LeavesElsewhere, StepsAre
<1> QED
  BY <1>2, <1>5 DEF Elsewhere

LEMMA OutsideElsewhere ==
    ASSUME BaseInv, Outside \/ (\E s \in Conn : DropLine(s)) \/ UNCHANGED vars
    PROVE  Elsewhere
<1>1. OthersMove
  BY DEF Outside, DropLine, vars, OthersMove
<1>2. RegistryInv
  BY DEF BaseInv
<1>3. CASE Outside
  <2>1. CASE WindowEnds /\ UNCHANGED <<registry, commands, job, sessions>>
    BY <1>1, <2>1
    DEF WindowEnds, registry, Elsewhere, BaseInv, PairingTypeOK
  <2>2. CASE UNCHANGED <<registry, pairing, job, sessions>>
    BY <1>1, <2>2 DEF registry, pairing, Elsewhere
  <2>3. ASSUME NEW d \in Device, RevokeElsewhere(d),
               UNCHANGED <<pairing, commands, job, sessions>>
        PROVE  Elsewhere
    <3>1. file[d] # "absent"
      BY <2>3 DEF RevokeElsewhere
    <3> QED
      BY <1>1, <1>2, <2>3, <3>1, RevokeElsewhereKeeps DEF pairing, Elsewhere
  <2> QED
    BY <1>3, <2>1, <2>2, <2>3 DEF Outside
<1>4. CASE (\E s \in Conn : DropLine(s)) \/ UNCHANGED vars
  BY <1>1, <1>4 DEF DropLine, vars, registry, pairing, Elsewhere
<1> QED
  BY <1>3, <1>4

LEMMA CancelKeepsOffer ==
    ASSUME BaseInv, OfferInv, NEW t \in Thread, Cancel(t)
    PROVE  OfferInv'
<1>0. /\ window.dev \in Device \cup {NoDevice} /\ window.used \in BOOLEAN
      /\ \A u \in Thread : job[u].at \in {"look", "remove", "marking"} =>
                              Dev(u) \in Device
      /\ JobInv /\ RegistryInv /\ NoDevice \notin Device
  BY DeviceAssumption DEF BaseInv, PairingTypeOK, JobInv, Placed
<1>1. CASE CancelDrop(t)
  <2>1. /\ file' = file /\ overwritten' = overwritten
        /\ window'.dev = NoDevice /\ job[t].at = "cancel"
    BY <1>1 DEF CancelDrop, CloseWindow, NoWindow, registry, At
  <2>2. /\ \A u \in Thread \ {t} : job'[u] = job[u]
        /\ \/ /\ window.dev = NoDevice /\ job'[t].at \in {"idle", "offer"}
           \/ /\ window.dev \in Device
              /\ job'[t].at = "look" /\ job'[t].dev = window.dev
    <3>1. CASE window.dev = NoDevice
      BY <1>0, <1>1, <3>1, AfterCancelSteps DEF CancelDrop, StepsTo, Moves
    <3>2. CASE window.dev \in Device
      <4>1. job' = [job EXCEPT ![t].at = "look", ![t].dev = window.dev]
        BY <1>0, <1>1, <3>2 DEF CancelDrop
      <4>2. "look" \in Steps
        BY DEF Steps, PairingSteps, CancelSteps
      <4>3. Moves(t, "look", window.dev)
        BY <1>0, <3>2, <4>1, <4>2, GoesForMoves
      <4> QED
        BY <3>2, <4>3 DEF Moves
    <3> QED
      BY <1>0, <3>1, <3>2
  <2>3. \A u \in Thread :
            job'[u].at \in {"look", "remove"} => file[job'[u].dev] # "absent"
    BY <1>0, <2>2 DEF OfferInv, Dev
  <2>4. ASSUME NEW d \in Device, file[d] = "pending"
        PROVE  d \in overwritten \/ BeingDropped(d)'
    <3>1. CASE window.dev = d
      BY <1>0, <2>2, <3>1 DEF BeingDropped, Dev
    <3>2. CASE BeingDropped(d)
      BY <2>1, <2>2, <3>2 DEF BeingDropped, Dev
    <3> QED
      BY <2>4, <3>1, <3>2 DEF OfferInv
  <2>5. \A u \in Thread : job'[u].at \in {"look", "remove"} =>
                             job'[u].dev # NoDevice
    BY <1>0, <2>2 DEF Dev
  <2> QED
    BY <1>0, <2>1, <2>3, <2>4, <2>5 DEF OfferInv, NothingOpen, Dev
<1>2. ASSUME job[t].at \in {"look", "remove"},
             UNCHANGED <<window, overwritten>>,
             \A d \in Device : \/ file'[d] = file[d]
                               \/ d = Dev(t) /\ file'[d] = "gone",
             NEW a \in {"idle", "offer", "remove"}, NEW e, Moves(t, a, e),
             a = "remove" => e = Dev(t),
             a # "remove" => file'[Dev(t)] # "pending"
      PROVE  OfferInv'
  <2>1. /\ window.dev = Dev(t) => window.used
        /\ file[Dev(t)] # "absent" /\ Dev(t) \in Device
    BY <1>0, <1>2 DEF OfferInv
  <2>2. \A u \in Thread \ {t} : job'[u] = job[u]
    BY <1>2 DEF Moves
  <2>3. window.dev \in Device =>
            /\ file'[window.dev] # "absent"
            /\ window.used => file'[window.dev] \notin Unsettled
    BY <1>2 DEF OfferInv, Unsettled
  <2>4. \A u \in Thread :
            job'[u].at \in {"look", "remove"} =>
                /\ file'[job'[u].dev] # "absent"
                /\ window.dev = job'[u].dev => window.used
    BY <1>0, <1>2, <2>1, <2>2 DEF OfferInv, Dev, Moves
  <2>5. job'[Person].at \in {"look", "remove", "offer"} => NothingOpen
    BY <1>2, <2>2 DEF OfferInv, Thread
  <2>6. ASSUME NEW d \in Device
        PROVE  /\ file'[d] = "pending" =>
                     window.dev = d \/ d \in overwritten \/ BeingDropped(d)'
               /\ window.dev = d /\ ~window.used =>
                     file'[d] \in {"pending", "revoked"} \/ BeingPaired(d)'
    <3>1. BeingDropped(d) /\ file'[d] = "pending" => BeingDropped(d)'
      BY <1>2, <2>2 DEF BeingDropped, Dev, Moves
    <3>2. BeingPaired(d) => BeingPaired(d)'
      BY <1>2, <2>2 DEF BeingPaired, Dev
    <3> QED
      BY <1>2, <2>1, <3>1, <3>2 DEF OfferInv
  <2> QED
    BY <1>2, <2>3, <2>4, <2>5, <2>6 DEF OfferInv, Dev, NothingOpen
<1>3. CASE CancelLook(t)
  <2>1. /\ job[t].at = "look" /\ UNCHANGED <<window, overwritten>>
        /\ file' = file /\ "remove" \in Steps /\ Now = file
    BY <1>0, <1>3, LookKeeps, NowIsFile
    DEF CancelLook, At, pairing, Steps, PairingSteps, CancelSteps
  <2>2. CASE Goes(t, "remove")
    BY <1>0, <1>2, <2>1, <2>2, GoesMoves
  <2>3. CASE file[Dev(t)] # "pending" /\ AfterCancel(t)
    BY <1>0, <1>2, <2>1, <2>3, AfterCancelSteps DEF StepsTo
  <2> QED
    BY <1>3, <2>1, <2>2, <2>3 DEF CancelLook
<1>4. CASE CancelRemove(t)
  <2>1. /\ job[t].at = "remove" /\ UNCHANGED <<window, overwritten>>
        /\ Dev(t) \in Device /\ "gone" \in Statuses
    BY <1>0, <1>4 DEF CancelRemove, At, pairing, Statuses
  <2>2. CASE Change(Dev(t), "gone") /\ AfterCancel(t)
    <3>1. \A b \in Device : file'[b] = IF b = Dev(t) THEN "gone" ELSE file[b]
      BY <1>0, <2>1, <2>2, ChangeKeeps
    <3> QED
      BY <1>0, <1>2, <2>1, <2>2, <3>1, AfterCancelSteps DEF StepsTo
  <2>3. CASE ~Exists(Fresh, Dev(t)) /\ Reload /\ Leaves(t)
    <3>1. file' = file /\ file[Dev(t)] # "pending"
      BY <1>0, <2>3, ReloadKeeps DEF Exists, Fresh
    <3> QED
      BY <1>0, <1>2, <2>1, <2>3, <3>1, LeavesSteps DEF StepsTo
  <2> QED
    BY <1>4, <2>2, <2>3 DEF CancelRemove
<1> QED
  BY <1>1, <1>3, <1>4 DEF Cancel

LEMMA OfferKeepsOffer ==
    ASSUME BaseInv, OfferInv, NEW d \in Device, Offer(d)
    PROVE  OfferInv'
<1>0. /\ window.dev \in Device \cup {NoDevice} /\ JobInv /\ RegistryInv
      /\ \A u \in Thread : job[u].at \in {"look", "remove", "marking"} =>
                              Dev(u) \in Device
      /\ Person \in Thread /\ "pending" \in Statuses
  BY DEF BaseInv, PairingTypeOK, JobInv, Placed, Thread, Statuses
<1>1. \A b \in Device : file'[b] = IF b = d THEN "pending" ELSE file[b]
  BY <1>0, ChangeKeeps DEF Offer
<1>2. /\ window'.dev = d /\ window'.used = FALSE /\ overwritten' = overwritten
      /\ file[d] = "absent" /\ job[Person].at = "offer"
  BY DEF Offer, ShowWindow, At, Fresh
<1>3. job'[Person].at = "idle" /\ \A u \in Thread \ {Person} : job'[u] = job[u]
  BY <1>0, LeavesSteps DEF Offer, StepsTo, Moves
<1>4. NothingOpen
  BY <1>2 DEF OfferInv
<1>5. \A u \in Thread :
          job'[u].at \in {"look", "remove"} =>
              file'[job'[u].dev] # "absent" /\ job'[u].dev # d
  BY <1>0, <1>1, <1>2, <1>3 DEF OfferInv, Dev
<1>6. ASSUME NEW b \in Device, b # d, file[b] = "pending"
      PROVE  b \in overwritten \/ BeingDropped(b)'
  <2>1. window.dev # b
    BY <1>4, <1>6, DeviceAssumption DEF OfferInv, NothingOpen, Unsettled
  <2>2. BeingDropped(b) => BeingDropped(b)'
    BY <1>2, <1>3 DEF BeingDropped, Dev
  <2> QED
    BY <1>6, <2>1, <2>2 DEF OfferInv
<1> QED
  BY <1>1, <1>2, <1>3, <1>5, <1>6 DEF OfferInv, Dev

LEMMA ActivateKeepsOffer ==
    ASSUME BaseInv, OfferInv, NEW s \in Conn, Activate(s),
           Fresh[Dev(s)] \in {"pending", "active"}
    PROVE  OfferInv'
<1>0. /\ window.dev \in Device \cup {NoDevice} /\ JobInv /\ RegistryInv
      /\ \A u \in Thread : job[u].at \in {"look", "remove", "marking"} =>
                              Dev(u) \in Device
      /\ s \in Thread /\ Dev(s) \in Device /\ job[s].at = "activating"
      /\ "active" \in Statuses /\ "marking" \in Steps /\ s # Person
  BY LinkAssumption
  DEF Activate, At, BaseInv, PairingTypeOK, JobInv, Placed, Thread, Statuses,
      Steps, PairingSteps
<1>1. \A b \in Device : file'[b] = IF b = Dev(s) THEN "active" ELSE file[b]
  BY <1>0, ChangeKeeps DEF Activate
<1>2. Moves(s, "marking", Dev(s)) /\ UNCHANGED <<window, overwritten>>
  BY <1>0, GoesMoves DEF Activate, pairing
<1>3. /\ \A u \in Thread \ {s} : job'[u] = job[u]
      /\ job'[s].at = "marking" /\ job'[s].dev = Dev(s)
  BY <1>2 DEF Moves
<1>4. \A u \in Thread :
          job'[u].at \in {"look", "remove"} =>
              /\ file'[job'[u].dev] # "absent"
              /\ window.dev = job'[u].dev => window.used
  BY <1>0, <1>1, <1>3 DEF OfferInv, Dev
<1>5. ASSUME NEW b \in Device
      PROVE  /\ BeingDropped(b) => BeingDropped(b)'
             /\ BeingPaired(b) => BeingPaired(b)'
             /\ b = Dev(s) => BeingPaired(b)'
  BY <1>0, <1>3 DEF BeingDropped, BeingPaired, Dev
<1>6. window.dev \in Device =>
          /\ file'[window.dev] # "absent"
          /\ window.used => file'[window.dev] \notin Unsettled
  BY <1>1 DEF OfferInv, Unsettled
<1>7. job'[Person].at \in {"look", "remove", "offer"} => NothingOpen
  BY <1>0, <1>3 DEF OfferInv, Thread
<1>8. \A b \in Device :
          /\ file'[b] = "pending" =>
                window.dev = b \/ b \in overwritten \/ BeingDropped(b)'
          /\ window.dev = b /\ ~window.used =>
                file'[b] \in {"pending", "revoked"} \/ BeingPaired(b)'
  BY <1>1, <1>5 DEF OfferInv
<1> QED
  BY <1>2, <1>4, <1>6, <1>7, <1>8 DEF OfferInv, Dev, NothingOpen

LEMMA MarkKeepsOffer ==
    ASSUME BaseInv, OfferInv, NEW s \in Conn, Mark(s)
    PROVE  OfferInv'
<1>0. /\ window.dev \in Device \cup {NoDevice} /\ JobInv
      /\ window.used \in BOOLEAN
      /\ \A u \in Thread : job[u].at \in {"look", "remove", "marking"} =>
                              Dev(u) \in Device
      /\ s \in Thread /\ Dev(s) \in Device /\ job[s].at = "marking"
      /\ "admitted" \in Steps /\ s # Person
  BY LinkAssumption, StepsAre
  DEF Mark, At, BaseInv, PairingTypeOK, JobInv, Placed, Thread
<1>1. file' = file /\ file[Dev(s)] \notin Unsettled
  BY <1>0 DEF Mark, registry, BaseInv, Standing
<1>2. /\ window'.dev = Dev(s) /\ window'.used
      /\ overwritten \subseteq overwritten'
      /\ window.dev \notin {Dev(s), NoDevice} /\ ~window.used =>
            window.dev \in overwritten'
  BY DEF Mark, MarkUsed
<1>3. /\ \A u \in Thread \ {s} : job'[u] = job[u]
      /\ job'[s].at = "admitted"
  BY <1>0, GoesMoves DEF Mark, Moves
<1>4. \A u \in Thread :
          job'[u].at \in {"look", "remove"} => file'[job'[u].dev] # "absent"
  BY <1>0, <1>1, <1>3 DEF OfferInv, Dev
<1>5. ASSUME NEW b \in Device, file[b] = "pending"
      PROVE  b \in overwritten' \/ BeingDropped(b)'
  <2>1. CASE window.dev = b
    BY <1>0, <1>1, <1>2, <1>5, <2>1, DeviceAssumption DEF OfferInv, Unsettled
  <2>2. BeingDropped(b) => BeingDropped(b)'
    BY <1>0, <1>3 DEF BeingDropped, Dev
  <2> QED
    BY <1>2, <1>5, <2>1, <2>2 DEF OfferInv
<1> QED
  BY <1>0, <1>1, <1>2, <1>4, <1>5 DEF OfferInv, Dev, NothingOpen, Unsettled

LEMMA RestartKeepsOffer ==
    ASSUME BaseInv, OfferInv, RestartLink
    PROVE  OfferInv'
<1>0. /\ window.dev \in Device \cup {NoDevice} /\ RegistryInv
      /\ NoDevice \notin Device /\ "gone" \in Statuses
  BY DeviceAssumption DEF BaseInv, PairingTypeOK, Statuses
<1>1. /\ window'.dev = NoDevice /\ overwritten' = overwritten
      /\ \A t \in Thread : job'[t].at = "idle"
      /\ \A t \in Thread : job[t].at \notin {"look", "remove"}
  BY DEF RestartLink, NoWindow, Idle, PairingSteps, CancelSteps
<1>2. Person \in Thread
  BY DEF Thread
<1>3. ASSUME NEW b \in Device, file'[b] = "pending"
      PROVE  file[b] = "pending" /\ window.dev # b
  <2>1. CASE window.dev # NoDevice /\ Fresh[window.dev] = "pending"
    BY <1>0, <1>3, <2>1, ChangeKeeps DEF RestartLink
  <2>2. CASE ~(window.dev # NoDevice /\ Fresh[window.dev] = "pending")
    <3>1. file' = file
      BY <1>0, <2>2, ReloadKeeps DEF RestartLink
    <3> QED
      BY <1>0, <1>3, <2>2, <3>1 DEF Fresh
  <2> QED
    BY <2>1, <2>2
<1>4. \A b \in Device : file'[b] = "pending" => b \in overwritten
  BY <1>1, <1>3 DEF OfferInv, BeingDropped
<1> QED
  BY <1>0, <1>1, <1>2, <1>4 DEF OfferInv

\* A pending device is the one on the screen, or was replaced there, once
\* nobody is at work on the window (PairingService, which has no lock).
THEOREM PendingCorrect == Spec => []PendingIsOffered
<1>1. Init => OfferInv
  BY DeviceAssumption
  DEF Init, RegistryInit, PairingInit, NoWindow, Idle, OfferInv, Thread
<1>2. Inv /\ OfferInv /\ [Next]_vars => OfferInv'
  <2> SUFFICES ASSUME Inv, OfferInv, [Next]_vars
               PROVE  OfferInv'
    OBVIOUS
  <2>0. BaseInv
    BY DEF Inv
  <2>1. ASSUME NEW t \in Thread, Cancel(t)
        PROVE  OfferInv'
    BY <2>0, <2>1, CancelKeepsOffer
  <2>2. CASE Sweep \/ AskPairing \/ EndSessions \/ ForgetDevice
    BY <2>0, <2>2, PersonElsewhere, ElsewhereKeepsOffer
  <2>3. CASE RestartLink
    BY <2>0, <2>3, RestartKeepsOffer
  <2>4. ASSUME NEW d \in Device, Offer(d) \/ Revoke(d)
        PROVE  OfferInv'
    BY <2>0, <2>4, OfferKeepsOffer, RevokeElsewhereToo, ElsewhereKeepsOffer
  <2>5. ASSUME NEW s \in Conn, Serve(s)
        PROVE  OfferInv'
    BY <2>0, <2>5, HandshakeElsewhere, SessionElsewhere, ElsewhereKeepsOffer,
       ActivateKeepsOffer, MarkKeepsOffer DEF Serve
  <2>6. ASSUME NEW s \in Conn, Phone(s)
        PROVE  OfferInv'
    BY <2>0, <2>6, HandshakeElsewhere, SessionElsewhere, OutsideElsewhere,
       ElsewhereKeepsOffer DEF Phone
  <2>7. CASE Outside \/ UNCHANGED vars
    BY <2>0, <2>7, OutsideElsewhere, ElsewhereKeepsOffer
  <2> QED
    BY <2>1, <2>2, <2>3, <2>4, <2>5, <2>6, <2>7 DEF Next
<1>3. OfferInv => PendingIsOffered
  BY DEF OfferInv, PendingIsOffered, PairingSteps, CancelSteps,
         BeingDropped, BeingPaired
<1> QED
  BY <1>1, <1>2, <1>3, InvariantHolds, PTL DEF Spec

-----------------------------------------------------------------------------
(* The link does a command once: it implements OnceOnly. *)

\* What the ledger says of a command, and what of a device becomes of it.
View(e) ==
    IF e.state = "running" THEN "running"
    ELSE IF e.state = "done" /\ ~e.old THEN "done" ELSE "unknown"

Outcome(d, c) ==
    IF file[d] \in Unsettled THEN "new"
    ELSE IF file[d] # "active" THEN "struck" ELSE View(entries[d][c])

State == [d \in Device |-> [c \in Cid |-> Fate(d, c)]]
Shown == [d \in Device |-> [c \in Cid |-> Outcome(d, c)]]

\* Of a device that is let in, the ledger knows what the handlers do.
StateShown == State = Shown

LEMMA StateIsShown == Inv => StateShown
<1> SUFFICES ASSUME Inv, NEW d \in Device, NEW c \in Cid
             PROVE  Fate(d, c) = Outcome(d, c)
  BY DEF StateShown, State, Shown
<1>1. CASE file[d] # "active"
  BY <1>1 DEF Fate, Outcome, Unsettled
<1>2. CASE file[d] = "active"
  <2> DEFINE runners == {s \in Conn : Runs(s, d, c)}
  <2>1. Sound(d)
    BY <1>2 DEF Inv, WorkInv, Cut, Off
  <2>2. CASE entries[d][c].state = "running"
    <3>1. PICK s \in Conn : Runs(s, d, c)
      BY <2>1, <2>2 DEF Sound
    <3>2. runners = {s}
      BY <2>1, <3>1 DEF Sound
    <3> QED
      BY <1>2, <2>2, <3>1, <3>2 DEF Fate, Outcome, View, Unsettled
  <2>3. CASE entries[d][c].state # "running"
    <3>1. runners = {}
      BY <2>1, <2>3 DEF Sound
    <3> QED
      BY <1>2, <2>3, <3>1 DEF Fate, Outcome, View, Unsettled
  <2> QED
    BY <2>2, <2>3
<1> QED
  BY <1>1, <1>2

LEMMA StateIsShownNext == Inv' => StateShown'
  BY StateIsShown, PTL

LEMMA InitIsPromised ==
    ASSUME Init
    PROVE  Promise!Init
<1>1. State = Shown
  BY InitIsInv, StateIsShown DEF StateShown
<1>2. ASSUME NEW d \in Device
      PROVE  State[d] \in {Promise!Blank("new"), Promise!Blank("unknown"),
                           Promise!Blank("struck")}
  <2>1. \A c \in Cid : entries[d][c] = NoEntry
    BY DEF Init, LedgerInit
  <2>2. State[d] = [c \in Cid |-> Outcome(d, c)]
    BY <1>1 DEF Shown
  <2>3. CASE file[d] \in Unsettled
    BY <2>2, <2>3 DEF Outcome, Promise!Blank
  <2>4. CASE file[d] \notin Unsettled /\ file[d] # "active"
    BY <2>2, <2>4 DEF Outcome, Promise!Blank
  <2>5. CASE file[d] = "active"
    <3>1. \A c \in Cid : Outcome(d, c) = "unknown"
      BY <2>1, <2>5 DEF Outcome, View, NoEntry, Unsettled
    <3> QED
      BY <2>2, <3>1 DEF Promise!Blank
  <2> QED
    BY <2>3, <2>4, <2>5
<1>3. State \in [Device -> {Promise!Blank("new"), Promise!Blank("unknown"),
                            Promise!Blank("struck")}]
  BY <1>2 DEF State
<1> QED
  BY <1>3 DEF Promise!Init, State
\* The promise sees the outcomes.
LEMMA SeenNow ==
    ASSUME Inv, NEW d \in Device, NEW c \in Cid
    PROVE  State[d][c] = Outcome(d, c)
  BY StateIsShown DEF StateShown, Shown

LEMMA SeenNext ==
    ASSUME Inv', NEW d \in Device, NEW c \in Cid
    PROVE  State'[d][c] = Outcome(d, c)'
  BY StateIsShownNext DEF StateShown, Shown

LEMMA StateTyped ==
    ASSUME Inv'
    PROVE  State' \in [Device -> [Cid -> Promise!States]]
<1>1. State' = Shown'
  BY StateIsShownNext DEF StateShown
<1>2. \A d \in Device, c \in Cid : Outcome(d, c)' \in Promise!States
  BY DEF Outcome, View, Promise!States
<1> QED
  BY <1>1, <1>2 DEF Shown

\* The outcomes of a device stay.
SameOutcomes(d) == \A c \in Cid : Outcome(d, c)' = Outcome(d, c)

LEMMA SameOutcomesSame ==
    ASSUME Inv, Inv', NEW d \in Device, SameOutcomes(d)
    PROVE  State'[d] = State[d]
<1>1. State = Shown /\ State' = Shown'
  BY StateIsShown, StateIsShownNext DEF StateShown
<1>2. /\ State[d] = [c \in Cid |-> Outcome(d, c)]
      /\ State'[d] = [c \in Cid |-> Outcome(d, c)']
  BY <1>1 DEF Shown
<1> QED
  BY <1>2 DEF SameOutcomes

LEMMA AllOutcomesSame ==
    ASSUME Inv, Inv', \A d \in Device : SameOutcomes(d)
    PROVE  UNCHANGED State
<1>1. \A d \in Device : State'[d] = State[d]
  BY SameOutcomesSame
<1> QED
  BY <1>1 DEF State

LEMMA OutcomesStay ==
    ASSUME NEW d \in Device,
           \/ file[d] \in Off /\ file'[d] \in Off
           \/ file[d] \in Unsettled /\ file'[d] \in Unsettled
           \/ file'[d] = file[d] /\ entries'[d] = entries[d]
    PROVE  SameOutcomes(d)
  BY DEF SameOutcomes, Outcome, Off, Unsettled

\* A step of the promise for one device.
LEMMA PromisedStep ==
    ASSUME Inv, Inv', NEW d \in Device,
           \/ \E c \in Cid : \/ Promise!Start(d, c) \/ Promise!Complete(d, c)
                             \/ Promise!Lapse(d, c)
           \/ \E b, c \in Cid : Promise!StartInstead(d, c, b)
           \/ Promise!Admit(d) \/ Promise!StrikeOff(d),
           \A e \in Device \ {d} : SameOutcomes(e)
    PROVE  Promise!Next
<1>1. \A e \in Device \ {d} : State'[e] = State[e]
  BY SameOutcomesSame
<1>2. Promise!Step(d)
  BY <1>1 DEF Promise!Step, State
<1> QED
  BY <1>2, StateTyped DEF Promise!Next, State

\* Pairing and revocation.
LEMMA FileIsPromised ==
    ASSUME Inv, Inv', OneFile, UNCHANGED entries
    PROVE  Promise!Next \/ UNCHANGED State
<1>1. CASE file' = file
  BY <1>1, OutcomesStay, AllOutcomesSame
<1>2. ASSUME NEW d \in Device,
             \A b \in Device \ {d} : file'[b] = file[b],
             \/ file'[d] = file[d]
             \/ file'[d] \in Off
             \/ file[d] = "pending" /\ file'[d] = "active"
             \/ file[d] = "absent" /\ file'[d] = "pending"
      PROVE  Promise!Next \/ UNCHANGED State
  <2>1. \A b \in Device \ {d} : SameOutcomes(b)
    BY <1>2, OutcomesStay
  <2>2. CASE \/ file'[d] = file[d]
             \/ file[d] = "absent" /\ file'[d] = "pending"
    <3>1. SameOutcomes(d)
      BY <2>2, OutcomesStay DEF Unsettled
    <3> QED
      BY <2>1, <3>1, AllOutcomesSame
  <2>3. CASE file'[d] \in Off
    <3>1. State'[d] = [c \in Cid |-> Outcome(d, c)']
      BY StateIsShownNext DEF StateShown, Shown
    <3>2. State'[d] = Promise!Blank("struck")
      BY <2>3, <3>1 DEF Outcome, Off, Unsettled, Promise!Blank
    <3>3. Promise!StrikeOff(d)
      BY <3>2 DEF Promise!StrikeOff, State
    <3> QED
      BY <2>1, <3>3, PromisedStep
  <2>4. CASE file[d] = "pending" /\ file'[d] = "active"
    <3>1. \A c \in Cid : entries'[d][c] = NoEntry
      BY <2>4 DEF Inv, FreshBlank, Unsettled
    <3>2. \A c \in Cid : Outcome(d, c) = "new" /\ Outcome(d, c)' = "unknown"
      BY <2>4, <3>1 DEF Outcome, Unsettled, View, NoEntry
    <3>3. /\ State[d] = [c \in Cid |-> Outcome(d, c)]
          /\ State'[d] = [c \in Cid |-> Outcome(d, c)']
      BY StateIsShown, StateIsShownNext DEF StateShown, Shown
    <3>4. /\ State[d] = Promise!Blank("new")
          /\ State'[d] = Promise!Blank("unknown")
      BY <3>2, <3>3 DEF Promise!Blank
    <3>5. Promise!Admit(d)
      BY <3>4 DEF Promise!Admit, State
    <3> QED
      BY <2>1, <3>5, PromisedStep
  <2> QED
    BY <1>2, <2>2, <2>3, <2>4
<1> QED
  BY <1>1, <1>2 DEF OneFile

LEMMA QuietIsPromised ==
    ASSUME Inv, Inv', [Next]_vars, ~RestartLink, UNCHANGED commands
    PROVE  Promise!Next \/ UNCHANGED State
  BY NextChangesOneFile, FileIsPromised DEF Inv, commands

LEMMA ForgetIsPromised ==
    ASSUME Inv, Inv', ForgetDevice
    PROVE  UNCHANGED State
<1>1. /\ file' = file /\ Dev(Person) \in Device /\ Forget(Dev(Person))
      /\ job[Person].at = "forgetting"
  BY ForgetDeviceDoes DEF Inv
<1>2. file[Dev(Person)] \in Off
  BY <1>1 DEF Inv, CutByPerson, Cut
<1>3. \A b \in Device \ {Dev(Person)} : entries'[b] = entries[b]
  BY <1>1 DEF Forget, Inv, BaseInv, LedgerInv, EntriesTyped
<1>4. ASSUME NEW b \in Device
      PROVE  SameOutcomes(b)
  BY <1>1, <1>2, <1>3, OutcomesStay
<1> QED
  BY <1>4, AllOutcomesSame

LEMMA AgeIsPromised ==
    ASSUME Inv, Inv', NEW d \in Device, NEW c \in Cid, Age(d, c),
           UNCHANGED registry
    PROVE  Promise!Next \/ UNCHANGED State
<1>1. /\ file' = file /\ EntriesTyped'
      /\ entries'[d][c].old = TRUE /\ entries[d][c].old = FALSE
      /\ entries[d][c].state # "none"
      /\ \A b \in Device, x \in Cid :
            /\ entries'[b][x].state = entries[b][x].state
            /\ ~(b = d /\ x = c) => entries'[b][x] = entries[b][x]
  <2>1. entries[d][c].old \in BOOLEAN
    BY DEF Inv, BaseInv, LedgerInv, EntriesTyped, Entries
  <2>2. LedgerInv
    BY DEF Inv, BaseInv
  <2>3. file' = file
    BY DEF registry
  <2>4. entries[d][c].old = FALSE /\ entries[d][c].state # "none"
    BY <2>1 DEF Age
  <2>5. /\ EntriesTyped' /\ entries'[d][c].old = TRUE
        /\ \A b \in Device, x \in Cid :
              /\ entries'[b][x].state = entries[b][x].state
              /\ entries'[b][x].op = entries[b][x].op
              /\ entries'[b][x].kept = entries[b][x].kept
              /\ ~(b = d /\ x = c) => entries'[b][x] = entries[b][x]
    BY <2>2, AgeShape
  <2> QED
    BY <2>3, <2>4, <2>5
<1>2. \A b \in Device \ {d} : SameOutcomes(b)
  BY <1>1 DEF SameOutcomes, Outcome
<1>3. CASE file[d] # "active" \/ entries[d][c].state = "running"
  <2>1. SameOutcomes(d)
    BY <1>1, <1>3 DEF SameOutcomes, Outcome, View
  <2> QED
    BY <1>2, <2>1, AllOutcomesSame
<1>4. CASE file[d] = "active" /\ entries[d][c].state # "running"
  <2>1. entries[d][c].state = "done"
    BY <1>1, <1>4 DEF Inv, BaseInv, LedgerInv, EntriesTyped, Entries
  <2>2. /\ Outcome(d, c) = "done" /\ Outcome(d, c)' = "unknown"
        /\ \A x \in Cid \ {c} : Outcome(d, x)' = Outcome(d, x)
    BY <1>1, <1>4, <2>1 DEF Outcome, View, Unsettled
  <2>3. /\ State[d][c] = "done" /\ State'[d][c] = "unknown"
        /\ \A x \in Cid \ {c} : State'[d][x] = State[d][x]
    BY <2>2, SeenNow, SeenNext
  <2>4. Promise!Lapse(d, c)
    BY <2>3 DEF Promise!Lapse, Promise!Becomes, Promise!Others, State
  <2> QED
    BY <1>2, <2>4, PromisedStep
<1> QED
  BY <1>3, <1>4

LEMMA RestartIsPromised ==
    ASSUME Inv, Inv', RestartLink
    PROVE  Promise!Next
<1>1. /\ \A d \in Device : \/ file'[d] = file[d]
                           \/ file[d] = "pending" /\ file'[d] = "gone"
      /\ entries' = [d \in Device |-> [c \in Cid |-> NoEntry]]
      /\ file \in [Device -> Statuses]
  BY RestartLinkDoes DEF Inv, BaseInv, RegistryInv, RegistryTypeOK
<1>2. ASSUME NEW d \in Device
      PROVE  IF State[d] = Promise!Blank("struck") THEN State'[d] = State[d]
             ELSE IF State[d] = Promise!Blank("new")
                  THEN State'[d] \in {Promise!Blank("new"),
                                      Promise!Blank("struck")}
             ELSE State'[d] = Promise!Blank("unknown")
  <2>1. /\ State[d] = [c \in Cid |-> Outcome(d, c)]
        /\ State'[d] = [c \in Cid |-> Outcome(d, c)']
    BY StateIsShown, StateIsShownNext DEF StateShown, Shown
  <2>2. CASE Cid = {}
    <3>1. State'[d] = State[d] /\ State[d] = Promise!Blank("struck")
      BY <2>1, <2>2 DEF Promise!Blank
    <3> QED
      BY <3>1
  <2>3. CASE Cid # {} /\ file[d] \in Unsettled
    <3>1. State[d] = Promise!Blank("new")
      BY <2>1, <2>3 DEF Outcome, Promise!Blank
    <3>2. PICK c \in Cid : TRUE
      BY <2>3
    <3>3. State[d] # Promise!Blank("struck")
      BY <3>1, <3>2 DEF Promise!Blank
    <3>4. file'[d] \in Unsettled \cup {"gone"}
      BY <1>1, <2>3
    <3>5. State'[d] \in {Promise!Blank("new"), Promise!Blank("struck")}
      BY <2>1, <3>4 DEF Outcome, Unsettled, Promise!Blank
    <3> QED
      BY <3>1, <3>3, <3>5
  <2>4. CASE file[d] \in Off
    <3>1. State[d] = Promise!Blank("struck") /\ file'[d] \in Off
      BY <1>1, <2>1, <2>4 DEF Outcome, Unsettled, Off, Promise!Blank
    <3>2. State'[d] = Promise!Blank("struck")
      BY <2>1, <3>1 DEF Outcome, Unsettled, Off, Promise!Blank
    <3> QED
      BY <3>1, <3>2
  <2>5. CASE Cid # {} /\ file[d] = "active"
    <3>1. PICK c \in Cid : TRUE
      BY <2>5
    <3>2. State[d][c] \in {"running", "done", "unknown"}
      BY <2>1, <2>5 DEF Outcome, Unsettled, View
    <3>3. State[d] # Promise!Blank("struck") /\ State[d] # Promise!Blank("new")
      BY <3>2 DEF Promise!Blank
    <3>4. \A x \in Cid : Outcome(d, x)' = "unknown"
      BY <1>1, <2>5 DEF Outcome, Unsettled, View, NoEntry
    <3>5. State'[d] = Promise!Blank("unknown")
      BY <2>1, <3>4 DEF Promise!Blank
    <3> QED
      BY <3>3, <3>5
  <2>6. file[d] \in Unsettled \/ file[d] \in Off \/ file[d] = "active"
    BY <1>1 DEF Statuses, Unsettled, Off
  <2> QED
    BY <2>2, <2>3, <2>4, <2>5, <2>6
<1>3. Promise!StartAnew
  BY <1>2 DEF Promise!StartAnew, State
<1> QED
  BY <1>3, StateTyped DEF Promise!Next, State

\* The two modules count alike.
LEMMA CountsAlike ==
    ASSUME NEW S
    PROVE  Promise!Cardinality(S) = Cardinality(S)
  BY DEF Promise!Cardinality, Cardinality

\* A step of a session's work is of one device, and past the check.
LEMMA BeginIsPromised ==
    ASSUME Inv, Inv', NEW s \in Conn, BeginCommand(s),
           NEW d \in Device, NEW c \in Cid, NEW o \in Op,
           d = Dev(s), c = ask[s].cid, o = ask[s].op
    PROVE  Promise!Next \/ UNCHANGED State
<1> DEFINE e == entries[d]
           l == Lasting(d)
<1>1. Begin(d, c, o) /\ file' = file
  BY BeginCommandDoes DEF Inv, Works
<1>2. /\ \A b \in Device \ {d} : entries'[b] = entries[b]
      /\ \/ Verdict(d, c, o) # "new" /\ Dropped(d, Lapsed(e))
         \/ /\ Verdict(d, c, o) = "new" /\ c \notin Known(l)
            /\ \E cs \in Evicted(l) :
                 cs \subseteq Cid /\ Claimed(d, c, o, Lapsed(e) \cup cs)
  BY <1>1, BeginShape DEF Inv, BaseInv
<1>3. \A b \in Device \ {d} : SameOutcomes(b)
  BY <1>1, <1>2, OutcomesStay
<1>4. /\ \A x \in Cid : e[x].state \in {"none", "running", "done"}
      /\ l = [x \in Cid |-> IF x \in Lapsed(e) THEN NoEntry ELSE e[x]]
      /\ Lapsed(e) = {x \in Cid : e[x].state = "done" /\ e[x].old}
  BY DEF Inv, BaseInv, LedgerInv, EntriesTyped, Entries, Lasting, Without,
         Lapsed, Finished
<1>5. CASE file[d] \notin Unsettled /\ file[d] # "active"
  <2>1. SameOutcomes(d)
    BY <1>1, <1>5 DEF SameOutcomes, Outcome
  <2> QED
    BY <1>3, <2>1, AllOutcomesSame
<1>6. CASE file[d] = "active" /\ Dropped(d, Lapsed(e))
  <2>1. SameOutcomes(d)
    BY <1>1, <1>4, <1>6
    DEF SameOutcomes, Outcome, View, Dropped, NoEntry
  <2> QED
    BY <1>3, <2>1, AllOutcomesSame
<1>7. ASSUME file[d] = "active", c \notin Known(l),
             NEW cs \in Evicted(l), cs \subseteq Cid,
             Claimed(d, c, o, Lapsed(e) \cup cs)
      PROVE  Promise!Next
  <2>1. \A x \in Cid :
            /\ x \in Known(l) <=> Outcome(d, x) \in {"running", "done"}
            /\ x \in Finished(l) <=> Outcome(d, x) = "done"
    BY <1>4, <1>7 DEF Known, Finished, Outcome, View, Unsettled, NoEntry
  <2>2. Promise!Remembered(d) = Known(l)
    BY <2>1, SeenNow DEF Promise!Remembered, State, Known
  <2>3. Outcome(d, c) = "unknown" /\ Outcome(d, c)' = "running"
    <3>1. entries'[d][c].state = "running"
      BY <1>7 DEF Claimed
    <3>2. Outcome(d, c) \notin {"running", "done"}
      BY <1>7, <2>1
    <3> QED
      BY <1>1, <1>7, <3>1, <3>2 DEF Outcome, View, Unsettled
  <2>4. \A x \in Cid \ ({c} \cup cs) : Outcome(d, x)' = Outcome(d, x)
    BY <1>1, <1>4, <1>7 DEF Outcome, View, Claimed, NoEntry
  <2>5. \A x \in cs \ {c} : Outcome(d, x)' = "unknown"
    BY <1>1, <1>7 DEF Outcome, View, Claimed, NoEntry, Unsettled
  <2>6. /\ State[d][c] = "unknown" /\ State'[d][c] = "running"
        /\ \A x \in Cid \ ({c} \cup cs) : State'[d][x] = State[d][x]
        /\ \A x \in cs \ {c} : State'[d][x] = "unknown"
    BY <1>7, <2>3, <2>4, <2>5, SeenNow, SeenNext
  <2>7. CASE Cardinality(Known(l)) >= MaxPerDevice
    <3>1. PICK b \in Finished(l) : cs = {b}
      BY <1>7, <2>7 DEF Evicted
    <3>2. b \in Cid /\ Outcome(d, b) = "done" /\ b # c
      BY <2>1, <2>3, <3>1 DEF Finished
    <3>3. State[d][b] = "done" /\ State'[d][b] = "unknown"
      BY <2>6, <3>1, <3>2, SeenNow
    <3>4. \A x \in Cid \ {b, c} : State'[d][x] = State[d][x]
      BY <2>6, <3>1
    <3>5. Promise!Others(d, {b, c})
      BY <3>4 DEF Promise!Others, State
    <3>6. /\ Promise!Becomes(d, c, "unknown", "running")
          /\ Promise!Becomes(d, b, "done", "unknown")
      BY <2>6, <3>3 DEF Promise!Becomes, State
    <3>7. Cardinality(Promise!Remembered(d)) >= MaxPerDevice
      BY <2>2, <2>7
    <3>8. Promise!StartInstead(d, c, b)
      BY <3>5, <3>6, <3>7, CountsAlike DEF Promise!StartInstead
    <3> QED
      BY <1>3, <3>2, <3>8, PromisedStep
  <2>8. CASE ~(Cardinality(Known(l)) >= MaxPerDevice)
    <3>1. cs = {}
      BY <1>7, <2>8 DEF Evicted
    <3>2. Cardinality(Known(l)) \in Nat
      BY LedgerAssumption, FS_Subset, FS_CardinalityType DEF Known
    <3>3. Cardinality(Promise!Remembered(d)) < MaxPerDevice
      BY <2>2, <2>8, <3>2, LedgerAssumption
    <3>4. \A x \in Cid \ {c} : State'[d][x] = State[d][x]
      BY <2>6, <3>1
    <3>5. Promise!Others(d, {c})
      BY <3>4 DEF Promise!Others, State
    <3>6. Promise!Becomes(d, c, "unknown", "running")
      BY <2>6 DEF Promise!Becomes, State
    <3>7. Promise!Start(d, c)
      BY <3>3, <3>5, <3>6, CountsAlike DEF Promise!Start
    <3> QED
      BY <1>3, <3>7, PromisedStep
  <2> QED
    BY <2>7, <2>8
<1>8. file[d] \notin Unsettled
  <2>1. job[s].at \in LiveSteps
    BY BeginCommandDoes DEF Inv, LiveSteps
  <2> QED
    BY <2>1 DEF Inv, BaseInv, Standing
<1> QED
  BY <1>2, <1>5, <1>6, <1>7, <1>8

LEMMA FinishIsPromised ==
    ASSUME Inv, Inv', NEW s \in Conn, FinishCommand(s),
           NEW d \in Device, NEW c \in Cid, NEW o \in Op,
           d = Dev(s), c = ask[s].cid, o = ask[s].op
    PROVE  Promise!Next \/ UNCHANGED State
<1>1. /\ Finish(d, c, o) /\ file' = file
      /\ job[s].at = "running"
  BY FinishCommandDoes DEF Inv, Works
<1>2. CASE entries[d][c].state # "running"
  BY <1>1, <1>2, OutcomesStay, AllOutcomesSame DEF Finish, commands
<1>3. CASE entries[d][c].state = "running"
  <2>1. PICK k, gone : FinishedWith(d, c, k, gone)
    BY <1>1, <1>3, FinishShape DEF Inv, BaseInv
  <2>2. /\ entries'[d][c].state = "done"
        /\ \A b \in Device, x \in Cid : ~(b = d /\ x = c) =>
              /\ entries'[b][x].state = entries[b][x].state
              /\ entries'[b][x].old = entries[b][x].old
    BY <2>1 DEF FinishedWith
  <2>3. \A b \in Device, x \in Cid : ~(b = d /\ x = c) =>
            Outcome(b, x)' = Outcome(b, x)
    BY <1>1, <2>2 DEF Outcome, View
  <2>4. \A b \in Device \ {d} : SameOutcomes(b)
    BY <2>3 DEF SameOutcomes
  <2>5. CASE file[d] # "active"
    <3>1. SameOutcomes(d)
      BY <1>1, <2>5 DEF SameOutcomes, Outcome
    <3> QED
      BY <2>4, <3>1, AllOutcomesSame
  <2>6. CASE file[d] = "active"
    <3>1. /\ Outcome(d, c) = "running"
          /\ Outcome(d, c)' \in {"done", "unknown"}
      BY <1>1, <1>3, <2>2, <2>6 DEF Outcome, View, Unsettled
    <3>2. /\ State[d][c] = "running" /\ State'[d][c] \in {"done", "unknown"}
          /\ \A x \in Cid \ {c} : State'[d][x] = State[d][x]
      BY <2>3, <3>1, SeenNow, SeenNext
    <3>3. Promise!Complete(d, c)
      BY <3>2 DEF Promise!Complete, Promise!Becomes, Promise!Others, State
    <3> QED
      BY <2>4, <3>3, PromisedStep
  <2> QED
    BY <2>5, <2>6
<1> QED
  BY <1>2, <1>3

\* What a command's step and the others are to the promise.
LEMMA NextIsPromised ==
    ASSUME Inv, Inv', [Next]_vars
    PROVE  Promise!Next \/ UNCHANGED State
<1>1. CASE RestartLink
  BY <1>1, RestartIsPromised
<1>2. CASE ForgetDevice
  BY <1>2, ForgetIsPromised
<1>3. ASSUME NEW s \in Conn, BeginCommand(s)
      PROVE  Promise!Next \/ UNCHANGED State
  <2>1. Dev(s) \in Device /\ ask[s].cid \in Cid /\ ask[s].op \in Op
    BY <1>3, BeginCommandDoes DEF Inv
  <2> QED
    BY <1>3, <2>1, BeginIsPromised
<1>4. ASSUME NEW s \in Conn, FinishCommand(s)
      PROVE  Promise!Next \/ UNCHANGED State
  <2>1. Dev(s) \in Device /\ ask[s].cid \in Cid /\ ask[s].op \in Op
    BY <1>4, FinishCommandDoes DEF Inv
  <2> QED
    BY <1>4, <2>1, FinishIsPromised
<1>5. ASSUME NEW d \in Device, NEW c \in Cid, Age(d, c), UNCHANGED registry
      PROVE  Promise!Next \/ UNCHANGED State
  BY <1>5, AgeIsPromised
<1>6. CASE UNCHANGED commands /\ ~RestartLink
  BY <1>6, QuietIsPromised
<1>7. \/ RestartLink \/ ForgetDevice \/ UNCHANGED commands
      \/ \E s \in Conn : BeginCommand(s) \/ FinishCommand(s)
      \/ \E d \in Device, c \in Cid : Age(d, c) /\ UNCHANGED registry
  <2>1. ASSUME NEW t \in Thread, Cancel(t)
        PROVE  UNCHANGED commands
    BY <2>1 DEF Cancel, CancelDrop, CancelLook, CancelRemove
  <2>2. CASE \/ Sweep \/ AskPairing \/ EndSessions
             \/ \E d \in Device : Offer(d) \/ Revoke(d)
    BY <2>2 DEF Sweep, AskPairing, EndSessions, Offer, Revoke
  <2>3. ASSUME NEW s \in Conn, Serve(s), ~BeginCommand(s), ~FinishCommand(s)
        PROVE  UNCHANGED commands
    BY <2>3 DEF Serve, CompletePairing, Activate, Mark, Touch, Register,
                CheckValid, Send, HangUp
  <2>4. ASSUME NEW s \in Conn, Phone(s)
        PROVE  UNCHANGED commands
    BY <2>4 DEF Phone, Connect, Ask, DropLine
  <2>5. CASE Outside
    BY <2>5 DEF Outside
  <2>6. CASE UNCHANGED vars
    BY <2>6 DEF vars
  <2> QED
    BY <2>1, <2>2, <2>3, <2>4, <2>5, <2>6 DEF Next
<1> QED
  BY <1>1, <1>2, <1>3, <1>4, <1>5, <1>6, <1>7

\* A command is carried out once, however often it arrives, until it lapses,
\* is pushed out or the link is restarted; a device that was struck off is
\* never served again (core/link_commands.py, LinkServer._respond).
THEOREM PromiseKept == Spec => KeepsPromise
<1>1. Init => Promise!Init
  BY InitIsPromised
<1>2. Inv /\ Inv' /\ [Next]_vars => [Promise!Next]_State
  BY NextIsPromised
<1> QED
  BY <1>1, <1>2, InvariantHolds, PTL
  DEF Spec, KeepsPromise, Promise!Spec, State
=============================================================================
