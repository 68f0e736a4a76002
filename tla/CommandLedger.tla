----------------------------- MODULE CommandLedger ----------------------------
(***************************************************************************)
(* What became of each command a phone sent: core/link_commands.py.  Every *)
(* method runs under the ledger's lock and is one step.  An answer that is *)
(* kept takes one unit of the byte budget.  Which finished command is the  *)
(* oldest, where the code drops the oldest, is left open.                  *)
(***************************************************************************)
EXTENDS Integers, FiniteSets, LinkDevices

CONSTANTS
    Cid,            \* command ids
    Op,             \* what a command asks for: the fingerprint
    MaxPerDevice,   \* commands remembered for a device
    MaxRetained     \* answers kept over all devices

VARIABLES
    entries,        \* CommandLedger._devices
    retained        \* CommandLedger._retained

commands == <<entries, retained>>

\* Device and command ids are random strings of a fixed length.
ASSUME LedgerAssumption ==
    /\ IsFiniteSet(Device) /\ IsFiniteSet(Cid)
    /\ MaxPerDevice \in Nat \ {0}
    /\ MaxRetained \in Nat \ {0}

\* `kept` is the operation whose answer is kept, in a set; `old` says that the
\* command began longer than the ttl ago.
Entries == [state : {"none", "running", "done"}, op : Op \cup {"none"},
            kept : SUBSET Op, old : BOOLEAN]
NoEntry == [state |-> "none", op |-> "none", kept |-> {}, old |-> FALSE]

LedgerInit ==
    /\ entries = [d \in Device |-> [c \in Cid |-> NoEntry]]
    /\ retained = 0

LedgerTypeOK ==
    /\ entries \in [Device -> [Cid -> Entries]]
    /\ retained \in Nat

Known(e) == {c \in Cid : e[c].state # "none"}
Finished(e) == {c \in Cid : e[c].state = "done"}
Answers(e) == {c \in Cid : e[c].kept # {}}
Without(e, cs) == [c \in Cid |-> IF c \in cs THEN NoEntry ELSE e[c]]

\* Mutant: commands expire while they are carried out, too.
LapsedAny(e) == {c \in Known(e) : e[c].old}

\* _expire: finished commands that began too long ago.
Lapsed(e) == {c \in Finished(e) : e[c].old}
Lasting(d) == Without(entries[d], Lapsed(entries[d]))

\* Mutant: a known command is answered whatever it was.
AnyFingerprint(e, c, o) == FALSE

Conflicts(e, c, o) == e[c].op # o

\* begin, what it answers: to a full ledger of unfinished commands, as to a
\* command still running.
Verdict(d, c, o) ==
    LET e == Lasting(d) IN
    IF c \in Known(e)
    THEN IF Conflicts(e, c, o) THEN "conflict"
         ELSE IF e[c].state = "running" THEN "in progress"
         ELSE "done"
    ELSE IF Cardinality(Known(e)) >= MaxPerDevice /\ Finished(e) = {}
         THEN "in progress"
         ELSE "new"

\* _evict_oldest_finished, as often as begin needs it: there is never more
\* than one command too many.
Evicted(e) ==
    IF Cardinality(Known(e)) >= MaxPerDevice
    THEN {{c} : c \in Finished(e)}
    ELSE {{}}

\* Mutant: every command that is dropped is taken off the account.
EveryCommand(d, cs) == Cardinality(cs)

\* Mutant: an evicted answer stays in the account.
OnlyLapsed(d, cs) == Cardinality(Answers(entries[d]) \cap Lapsed(entries[d]))

\* What the answers of the commands `cs` of a device took.
Freed(d, cs) == Cardinality(Answers(entries[d]) \cap cs)

\* begin: expiry first, then the claim of a new command.
Begin(d, c, o) ==
    IF Verdict(d, c, o) = "new"
    THEN \E cs \in Evicted(Lasting(d)) :
            /\ entries' = [entries EXCEPT ![d] =
                 [Without(Lasting(d), cs) EXCEPT ![c] =
                    [state |-> "running", op |-> o, kept |-> {},
                     old |-> FALSE]]]
            /\ retained' = retained - Freed(d, Lapsed(entries[d]) \cup cs)
    ELSE /\ entries' = [entries EXCEPT ![d] = Lasting(d)]
         /\ retained' = retained - Freed(d, Lapsed(entries[d]))

\* finish: the answer is kept if it fits, and the oldest answers make room.
Finish(d, c, o) ==
    IF entries[d][c].state # "running"
    THEN UNCHANGED commands
    ELSE LET kept == {x \in Device \X Cid : entries[x[1]][x[2]].kept # {}}
             ended == [entries EXCEPT ![d][c].state = "done"]
         IN \/ /\ entries' = ended
               /\ UNCHANGED retained
            \/ /\ retained < MaxRetained
               /\ entries' = [ended EXCEPT ![d][c].kept = {o}]
               /\ retained' = retained + 1
            \/ /\ retained >= MaxRetained
               /\ \E x \in kept :
                    entries' = [ended EXCEPT ![x[1]][x[2]].kept = {},
                                             ![d][c].kept = {o}]
               /\ UNCHANGED retained

\* forget_device.
Forget(d) ==
    /\ entries' = [entries EXCEPT ![d] = [c \in Cid |-> NoEntry]]
    /\ retained' = retained - Freed(d, Cid)

\* The ttl of a command passes.
Age(d, c) ==
    /\ entries[d][c].state # "none" /\ ~entries[d][c].old
    /\ entries' = [entries EXCEPT ![d][c].old = TRUE]
    /\ UNCHANGED retained
=============================================================================
