------------------------------- MODULE OnceOnly -------------------------------
(***************************************************************************)
(* What the link promises of a command (core/link_commands.py: "doing a    *)
(* command once, however many times it arrives").  A command that is being *)
(* carried out is not begun again; one that is done is begun again only    *)
(* when it has lapsed, was pushed out by a newer command of its device, or *)
(* the link was started anew.  A device that was struck off is promised    *)
(* nothing, and never let in again.                                        *)
(***************************************************************************)
EXTENDS Integers, FiniteSets

CONSTANTS Device, Cid, MaxPerDevice

VARIABLE state      \* what became of each command of each device

States == {"new", "unknown", "running", "done", "struck"}

\* A device of which no command is known, for one reason or the other.
Blank(s) == [c \in Cid |-> s]

Init == state \in [Device -> {Blank("new"), Blank("unknown"),
                              Blank("struck")}]

Remembered(d) == {c \in Cid : state[d][c] \in {"running", "done"}}

\* One command changes, of those in `cs`; the others of its device do not.
Becomes(d, c, from, to) == state[d][c] = from /\ state'[d][c] = to
Others(d, cs) == \A c \in Cid \ cs : state'[d][c] = state[d][c]

Start(d, c) ==
    /\ Becomes(d, c, "unknown", "running")
    /\ Others(d, {c})
    /\ Cardinality(Remembered(d)) < MaxPerDevice

StartInstead(d, c, b) ==
    /\ Becomes(d, c, "unknown", "running")
    /\ Becomes(d, b, "done", "unknown")
    /\ Others(d, {b, c})
    /\ Cardinality(Remembered(d)) >= MaxPerDevice

\* A command that took too long has lapsed when it is done.
Complete(d, c) ==
    /\ Becomes(d, c, "running", "done") \/ Becomes(d, c, "running", "unknown")
    /\ Others(d, {c})

Lapse(d, c) == Becomes(d, c, "done", "unknown") /\ Others(d, {c})

Admit(d) == state[d] = Blank("new") /\ state'[d] = Blank("unknown")

StrikeOff(d) == state'[d] = Blank("struck")

\* A step of one device.
Step(d) ==
    /\ \/ \E c \in Cid : Start(d, c) \/ Complete(d, c) \/ Lapse(d, c)
       \/ \E b, c \in Cid : StartInstead(d, c, b)
       \/ Admit(d) \/ StrikeOff(d)
    /\ \A e \in Device \ {d} : state'[e] = state[e]

\* Nothing is known any more of the devices that something was promised to,
\* and one that was about to be let in may be turned away.
StartAnew ==
    \A d \in Device :
        IF state[d] = Blank("struck") THEN state'[d] = state[d]
        ELSE IF state[d] = Blank("new")
             THEN state'[d] \in {Blank("new"), Blank("struck")}
        ELSE state'[d] = Blank("unknown")

Next ==
    /\ (\E d \in Device : Step(d)) \/ StartAnew
    /\ state' \in [Device -> [Cid -> States]]

Spec == Init /\ [][Next]_state
=============================================================================
