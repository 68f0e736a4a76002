---------------------------- MODULE RequestPromise ----------------------------
(***************************************************************************)
(* What the Smart Queue promises of a queued request, whatever the order   *)
(* of its threads (core/queue_scheduler.py, core/queued_conversation.py):  *)
(* the machine carries one request at a time, and is free before another   *)
(* takes it; a request is answered at most once, only while it runs, and   *)
(* an answered request can no longer be stopped; one that was withdrawn or *)
(* settled never runs, and is not forgotten while it is on the machine.    *)
(***************************************************************************)
CONSTANT Tasks

VARIABLES
    stage,      \* what the user is shown of each request
    machine,    \* the requests whose work occupies the machine
    answered    \* the requests whose answer was delivered

vars == <<stage, machine, answered>>

Over == {"settled", "withdrawn"}

Init ==
    /\ stage = [t \in Tasks |-> "unknown"]
    /\ machine = {}
    /\ answered = {}

\* One request goes to another stage.
Goes(t, from, to) == stage[t] \in from /\ stage' = [stage EXCEPT ![t] = to]

\* A request is accepted, or brought back by recovery.
Enter(t) ==
    /\ Goes(t, {"unknown"}, "waiting") \/ Goes(t, {"unknown"}, "held")
    /\ UNCHANGED <<machine, answered>>

\* It waits for the user to resume it, or no longer does.
Hold(t) == Goes(t, {"waiting"}, "held") /\ UNCHANGED <<machine, answered>>
Resume(t) == Goes(t, {"held"}, "waiting") /\ UNCHANGED <<machine, answered>>

\* The free machine takes a waiting request.
Take(t) ==
    /\ machine = {}
    /\ Goes(t, {"waiting"}, "running")
    /\ machine' = {t}
    /\ UNCHANGED answered

\* Its answer is delivered, once.
Answer(t) ==
    /\ machine = {t}
    /\ stage[t] = "running"
    /\ t \notin answered
    /\ answered' = answered \cup {t}
    /\ UNCHANGED <<stage, machine>>

\* It is cancelled, or interrupted by a close; its work keeps the machine
\* until it has let go.
Stop(t) ==
    /\ t \notin answered
    /\ \/ Goes(t, {"waiting", "held", "running"}, "withdrawn")
       \/ Goes(t, {"running"}, "held")
    /\ UNCHANGED <<machine, answered>>

\* Its work lets go of the machine.  What runs is settled by that, or, not
\* answered, goes back in line or is withdrawn; what was stopped stays so.
Vacate(t) ==
    /\ machine = {t}
    /\ \/ Goes(t, {"running"}, "settled")
       \/ /\ t \notin answered
          /\ Goes(t, {"running"}, "waiting") \/ Goes(t, {"running"}, "withdrawn")
       \/ stage[t] # "running" /\ UNCHANGED stage
    /\ machine' = {}
    /\ UNCHANGED answered

\* Requests that are over, and off the machine, are forgotten.
Forget ==
    /\ \E S \in SUBSET {t \in Tasks \ machine : stage[t] \in Over} :
          stage' = [t \in Tasks |-> IF t \in S THEN "forgotten" ELSE stage[t]]
    /\ UNCHANGED <<machine, answered>>

Next ==
    \/ \E t \in Tasks : \/ Enter(t) \/ Hold(t) \/ Resume(t) \/ Take(t)
                        \/ Answer(t) \/ Stop(t) \/ Vacate(t)
    \/ Forget

Spec == Init /\ [][Next]_vars
=============================================================================
