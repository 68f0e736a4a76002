---------------------------- MODULE ApprovalLedger ----------------------------
(***************************************************************************)
(* Single-use identities for prompts that wait on a person:                *)
(* core/approval_ledger.py.  Every method runs under the ledger's own      *)
(* lock, so each is one step.  An identity is never used again, so one     *)
(* record per identity holds _open and _settled together; that _settled    *)
(* forgets the oldest reasons only changes what a refusal is called.       *)
(***************************************************************************)
EXTENDS FiniteSets

CONSTANTS
    Ticket,         \* identities the generator will hand out
    Kind            \* what a prompt asks for

\* An identity is a text of a fixed length.
ASSUME TicketAssumption == IsFiniteSet(Ticket)

VARIABLES
    tickets,        \* what the ledger knows of each identity
    sealed          \* ApprovalLedger._closed

ledger == <<tickets, sealed>>

\* An identity is open, open past its time (until somebody notices), or
\* settled for a reason.
OpenStates == {"open", "late"}
TicketStates == OpenStates \cup
    {"unissued", "used", "expired", "revoked", "superseded", "closed"}

LedgerInit(Owner, nobody) ==
    /\ tickets = [i \in Ticket |->
                     [state |-> "unissued", kind |-> CHOOSE k \in Kind : TRUE,
                      owner |-> nobody]]
    /\ sealed = FALSE

LedgerTypeOK(Owner) ==
    /\ tickets \in [Ticket -> [state : TicketStates, kind : Kind,
                               owner : Owner]]
    /\ sealed \in BOOLEAN

OpenIn(t, kinds) ==
    {i \in Ticket : t[i].state \in OpenStates /\ t[i].kind \in kinds}
Settled(t, ids, reason) ==
    [i \in Ticket |-> IF i \in ids THEN [t[i] EXCEPT !.state = reason]
                                   ELSE t[i]]

\* Mutant: an identity may be taken in its last instant and after it.
NeverExpires == tickets

\* _expire_locked: every reader of the open identities settles the late ones
\* first; a revocation does not look at the clock.
ExpiredNow ==
    Settled(tickets, {i \in Ticket : tickets[i].state = "late"}, "expired")

\* open_ticket and open_tickets.
OpenNow(kinds) == OpenIn(ExpiredNow, kinds)

Issued(t, i, kind, owner) ==
    [t EXCEPT ![i] = [state |-> "open", kind |-> kind, owner |-> owner]]

\* issue, to `t` (what an earlier call of the same critical section left).  A
\* fresh identity is as good as any other.
Issue(t, kind, owner) ==
    /\ ~sealed
    /\ \E i \in Ticket : t[i].state = "unissued"
    /\ tickets' = Issued(t, CHOOSE i \in Ticket : t[i].state = "unissued",
                         kind, owner)
    /\ UNCHANGED sealed

Takable(i, kinds) == ~sealed /\ i \in OpenNow(kinds)

TakenFrom(i) == Settled(ExpiredNow, {i}, "used")

\* take, when it returns the ticket.
Take(i, kinds) ==
    /\ Takable(i, kinds)
    /\ tickets' = TakenFrom(i)
    /\ UNCHANGED sealed

\* take, when it refuses: after the close nothing is even expired, and an
\* identity of another kind stays as it is.
Refuse(i, kinds) ==
    /\ ~Takable(i, kinds)
    /\ tickets' = IF sealed THEN tickets ELSE ExpiredNow
    /\ UNCHANGED sealed

RevokedFrom(t, kinds, reason) == Settled(t, OpenIn(t, kinds), reason)

\* revoke_kinds.
RevokeKinds(kinds) ==
    /\ tickets' = RevokedFrom(tickets, kinds, "revoked")
    /\ UNCHANGED sealed

\* close: revocation and the flag in one critical section.
Seal ==
    /\ sealed' = TRUE
    /\ tickets' = Settled(tickets, OpenIn(tickets, Kind), "closed")

\* An open identity reaches its expires_at.
TimePasses ==
    /\ \E i \in Ticket :
            /\ tickets[i].state = "open"
            /\ tickets' = [tickets EXCEPT ![i].state = "late"]
    /\ UNCHANGED sealed
=============================================================================
