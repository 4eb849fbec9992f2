------------------------- MODULE MCResidentService -------------------------
(***************************************************************************)
(* The two protocols of ResidentService share no state, so a behaviour of    *)
(* this instance is a behaviour of one of them, chosen at its start.         *)
(***************************************************************************)
EXTENDS ResidentService, FiniteSets

CONSTANT MaxFaults

ASSUME FaultsAreBounded == MaxFaults \in Nat

VARIABLE subject

all == <<subject, vars, service>>

InitAll == Init /\ Service!Init /\ subject \in {"handoff", "sessions"}

\* Visits, takeovers, errors and losses in one handoff, MaxFaults together.
Faults == spent.visits + spent.takeovers + spent.errors + spent.losses

\* Two processes at most use the ledger at a time.
Pair == Cardinality({p \in Residents \cup Manuals : proc[p].pc # "off"}) <= 2

NextAll ==
    /\ UNCHANGED subject
    /\ \/ subject = "handoff" /\ Next /\ Faults' <= MaxFaults /\ UNCHANGED service
       \/ subject = "sessions" /\ Service!Next /\ Pair' /\ UNCHANGED vars

\* The fairness of LedgerService, and that of ApplicationStateReadiness, each
\* in the behaviours it is about.
FairnessAll ==
    /\ \A p \in Residents \cup Manuals : WF_service(subject = "sessions" /\ Service!Work(p))
    /\ \A c \in Residents : WF_vars(subject = "handoff" /\ Work(c))
    /\ \A c \in Hosts : WF_vars(subject = "handoff" /\ ~At(c, "off") /\ Work(c))
    /\ WF_vars(subject = "handoff" /\ TakeOver /\ Dead(authority.holder))
    /\ WF_vars(subject = "handoff" /\ ReleaseTakeover)

SpecAll == InitAll /\ [][NextAll]_all /\ FairnessAll

AResidentServes == subject = "sessions" => Service!AResidentServes
=============================================================================
