---------------------------- MODULE MCLedgerCalls ----------------------------
(***************************************************************************)
(* A behaviour of this instance is a behaviour of one of the three protocols *)
(* of LedgerCalls, chosen at its start.                                      *)
(***************************************************************************)
EXTENDS LedgerCalls, TLC

CONSTANTS d1, d2, q1

VARIABLE subject

\* A run that waits for one signal after its activity, and one that waits for a
\* signal and a timer before it.
WaitingPlans == {<<"activity", "s1">>, <<"s1", "timer", "activity">>}

Deliver(d, s) == [op |-> "deliver", id |-> d, signal |-> s]
Cancel(q) == [op |-> "cancel", id |-> q, signal |-> None]

\* Two callers deliver the same identity with two signals, and one of them the
\* same signal under two identities.
CommandsOfSenders ==
    [k \in Senders |->
        {Deliver(d1, "s1"), Cancel(q1)} \union
            IF k = CHOOSE c \in Senders : TRUE THEN {}
            ELSE {Deliver(d1, "s2"), Deliver(d2, "s1")}]

all == <<subject, vars, admission, workflow>>
-----------------------------------------------------------------------------
\* What a behaviour is not about stays as it is in one initial state.
InitAll ==
    /\ subject \in {"append", "admission", "workflow"}
    /\ Init /\ Admission!Init /\ Workflow!Init
    /\ subject # "append" => \A c, d \in Callers : call[c] = call[d]
    /\ subject # "workflow" => plan = <<"activity", "s1">>

NextAll ==
    /\ UNCHANGED subject
    /\ \/ subject = "append" /\ Next /\ UNCHANGED <<admission, workflow>>
       \/ subject = "admission" /\ Admission!Next /\ UNCHANGED <<vars, workflow>>
       \/ subject = "workflow" /\ Workflow!Next /\ UNCHANGED <<vars, admission>>

SpecAll == InitAll /\ [][NextAll]_all

\* The commands tell the senders apart, nothing tells the others.
Symmetry ==
    Permutations(Callers) \cup Permutations(Transitions)
        \cup Permutations(Residents) \cup Permutations(Runs)
        \cup Permutations(Admitters) \cup Permutations(Contents)
        \cup Permutations(Workers)

\* Admission: at most two calls are under way at a time, a transaction that its
\* caller gave up on counts as one, and one when the barrier or the run has no
\* version left.
Active == {p \in Residents \cup Admitters : phase[p] # "idle"}
CrowdAtBarrier ==
    Cardinality(Active) + Cardinality(underway) <=
        IF \/ barrier.version = MaxSafe
           \/ \E i \in Runs : runs[i].version = MaxMoves
        THEN 1 ELSE 2

\* Append: once the history is as long as it gets, one call starts at a time and
\* no transaction waits.
Starting == {c \in Callers : pc[c] \in {"read", "receipt"}}
CrowdAtHead ==
    Version = MaxVersion => Cardinality(Starting) + Cardinality(delayed) <= 1

\* Workflow: two processes and calls are on their way at a time.
Busy == {p \in Workers : driver[p].pc \notin {"off", "idle"}}
Waiting == {k \in Senders : command[k].pc = "write"}
CrowdAtRun == Cardinality(Busy) + Cardinality(Waiting) <= 2

Crowd == CrowdAtBarrier /\ CrowdAtHead /\ CrowdAtRun
=============================================================================
