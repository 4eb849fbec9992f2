--------------------------- MODULE LedgerHistory ---------------------------
(***************************************************************************)
(* What the append protocol promises to the operations of the ledger: one   *)
(* serial history.  Each event was computed on exactly the history it       *)
(* extends, each transition identity appends at most once, and only the     *)
(* coordinator whose authority is in force appends.  ExecutionLedger takes  *)
(* every operation as one step on current state on the strength of this.   *)
(***************************************************************************)
EXTENDS Naturals, Sequences

CONSTANTS
    Transitions,  \* caller-chosen transition identities
    MaxEpoch      \* bound: coordinator authority epochs

VARIABLES
    authority,  \* epoch of the coordinator authority in force
    history     \* the accepted events

Init == authority = 1 /\ history = <<>>

Takeover ==
    /\ authority < MaxEpoch
    /\ authority' = authority + 1
    /\ UNCHANGED history

Accept(t) ==
    /\ \A i \in DOMAIN history : history[i].transition # t
    /\ history' = Append(history, [transition |-> t, base |-> Len(history),
                                   epoch |-> authority])
    /\ UNCHANGED authority

Next == Takeover \/ \E t \in Transitions : Accept(t)

Spec == Init /\ [][Next]_<<authority, history>>
=============================================================================
