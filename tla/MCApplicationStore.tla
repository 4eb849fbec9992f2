------------------------- MODULE MCApplicationStore -------------------------
(***************************************************************************)
(* The two sides of ApplicationStore meet in nothing but the fence, so a      *)
(* behaviour of this instance is a behaviour of one of them, chosen at its    *)
(* start.                                                                  *)
(***************************************************************************)
EXTENDS ApplicationStore, FiniteSets, TLC

VARIABLE subject

InitAll == Init /\ Transfer!Init /\ subject \in {"effects", "transfers"}

NextAll ==
    /\ UNCHANGED subject
    /\ \/ subject = "effects" /\ Next /\ UNCHANGED transfer
       \/ subject = "transfers" /\ Transfer!Next /\ UNCHANGED vars

SpecAll == InitAll /\ [][NextAll]_<<subject, vars, transfer>>

Symmetry ==
    Permutations(Callers) \cup Permutations(Effects) \cup Permutations(Transfers)

\* Two calls are under way at a time until the authority is in its last epoch, and
\* then one; they carry no epoch that the authority has yet to reach, and one at a
\* time is in its second round.
Active == {c \in Callers : pc[c] # "idle"}
Crowd ==
    /\ authority = MaxEpoch => Cardinality(Active) <= 1
    /\ \A c \in Active : call[c].epoch <= authority
    /\ Cardinality({c \in Callers : attempt[c] > 0}) <= 1

\* The operands of a call that ended are never read again: states that differ in
\* nothing else count as one.
View ==
    <<subject, fence, rows, pc, [c \in Active |-> call[c]], stage, attempt, held,
      outcome, transfer>>
=============================================================================
