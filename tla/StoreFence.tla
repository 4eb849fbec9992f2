----------------------------- MODULE StoreFence -----------------------------
(***************************************************************************)
(* The fence of an application-state store, as the calls that write to it    *)
(* see it: the epoch that may write, and whether the store is retired and    *)
(* nobody may.  Epochs only advance, and a retired store is opened only for  *)
(* a higher epoch than the one that closed it.                              *)
(***************************************************************************)
EXTENDS Naturals

CONSTANT MaxEpoch  \* bound: coordinator authority epochs

VARIABLES
    authority,  \* epoch of the adopted authority, 0 while there is none
    retired     \* whether the store holds a retirement record

Init == authority = 0 /\ retired = FALSE

Advance == authority' \in {e \in 1..MaxEpoch : e > authority}

Adopt ==
    /\ ~retired
    /\ Advance
    /\ UNCHANGED retired

Retire ==
    /\ ~retired
    /\ authority > 0
    /\ retired' = TRUE
    /\ UNCHANGED authority

Reactivate ==
    /\ retired
    /\ Advance
    /\ retired' = FALSE

Next == Adopt \/ Retire \/ Reactivate

Spec == Init /\ [][Next]_<<authority, retired>>
=============================================================================
