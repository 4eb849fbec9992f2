------------------------- MODULE EffectDestination -------------------------
(***************************************************************************)
(* What the application-state store promises for one business key: the      *)
(* first effect that finds the key absent inserts its value, a later one    *)
(* finds another's value, and an effect that did neither can be closed so   *)
(* that it never will.  Each effect is decided once and for ever.           *)
(* ApplicationState implements this specification.                         *)
(***************************************************************************)
CONSTANTS
    Effects,  \* destination effect identities that write the same key
    None      \* the creator of no record

VARIABLES
    business,     \* effect that created the business record, None while absent
    disposition   \* effect -> what was decided of it

Init ==
    /\ business = None
    /\ disposition = [e \in Effects |-> "open"]

Decide(e, d) ==
    /\ disposition[e] = "open"
    /\ disposition' = [disposition EXCEPT ![e] = d]

Insert(e) ==
    /\ business = None
    /\ business' = e
    /\ Decide(e, "inserted")

FindPresent(e) ==
    /\ business # None
    /\ Decide(e, "present")
    /\ UNCHANGED business

Close(e) ==
    /\ Decide(e, "not-applied")
    /\ UNCHANGED business

Next == \E e \in Effects : Insert(e) \/ FindPresent(e) \/ Close(e)

Spec == Init /\ [][Next]_<<business, disposition>>
=============================================================================
