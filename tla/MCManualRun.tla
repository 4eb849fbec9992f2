---------------------------- MODULE MCManualRun ----------------------------
(***************************************************************************)
(* A manual run seen from two sides, both under the eyes of the reader that   *)
(* folds its events (LedgerReader): the calls that carry its effects to a     *)
(* destination (EffectDelivery), and the whole life of the run in the ledger. *)
(* A behaviour of this instance is a behaviour of one of them, chosen at its  *)
(* start.                                                                    *)
(***************************************************************************)
EXTENDS EffectDelivery, LedgerReader, TLC

VARIABLE subject

InitAll == DeliveryInit /\ ReaderInit /\ subject \in {"delivery", "life"}

\* The life of a run is about the ledger alone: nobody calls, and of the
\* destination it is known what the ledger says.
Told ==
    /\ outcomes' = [e \in Effects |->
           IF effects'[e].status = "COMPLETED" THEN "inserted" ELSE "none"]
    /\ disposition' = [e \in Effects |->
           IF effects'[e].status = "COMPLETED" THEN "inserted"
           ELSE IF effects'[e].status = "NOT_APPLIED" THEN "not-applied" ELSE "open"]
    /\ UNCHANGED <<business, late, dispatched, locals>>

NextAll ==
    /\ UNCHANGED subject
    /\ \/ subject = "delivery" /\ DeliveryNext /\ Read
       \/ subject = "life" /\ ReaderNext /\ Told

SpecAll == InitAll /\ [][NextAll]_<<subject, deliveryVars, folded>>

\* While the last call is under way the calls are about one effect, at most one of
\* them delivers it and no cancellation is asked for.
Delivering(c) ==
    pc[c] \in {"lookup", "fold", "request", "confirm", "start", "recheck-start",
               "execute", "commit", "read", "block", "mark", "after-mark"}
Crowd ==
    begun = MaxCalls =>
        /\ \A c, d \in Callers : Delivering(c) /\ Delivering(d) => c = d
        /\ Cardinality({call[c].effect : c \in Callers} \ {None}) <= 1
        /\ run.request = 0

Symmetry == Permutations(Effects) \cup Permutations(Callers)
=============================================================================
