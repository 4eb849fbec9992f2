----------------------- MODULE MCCoordinatorAuthority -----------------------
EXTENDS CoordinatorAuthority, TLC

Symmetry == Permutations(Clients) \cup Permutations(Coordinators)
               \cup Permutations(Requests)

\* At most two calls are under way at a time, a transaction that its caller
\* gave up on counts as one: two clients interleave every operation, or one
\* goes on while its own late transaction is still to arrive.  Once two
\* requests took effect one call is under way, or two that went past their reads.
Active == {c \in Clients : pc[c] # "idle"}
Retained == {r \in Requests : receipts[r].retained}
Crowd ==
    /\ Cardinality(Active) + Cardinality(delayed) <= 2
    /\ \/ Cardinality(Retained) < 2
       \/ Cardinality(Active) + Cardinality(delayed) <= 1
       \/ \A c \in Active : pc[c] \in {"write", "refused", "lost", "done"}
=============================================================================
