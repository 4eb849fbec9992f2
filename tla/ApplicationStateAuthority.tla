---------------------- MODULE ApplicationStateAuthority ----------------------
(***************************************************************************)
(* How coordinators adopt, retire and reactivate an application-state store  *)
(* (adoptCoordinatorAuthority, retireStore and reactivateRetiredStore in     *)
(* src/core/lib/db/tables/application-state.js), database operation by       *)
(* database operation.                                                     *)
(*                                                                         *)
(* Each call reads some of three rows, sends one conditional transaction and *)
(* reads rows again, both to confirm an accepted write and to find out what  *)
(* a failed one means.  Any write may fail with or without its effect and    *)
(* any caller may stop between two operations.  The module is one store with *)
(* one namespace; its identity never changes.                               *)
(***************************************************************************)
EXTENDS Naturals, Sequences

CONSTANTS
    Callers,    \* processes with a call in progress
    Transfers,  \* identities of transfers of the store
    None,       \* the transfer of no record
    MaxEpoch    \* bound: coordinator authority epochs

VARIABLES
    table,    \* the rows: authority, retirement and activation
    pc,       \* caller -> phase of its call
    call,     \* caller -> the call in progress
    unread,   \* caller -> rows it has yet to read in this phase
    seen,     \* caller -> the rows as it last read them
    outcome,  \* caller -> what the call returned
    sealed    \* history: epochs that ever retired the store

vars == <<table, pc, call, unread, seen, outcome, sealed>>
-----------------------------------------------------------------------------
Epochs == 1..MaxEpoch

\* A retirement or an activation, by a transfer under an epoch.
Record == [transfer : Transfers \cup {None}, epoch : 0..MaxEpoch]

NoRecord == [transfer |-> None, epoch |-> 0]

Rows == [authority : 0..MaxEpoch, retirement : Record, activation : Record]

NoRows == [authority |-> 0, retirement |-> NoRecord, activation |-> NoRecord]

Call == [op : {"adopt", "retire", "reactivate"}, epoch : Epochs,
         transfer : Transfers]

Phases == {"idle", "existing", "look", "verify", "write", "verify-failed",
           "failed", "confirm", "done"}

\* failed: the conflict error, or the error of the transaction itself.
Outcomes == {"none", "adopted", "sealed", "reactivated", "retired", "stale",
             "identity", "failed"}

Candidate(c) == [transfer |-> call[c].transfer, epoch |-> call[c].epoch]

Retired(rows) == rows.retirement # NoRecord

\* The rows a call reads in a phase, in the order of the code.
Reads(op, phase) ==
    CASE op = "adopt" -> IF phase = "confirm" THEN <<"authority", "retirement">>
                         ELSE <<"retirement", "authority">>
      [] op = "retire" -> IF phase = "look" THEN <<"retirement", "authority">>
                          ELSE <<"retirement">>
      [] op = "reactivate" ->
           IF phase = "confirm" THEN <<"authority", "activation", "retirement">>
           ELSE <<"authority", "retirement", "activation">>

Init ==
    /\ table = NoRows
    /\ pc = [c \in Callers |-> "idle"]
    /\ \E t \in Transfers :
          call = [c \in Callers |-> [op |-> "adopt", epoch |-> 1, transfer |-> t]]
    /\ unread = [c \in Callers |-> <<>>]
    /\ seen = [c \in Callers |-> NoRows]
    /\ outcome = [c \in Callers |-> "none"]
    /\ sealed = {}
-----------------------------------------------------------------------------
Enter(c, phase) ==
    /\ pc' = [pc EXCEPT ![c] = phase]
    /\ unread' = [unread EXCEPT ![c] = Reads(call'[c].op, phase)]
    /\ UNCHANGED <<seen, outcome>>

Send(c, transaction) ==
    /\ pc' = [pc EXCEPT ![c] = transaction]
    /\ UNCHANGED <<unread, seen, outcome>>

Answer(c, o) ==
    /\ pc' = [pc EXCEPT ![c] = "done"]
    /\ seen' = [seen EXCEPT ![c] = NoRows]
    /\ outcome' = [outcome EXCEPT ![c] = o]
    /\ UNCHANGED unread

\* The call is made by a coordinator that was granted its epoch.
Begin(c, k) ==
    /\ pc[c] = "idle"
    /\ call' = [call EXCEPT ![c] = k]
    /\ Enter(c, IF k.op = "retire" THEN "existing" ELSE "look")
    /\ UNCHANGED <<table, sealed>>

ReadRow(c) ==
    /\ unread[c] # <<>>
    /\ seen' = [seen EXCEPT ![c][Head(unread[c])] = table[Head(unread[c])]]
    /\ unread' = [unread EXCEPT ![c] = Tail(@)]
    /\ UNCHANGED <<table, pc, call, outcome, sealed>>

\* All rows of the phase were read.
Decides(c, phase) ==
    /\ pc[c] = phase
    /\ unread[c] = <<>>
    /\ UNCHANGED <<table, call, sealed>>

Write(rows) ==
    /\ table' = rows
    /\ sealed' = IF Retired(rows) THEN sealed \cup {rows.retirement.epoch}
                 ELSE sealed

\* The transaction came back with an error, whether or not it took effect.
Fails(c, rows, phase) ==
    /\ Write(table) \/ Write(rows)
    /\ UNCHANGED call
    /\ Enter(c, phase)

Succeeds(c, rows) ==
    /\ Write(rows)
    /\ UNCHANGED call
    /\ Enter(c, "confirm")
-----------------------------------------------------------------------------
(***************************************************************************)
(* adoptCoordinatorAuthority                                               *)
(***************************************************************************)
\* readCoordinatorAdoptionPrecondition
LookBeforeAdoption(c) ==
    /\ call[c].op = "adopt"
    /\ Decides(c, "look")
    /\ CASE Retired(seen[c]) -> Answer(c, "retired")
         [] ~Retired(seen[c]) /\ seen[c].authority > call[c].epoch ->
              Answer(c, "stale")
         [] ~Retired(seen[c]) /\ seen[c].authority = call[c].epoch ->
              Send(c, "verify")
         [] OTHER -> Send(c, "write")

\* The epoch was adopted before: the transaction only checks.
VerifyAdoption(c) ==
    /\ pc[c] = "verify"
    /\ \/ /\ ~Retired(table) /\ table.authority = call[c].epoch
          /\ Answer(c, "adopted")
          /\ UNCHANGED <<table, call, sealed>>
       \/ Fails(c, table, "verify-failed")

ExplainVerification(c) ==
    /\ Decides(c, "verify-failed")
    /\ Answer(c, IF Retired(seen[c]) THEN "retired" ELSE "failed")

\* Mutant of AdoptionHolds: the predecessor is not compared.
AdoptionUnlessRetired(c) == ~Retired(table)

\* The exact predecessor is still in place.
AdoptionHolds(c) ==
    /\ ~Retired(table)
    /\ table.authority = seen[c].authority

WriteAdoption(c) ==
    LET rows == [table EXCEPT !.authority = call[c].epoch] IN
    /\ pc[c] = "write"
    /\ call[c].op = "adopt"
    /\ \/ AdoptionHolds(c) /\ Succeeds(c, rows)
       \/ AdoptionHolds(c) /\ Fails(c, rows, "failed")
       \/ Fails(c, table, "failed")

\* The rows are read again after a failed write and after an accepted one.
ConfirmAdoption(c) ==
    /\ call[c].op = "adopt"
    /\ Decides(c, "failed") \/ Decides(c, "confirm")
    /\ CASE Retired(seen[c]) -> Answer(c, "retired")
         [] ~Retired(seen[c]) /\ seen[c].authority = call[c].epoch ->
              Answer(c, "adopted")
         [] ~Retired(seen[c]) /\ seen[c].authority > call[c].epoch ->
              Answer(c, "stale")
         [] OTHER -> Answer(c, "failed")
-----------------------------------------------------------------------------
(***************************************************************************)
(* retireStore                                                             *)
(***************************************************************************)
IsOwnSeal(c) == seen[c].retirement = Candidate(c)

LookForRetirement(c) ==
    /\ Decides(c, "existing")
    /\ CASE IsOwnSeal(c) -> Answer(c, "sealed")
         [] ~Retired(seen[c]) -> Enter(c, "look")
         [] OTHER -> Answer(c, "identity")

\* assertCurrentCoordinatorAuthority
LookBeforeRetirement(c) ==
    /\ call[c].op = "retire"
    /\ Decides(c, "look")
    /\ CASE Retired(seen[c]) -> Answer(c, "retired")
         [] ~Retired(seen[c]) /\ seen[c].authority # call[c].epoch ->
              Answer(c, "stale")
         [] OTHER -> Send(c, "write")

RetirementHolds(c) == ~Retired(table) /\ table.authority = call[c].epoch

WriteRetirement(c) ==
    LET rows == [table EXCEPT !.retirement = Candidate(c)] IN
    /\ pc[c] = "write"
    /\ call[c].op = "retire"
    /\ \/ RetirementHolds(c) /\ Succeeds(c, rows)
       \/ RetirementHolds(c) /\ Fails(c, rows, "failed")
       \/ Fails(c, table, "failed")

ExplainRetirement(c) ==
    /\ call[c].op = "retire"
    /\ Decides(c, "failed")
    /\ Answer(c, IF IsOwnSeal(c) THEN "sealed" ELSE "failed")

ConfirmRetirement(c) ==
    /\ call[c].op = "retire"
    /\ Decides(c, "confirm")
    /\ Answer(c, IF IsOwnSeal(c) THEN "sealed" ELSE "identity")
-----------------------------------------------------------------------------
(***************************************************************************)
(* reactivateRetiredStore                                                  *)
(***************************************************************************)
IsReactivated(c) ==
    /\ ~Retired(seen[c])
    /\ seen[c].authority = call[c].epoch
    /\ seen[c].activation = Candidate(c)

\* Mutant of IsSuperseded: the epoch that retired the store may reopen it.
IsLower(c) == call[c].epoch < seen[c].authority

IsSuperseded(c) ==
    \/ call[c].epoch <= seen[c].authority
    \/ call[c].epoch <= seen[c].retirement.epoch

LookBeforeReactivation(c) ==
    /\ call[c].op = "reactivate"
    /\ Decides(c, "look")
    /\ CASE IsReactivated(c) -> Answer(c, "reactivated")
         [] ~IsReactivated(c) /\ seen[c].retirement.transfer # call[c].transfer ->
              Answer(c, "identity")
         [] OTHER -> IF IsSuperseded(c) THEN Answer(c, "stale")
                     ELSE Send(c, "write")

\* Exactly the three rows that were read.
ReactivationHolds(c) == table = seen[c]

WriteReactivation(c) ==
    LET rows == [authority |-> call[c].epoch, retirement |-> NoRecord,
                 activation |-> Candidate(c)] IN
    /\ pc[c] = "write"
    /\ call[c].op = "reactivate"
    /\ \/ ReactivationHolds(c) /\ Succeeds(c, rows)
       \/ ReactivationHolds(c) /\ Fails(c, rows, "failed")
       \/ Fails(c, table, "failed")

ConfirmReactivation(c) ==
    /\ call[c].op = "reactivate"
    /\ Decides(c, "failed") \/ Decides(c, "confirm")
    /\ Answer(c, IF IsReactivated(c) THEN "reactivated" ELSE "failed")
-----------------------------------------------------------------------------
\* The caller takes the answer, or its process stops in the middle of a call.
Leave(c) ==
    /\ pc[c] # "idle"
    /\ pc' = [pc EXCEPT ![c] = "idle"]
    /\ unread' = [unread EXCEPT ![c] = <<>>]
    /\ seen' = [seen EXCEPT ![c] = NoRows]
    /\ outcome' = [outcome EXCEPT ![c] = "none"]
    /\ UNCHANGED <<table, call, sealed>>

Next == \E c \in Callers :
    \/ \E k \in Call : Begin(c, k)
    \/ ReadRow(c)
    \/ LookBeforeAdoption(c) \/ VerifyAdoption(c) \/ ExplainVerification(c)
    \/ WriteAdoption(c) \/ ConfirmAdoption(c)
    \/ LookForRetirement(c) \/ LookBeforeRetirement(c)
    \/ WriteRetirement(c) \/ ExplainRetirement(c) \/ ConfirmRetirement(c)
    \/ LookBeforeReactivation(c) \/ WriteReactivation(c) \/ ConfirmReactivation(c)
    \/ Leave(c)

Spec == Init /\ [][Next]_vars
-----------------------------------------------------------------------------
TypeOK ==
    /\ table \in Rows
    /\ pc \in [Callers -> Phases]
    /\ call \in [Callers -> Call]
    /\ unread \in [Callers -> Seq({"authority", "retirement", "activation"})]
    /\ seen \in [Callers -> Rows]
    /\ outcome \in [Callers -> Outcomes]
    /\ sealed \subseteq Epochs

(***************************************************************************)
(* The calls move the fence as ApplicationState takes it to move: epochs     *)
(* advance, and only over an open store or together with its reactivation.  *)
(***************************************************************************)
Fence == INSTANCE StoreFence
             WITH authority <- table.authority, retired <- Retired(table)

FenceSpec == Fence!Spec

(***************************************************************************)
(* What a coordinator was told still binds the store: the epoch it adopted   *)
(* or reactivated is in force or superseded, and the store it sealed is      *)
(* sealed by its own transfer or was taken over by a higher epoch.           *)
(***************************************************************************)
AnswersBind == \A c \in Callers :
    /\ outcome[c] \in {"adopted", "reactivated"} =>
          call[c].epoch <= table.authority
    /\ outcome[c] = "sealed" =>
          \/ table.retirement = Candidate(c)
          \/ call[c].epoch < table.authority

(***************************************************************************)
(* Only the epoch in force seals the store, and the predecessor never        *)
(* regains a write window (reactivateRetiredStore): an epoch that sealed the *)
(* store is never again the epoch of an open store.                         *)
(***************************************************************************)
SealedEpochsStayClosed ==
    /\ Retired(table) => table.retirement.epoch = table.authority
    /\ \A e \in sealed : Retired(table) \/ table.authority # e

(***************************************************************************)
(* A transfer of the store binds: what its caller was told holds, and the    *)
(* coordinator that gave the store up is out for good.                      *)
(***************************************************************************)
TransfersBind == AnswersBind /\ SealedEpochsStayClosed
=============================================================================
