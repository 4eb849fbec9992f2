--------------------------- MODULE LedgerAppend ----------------------------
(***************************************************************************)
(* How an operation of the execution ledger appends its event               *)
(* (appendOrReplay and its callers in                                       *)
(* src/core/lib/db/tables/execution-ledger.js).                             *)
(*                                                                         *)
(* A call reads the run, looks for the receipt of its transition, computes  *)
(* the event on the state it read and sends one transaction, conditioned on *)
(* the head version it read, on the absence of the receipt and on the fence *)
(* of its coordinator authority.  What the answer means is worked out from  *)
(* further reads.  The calls of all processes interleave between any two of *)
(* these database operations; a response may be lost and a transaction may  *)
(* arrive after its sender gave up.                                        *)
(*                                                                         *)
(* On LMDB and the vanilla store a read of the run is a snapshot.  The       *)
(* DynamoDB adapter follows the pages of a query: the events come first,     *)
(* head, projections and receipts later (Paged).                            *)
(***************************************************************************)
EXTENDS Naturals, Sequences, FiniteSets

CONSTANTS
    Callers,      \* concurrent calls
    Transitions,  \* caller-chosen transition identities
    Paged,        \* whether a read of the run may take more than one page
    MaxEpoch,     \* bound: coordinator authority epochs
    MaxVersion,   \* bound: versions of the run head
    MaxDelayed    \* bound: transactions under way without a waiting sender

ASSUME PagedIsBoolean == Paged \in BOOLEAN
ASSUME BoundsArePositive ==
    MaxEpoch \in Nat \ {0} /\ MaxVersion \in Nat \ {0} /\ MaxDelayed \in Nat

VARIABLES
    authority,  \* epoch of the coordinator authority in force
    history,    \* the events of the run; their number is the head version
    receipts,   \* transition -> its immutable receipt
    delayed,    \* transactions whose sender gave up
    pc,         \* caller -> next database operation of its call
    call,       \* caller -> the request in progress
    paged,      \* caller -> whether the first page of a read has come back
    seen,       \* caller -> version of the run state it holds
    outcome     \* caller -> what the call returned

table == <<authority, history, receipts>>
vars == <<authority, history, receipts, delayed, pc, call, paged, seen, outcome>>
-----------------------------------------------------------------------------
Epochs == 1..MaxEpoch
Versions == 0..MaxVersion
Version == Len(history)

\* A request of a ledger bound to an epoch; its digest covers the transition
\* and the expected version, not the epoch of the ledger that sends it.
Call == [transition : Transitions, expected : Versions, epoch : Epochs]

Event == [transition : Transitions, base : Versions, epoch : Epochs]

\* sequence 0: no receipt.  expected stands for the request digest.
Receipt == [sequence : Versions, expected : Versions]

NoReceipt == [sequence |-> 0, expected |-> 0]

Reads == {"read", "raced", "reread", "refresh"}

Steps == Reads \cup {"idle", "receipt", "append", "write", "raced-receipt",
                     "authority", "reread-receipt", "done"}

Outcomes == {"none", "applied", "replayed", "conflict", "transition-conflict",
             "stale", "unknown", "projection-error"}

ReceiptOf(c) == receipts[call[c].transition]

Exists(r) == r.sequence # 0

Answer(c, o) ==
    /\ pc' = [pc EXCEPT ![c] = "done"]
    /\ outcome' = [outcome EXCEPT ![c] = o]

Goto(c, step) ==
    /\ pc' = [pc EXCEPT ![c] = step]
    /\ UNCHANGED outcome

Init ==
    /\ authority = 1
    /\ history = <<>>
    /\ receipts = [t \in Transitions |-> NoReceipt]
    /\ delayed = {}
    /\ pc = [c \in Callers |-> "idle"]
    /\ call \in [Callers -> {[transition |-> t, expected |-> 0, epoch |-> 1] :
                                t \in Transitions}]
    /\ paged = [c \in Callers |-> FALSE]
    /\ seen = [c \in Callers |-> 0]
    /\ outcome = [c \in Callers |-> "none"]

\* Another coordinator is granted the authority (CoordinatorAuthority).
Takeover ==
    /\ authority < MaxEpoch
    /\ authority' = authority + 1
    /\ UNCHANGED <<history, receipts, delayed, pc, call, paged, seen, outcome>>

\* A call for a transition the caller thinks is next: it expects a version
\* that an earlier read returned, and its ledger holds an epoch it was granted.
Begin(c, k) ==
    /\ pc[c] = "idle"
    /\ k.expected <= Version
    /\ k.epoch <= authority
    /\ call' = [call EXCEPT ![c] = k]
    /\ Goto(c, "read")
    /\ UNCHANGED <<authority, history, receipts, delayed, paged, seen>>
-----------------------------------------------------------------------------
(***************************************************************************)
(* readVerifiedRun.                                                        *)
(***************************************************************************)
\* stateContainingTransitionReceipt: only here can the state lack the event.
AfterRead(c, version) ==
    CASE pc[c] = "read" -> Goto(c, "receipt")
      [] pc[c] = "raced" -> Goto(c, "raced-receipt")
      [] pc[c] = "reread" -> Goto(c, "reread-receipt")
      [] OTHER -> IF ReceiptOf(c).sequence <= version THEN Answer(c, "replayed")
                  ELSE Answer(c, "projection-error")

\* A run that fits one page is read at once by every adapter.
ReadSnapshot(c) ==
    /\ pc[c] \in Reads
    /\ ~paged[c]
    /\ seen' = [seen EXCEPT ![c] = Version]
    /\ AfterRead(c, Version)
    /\ UNCHANGED <<authority, history, receipts, delayed, call, paged>>

ReadEvents(c) ==
    /\ Paged
    /\ pc[c] \in Reads
    /\ ~paged[c]
    /\ paged' = [paged EXCEPT ![c] = TRUE]
    /\ seen' = [seen EXCEPT ![c] = Version]
    /\ UNCHANGED <<authority, history, receipts, delayed, pc, call, outcome>>

\* foldAndVerifyRun compares the fold of the events with head and projections.
ReadProjections(c) ==
    /\ pc[c] \in Reads
    /\ paged[c]
    /\ paged' = [paged EXCEPT ![c] = FALSE]
    /\ IF Version = seen[c] THEN AfterRead(c, seen[c])
       ELSE Answer(c, "projection-error")
    /\ UNCHANGED <<authority, history, receipts, delayed, call, seen>>
-----------------------------------------------------------------------------
(***************************************************************************)
(* Receipts before the transaction.                                        *)
(***************************************************************************)
\* assertMatchingReceipt
MatchingReceipt(c) ==
    Exists(ReceiptOf(c)) /\ ReceiptOf(c).expected = call[c].expected

\* Mutant of Replay: the state that was read before the receipt is returned.
ReplayFromOldState(c) ==
    IF MatchingReceipt(c) THEN Answer(c, "replayed")
    ELSE Answer(c, "transition-conflict")

\* existingTransitionResult: the receipt may be newer than the state.
Replay(c) ==
    \/ MatchingReceipt(c) /\ ReceiptOf(c).sequence <= seen[c] /\ Answer(c, "replayed")
    \/ MatchingReceipt(c) /\ ReceiptOf(c).sequence > seen[c] /\ Goto(c, "refresh")
    \/ ~MatchingReceipt(c) /\ Answer(c, "transition-conflict")

\* The operation looks for its receipt, then checks its expected version.
ReadReceipt(c) ==
    /\ pc[c] = "receipt"
    /\ \/ Exists(ReceiptOf(c)) /\ Replay(c)
       \/ /\ ~Exists(ReceiptOf(c))
          /\ IF seen[c] # call[c].expected THEN Answer(c, "conflict")
             ELSE Goto(c, "append")
    /\ UNCHANGED <<authority, history, receipts, delayed, call, paged, seen>>

\* appendOrReplay looks again.
ReadReceiptAgain(c) ==
    /\ pc[c] = "append"
    /\ \/ Exists(ReceiptOf(c)) /\ Replay(c)
       \/ ~Exists(ReceiptOf(c)) /\ Goto(c, "write")
    /\ UNCHANGED <<authority, history, receipts, delayed, call, paged, seen>>
-----------------------------------------------------------------------------
(***************************************************************************)
(* The transaction of appendTransition under the fence of transactionWrite. *)
(***************************************************************************)
Transaction(c) == [transition |-> call[c].transition, base |-> seen[c],
                   epoch |-> call[c].epoch]

\* Mutant of ConditionsHold: the coordinator authority fence is left out.
ConditionsHoldAtHead(tx) ==
    tx.base = Version /\ ~Exists(receipts[tx.transition])

ConditionsHold(tx) ==
    /\ tx.base = Version
    /\ ~Exists(receipts[tx.transition])
    /\ tx.epoch = authority

Commit(tx) ==
    /\ Version < MaxVersion
    /\ history' = Append(history, tx)
    /\ receipts' = [receipts EXCEPT ![tx.transition] =
                       [sequence |-> Version + 1, expected |-> tx.base]]
    /\ UNCHANGED authority

WriteAccepted(c) ==
    /\ pc[c] = "write"
    /\ ConditionsHold(Transaction(c))
    /\ Commit(Transaction(c))
    /\ Goto(c, "reread") \/ Answer(c, "unknown")
    /\ UNCHANGED <<delayed, call, paged, seen>>

\* Only a failed condition is reported as one; every other error is thrown.
WriteRefused(c) ==
    /\ pc[c] = "write"
    /\ ~ConditionsHold(Transaction(c))
    /\ Goto(c, "raced") \/ Answer(c, "unknown")
    /\ UNCHANGED <<authority, history, receipts, delayed, call, paged, seen>>

GiveUp(c) ==
    /\ pc[c] = "write"
    /\ Cardinality(delayed) < MaxDelayed
    /\ delayed' = delayed \cup {Transaction(c)}
    /\ Answer(c, "unknown")
    /\ UNCHANGED <<authority, history, receipts, call, paged, seen>>

ArriveLate(tx) ==
    /\ delayed' = delayed \ {tx}
    /\ \/ ConditionsHold(tx) /\ Commit(tx)
       \/ ~ConditionsHold(tx) /\ UNCHANGED table
    /\ UNCHANGED <<pc, call, paged, seen, outcome>>
-----------------------------------------------------------------------------
(***************************************************************************)
(* What a refused or accepted transaction means.                           *)
(***************************************************************************)
RacedReceipt(c) ==
    /\ pc[c] = "raced-receipt"
    /\ \/ Exists(ReceiptOf(c)) /\ Replay(c)
       \/ ~Exists(ReceiptOf(c)) /\ Goto(c, "authority")
    /\ UNCHANGED <<authority, history, receipts, delayed, call, paged, seen>>

\* assertCurrentCoordinatorAuthority
CheckAuthority(c) ==
    /\ pc[c] = "authority"
    /\ Answer(c, IF call[c].epoch = authority THEN "conflict" ELSE "stale")
    /\ UNCHANGED <<authority, history, receipts, delayed, call, paged, seen>>

RereadReceipt(c) ==
    /\ pc[c] = "reread-receipt"
    /\ Answer(c, IF Exists(ReceiptOf(c)) THEN "applied" ELSE "projection-error")
    /\ UNCHANGED <<authority, history, receipts, delayed, call, paged, seen>>

\* The caller takes the answer and may call again, the same or another request.
Return(c) ==
    /\ pc[c] = "done"
    /\ pc' = [pc EXCEPT ![c] = "idle"]
    /\ outcome' = [outcome EXCEPT ![c] = "none"]
    /\ seen' = [seen EXCEPT ![c] = 0]
    /\ UNCHANGED <<authority, history, receipts, delayed, call, paged>>

CallerStep(c) ==
    \/ \E k \in Call : Begin(c, k)
    \/ ReadSnapshot(c) \/ ReadEvents(c) \/ ReadProjections(c)
    \/ ReadReceipt(c) \/ ReadReceiptAgain(c)
    \/ WriteAccepted(c) \/ WriteRefused(c) \/ GiveUp(c)
    \/ RacedReceipt(c) \/ CheckAuthority(c) \/ RereadReceipt(c)
    \/ Return(c)

Next ==
    \/ Takeover
    \/ \E tx \in delayed : ArriveLate(tx)
    \/ \E c \in Callers : CallerStep(c)

Spec == Init /\ [][Next]_vars
-----------------------------------------------------------------------------
TypeOK ==
    /\ authority \in Epochs
    /\ history \in Seq(Event)
    /\ Version <= MaxVersion
    /\ receipts \in [Transitions -> Receipt]
    /\ delayed \subseteq Event
    /\ pc \in [Callers -> Steps]
    /\ call \in [Callers -> Call]
    /\ paged \in [Callers -> BOOLEAN]
    /\ seen \in [Callers -> Versions]
    /\ outcome \in [Callers -> Outcomes]

\* The appended events form one serial history: each was computed on the very
\* state it extends, once per transition, under the authority in force.
History == INSTANCE LedgerHistory

HistorySpec == History!Spec

(***************************************************************************)
(* A call that reports its transition as applied or replayed returns a      *)
(* state that contains the event of exactly this request, although state    *)
(* and receipt are read at different moments.                              *)
(***************************************************************************)
AnswersContainTheirEvent ==
    \A c \in Callers : outcome[c] \in {"applied", "replayed"} =>
        \E i \in 1..seen[c] :
            /\ i <= Version
            /\ history[i].transition = call[c].transition
            /\ history[i].base = call[c].expected

(***************************************************************************)
(* A conflict is final: the request that was answered so has not taken      *)
(* effect and never will, even though an earlier call for the same request  *)
(* may have left a transaction under way.  The caller may decide anew.       *)
(***************************************************************************)
ConflictMeansNoEffect ==
    \A c \in Callers : outcome[c] = "conflict" =>
        \A i \in DOMAIN history :
            \/ history[i].transition # call[c].transition
            \/ history[i].base # call[c].expected

\* A transition conflict names a transition that another request has used.
TransitionConflictIsReal ==
    \A c \in Callers : outcome[c] = "transition-conflict" =>
        \E i \in DOMAIN history :
            /\ history[i].transition = call[c].transition
            /\ history[i].base # call[c].expected

(***************************************************************************)
(* What a caller may conclude from an answer, whatever was read when.       *)
(***************************************************************************)
AnswersAreTrue ==
    AnswersContainTheirEvent /\ ConflictMeansNoEffect /\ TransitionConflictIsReal

(***************************************************************************)
(* The evidence and what is derived from it, as stored.                     *)
(***************************************************************************)
StoreAgrees ==
    \A t \in Transitions :
        IF Exists(receipts[t])
        THEN /\ receipts[t].sequence \in DOMAIN history
             /\ history[receipts[t].sequence].transition = t
             /\ history[receipts[t].sequence].base = receipts[t].expected
        ELSE \A i \in DOMAIN history : history[i].transition # t

(***************************************************************************)
(* "Error raised when append-only evidence and mutable projections          *)
(* disagree" (ExecutionLedgerProjectionError): a call fails with it only if  *)
(* the stored records do disagree, that is, never.                          *)
(***************************************************************************)
ProjectionErrorMeansDisagreement ==
    StoreAgrees /\ \A c \in Callers : outcome[c] # "projection-error"
=============================================================================
