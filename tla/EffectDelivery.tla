--------------------------- MODULE EffectDelivery ---------------------------
(***************************************************************************)
(* A managed effect between the execution ledger and its destination.       *)
(*                                                                         *)
(* A host delivers an effect (executeManagedEffect in                       *)
(* src/core/runtime/managed-effect.js): it records the request, wins the    *)
(* durable start, lets the adapter act on the destination and commits the   *)
(* outcome.  When a host is presumed stopped, recoverStoppedManagedEffects   *)
(* probes the destination and settles the unresolved effects of its attempt; *)
(* later an operator finalises an uncertain effect at the destination        *)
(* (reconcileUncertainManagedEffectAtOperatorBoundary).                     *)
(*                                                                         *)
(* The ledger is ExecutionLedger, whose operations write only if the head    *)
(* has the version their caller read; the destination is what ApplicationState *)
(* implements, EffectDestination.  Calls of all three kinds interleave with  *)
(* each other at every read and write, any of these may fail with or without *)
(* its effect, and a call may stop anywhere: a host presumed stopped may     *)
(* still act.                                                              *)
(***************************************************************************)
EXTENDS ExecutionLedger

CONSTANTS
    Callers,   \* calls in progress at the same time
    MaxCalls,  \* bound: calls begun
    Lossy,     \* whether a database call may fail or lose its response
    None       \* the creator of no record

ASSUME CallsAreBounded == MaxCalls \in Nat

VARIABLES
    business,     \* effect that created the business record, None while absent
    disposition,  \* effect -> what the destination decided of it
    late,         \* effects whose put is under way without a waiting sender
    outcomes,     \* effect -> the outcome retained with its ledger projection
    dispatched,   \* history: effect -> how often the adapter was invoked
    begun,        \* calls begun so far
    pc,           \* caller -> next step of its call
    call          \* caller -> the call

Destination == INSTANCE EffectDestination

ledger == <<vars, outcomes>>
destination == <<business, disposition, late, dispatched>>
locals == <<begun, pc, call>>
deliveryVars == <<ledger, destination, locals>>
-----------------------------------------------------------------------------
Outcomes == {"inserted", "present"}
Probes == Outcomes \cup {"none", "unknown"}
Answers == Outcomes \cup {"none", "not-applied"}
Results == Outcomes \cup {"none", "uncertain", "not-applied"}

Steps == {"idle", "done",
          "lookup", "fold", "request", "confirm", "start", "recheck-start",
          "execute", "commit", "read", "block", "mark", "after-mark",
          "survey", "probe", "settle", "target", "finalize", "close", "append"}

Call == [effect     : Effects \cup {None},  \* None: the whole set of an attempt
         generation : Generations,
         version    : Nat,                \* of the run it read
         retried    : BOOLEAN,            \* the second commitAndRead
         answer     : Answers,            \* of the destination
         probes     : [Effects -> Probes],
         result     : Results]

Begun(e, g) == [effect |-> e, generation |-> g, version |-> 0, retried |-> FALSE,
                answer |-> "none", probes |-> [f \in Effects |-> "none"],
                result |-> "none"]

Status(c) == effects[call[c].effect].status

Continue(c, step, k) ==
    /\ pc' = [pc EXCEPT ![c] = step]
    /\ call' = [call EXCEPT ![c] = k]

Goto(c, step) == Continue(c, step, call[c])

\* A step that goes on with the version of the run it has just read.
Holding(c, step) == Continue(c, step, [call[c] EXCEPT !.version = Version])

\* The call reports a result of its effect, or ends without one.
Return(c, result) ==
    Continue(c, "done",
             [Begun(call[c].effect, call[c].generation) EXCEPT !.result = result])

End(c) == Continue(c, "idle", Begun(None, 1))

At(c, step) == pc[c] = step

\* The head has not moved since the call read the run (LedgerAppend).
Current(c) == call[c].version = Version

\* A write is refused because the run moved on, or fails for no such reason.
Refused(c) == (Lossy \/ ~Current(c)) /\ UNCHANGED ledger

ReadsOnly == UNCHANGED <<ledger, destination>>

\* The outcome payload that the event of a ledger operation refers to.
Retain(e, answer) == outcomes' = [outcomes EXCEPT ![e] = answer]
-----------------------------------------------------------------------------
(***************************************************************************)
(* The destination as the adapter and the reconciliation catalog reach it.  *)
(***************************************************************************)
\* A put: the first decision of the effect, or a replay of the one it has.
Put(e) ==
    \/ Destination!Insert(e)
    \/ Destination!FindPresent(e)
    \/ disposition[e] # "open" /\ UNCHANGED <<business, disposition>>

\* A put is answered with a receipt; after a resolution it is refused.
Receipted(e) == disposition'[e] \in Outcomes

ArriveLate(e) ==
    /\ e \in late
    /\ Put(e)
    /\ late' = late \ {e}
    /\ UNCHANGED <<ledger, dispatched, locals>>

\* A resolve: closes the effect, or reports the receipt of the put that won.
Resolve(e) ==
    \/ Destination!Close(e)
    \/ disposition[e] # "open" /\ UNCHANGED <<business, disposition>>
-----------------------------------------------------------------------------
(***************************************************************************)
(* executeManagedEffect.                                                   *)
(***************************************************************************)
ExecuteManagedEffect(c, g, e) ==
    /\ attempts[g].started
    /\ Continue(c, "lookup", Begun(e, g))

\* What a retained delivery allows: to return it, to start it, or nothing.
Classify(c) ==
    \/ Status(c) \in Succeeded /\ Return(c, outcomes[call[c].effect])
    \/ Status(c) = "UNCERTAIN" /\ Return(c, "uncertain")
    \/ Status(c) \in {"STARTED", "CANCELLED", "NOT_APPLIED"} /\ End(c)
    \/ /\ Status(c) = "PENDING"
       /\ IF IsLive(call[c].generation) THEN Holding(c, "start")
          ELSE End(c)

Lookup(c) ==
    /\ At(c, "lookup")
    /\ \/ Classify(c)
       \/ Status(c) = "ABSENT" /\ Goto(c, "fold")
    /\ ReadsOnly

\* getCurrentAttempt on the rebuilt run.
Fold(c) ==
    /\ At(c, "fold")
    /\ IF /\ IsLive(call[c].generation)
          /\ invocation.generation = call[c].generation
       THEN Holding(c, "request")
       ELSE End(c)
    /\ ReadsOnly

\* Whether the request was recorded is read back in either case.
Request(c) ==
    /\ At(c, "request")
    /\ \/ /\ Current(c)
          /\ RecordManagedEffectRequest(call[c].generation, call[c].effect)
          /\ UNCHANGED outcomes
       \/ Refused(c)
    /\ Goto(c, "confirm")
    /\ UNCHANGED destination

Confirm(c) ==
    /\ At(c, "confirm")
    /\ \/ Classify(c)
       \/ Status(c) = "ABSENT" /\ End(c)
    /\ ReadsOnly

\* Mutant of WonStart: the status of the effect is taken for the dispatch.
FoundStarted(c) == effects'[call[c].effect].status = "STARTED"

\* started.applied: this call's own transaction, and not a replay of it.
WonStart(c) ==
    /\ Status(c) = "PENDING"
    /\ effects'[call[c].effect].status = "STARTED"

\* The adapter runs only if the response says that this call started it.
Start(c) ==
    /\ At(c, "start")
    /\ \/ /\ Current(c)
          /\ MarkManagedEffectStarted(call[c].generation, call[c].effect)
          /\ UNCHANGED outcomes
       \/ Refused(c)
    /\ \/ /\ WonStart(c)
          /\ Continue(c, "execute", [call[c] EXCEPT !.version = Version + 1])
       \/ (Lossy \/ ~WonStart(c)) /\ Goto(c, "recheck-start")
    /\ UNCHANGED destination

RecheckStart(c) ==
    /\ At(c, "recheck-start")
    /\ \/ Status(c) \in Succeeded /\ Return(c, outcomes[call[c].effect])
       \/ Status(c) = "UNCERTAIN" /\ Return(c, "uncertain")
    /\ ReadsOnly

\* adapter.execute: the put is answered, refused, or its response is lost,
\* and a lost put may still arrive.
Execute(c) ==
    LET e == call[c].effect IN
    /\ At(c, "execute")
    /\ dispatched' = [dispatched EXCEPT ![e] = @ + 1]
    /\ \/ /\ Put(e)
          /\ UNCHANGED late
          /\ \/ /\ Receipted(e)
                /\ Continue(c, "commit", [call[c] EXCEPT !.answer = disposition'[e]])
             \/ (Lossy \/ ~Receipted(e)) /\ Goto(c, "block")
       \/ /\ Lossy
          /\ UNCHANGED <<business, disposition>>
          /\ late' = late \cup {e}
          /\ Goto(c, "block")
    /\ UNCHANGED ledger

\* commitAndRead failed: once more with the same request, then give up.
TryAgain(c) ==
    IF call[c].retried THEN Goto(c, "block")
    ELSE Continue(c, "commit", [call[c] EXCEPT !.retried = TRUE])

\* The receipt of this call's first try: its transition is named after the
\* effect, and only the caller that started it holds an outcome to commit.
CommittedBefore(c) ==
    /\ call[c].retried
    /\ \E i \in DOMAIN events :
          /\ events[i].type = "effect-completed"
          /\ events[i].effects[call[c].effect].status = "COMPLETED"

CommitsNow(c) ==
    /\ Current(c)
    /\ CommitManagedEffectOutcome(call[c].generation, call[c].effect, "COMPLETED")
    /\ Retain(call[c].effect, call[c].answer)

CommitOutcome(c) ==
    /\ At(c, "commit")
    /\ \/ CommitsNow(c) /\ (Goto(c, "read") \/ (Lossy /\ TryAgain(c)))
       \/ UNCHANGED ledger /\ CommittedBefore(c) /\ Goto(c, "read")
       \/ Refused(c) /\ TryAgain(c)
    /\ UNCHANGED destination

ReadOutcome(c) ==
    /\ At(c, "read")
    /\ \/ Status(c) \in Succeeded /\ Return(c, outcomes[call[c].effect])
       \/ Lossy /\ TryAgain(c)
    /\ ReadsOnly

\* blockUncertainManagedEffect.
Settled(c) ==
    \/ Status(c) \in Succeeded /\ Return(c, outcomes[call[c].effect])
    \/ /\ Status(c) = "UNCERTAIN" /\ run.status = "BLOCKED"
       /\ Return(c, "uncertain")

Block(c) ==
    /\ At(c, "block")
    /\ \/ Settled(c)
       \/ /\ Status(c) = "STARTED" /\ IsLive(call[c].generation)
          /\ Holding(c, "mark")
    /\ ReadsOnly

MarkUncertain(c) ==
    /\ At(c, "mark")
    /\ \/ /\ Current(c)
          /\ MarkManagedEffectUncertain(call[c].generation, call[c].effect)
          /\ UNCHANGED outcomes
          /\ (Return(c, "uncertain") \/ (Lossy /\ Goto(c, "after-mark")))
       \/ Refused(c) /\ Goto(c, "after-mark")
    /\ UNCHANGED destination

AfterMark(c) ==
    /\ At(c, "after-mark")
    /\ Settled(c)
    /\ ReadsOnly
-----------------------------------------------------------------------------
(***************************************************************************)
(* recoverStoppedManagedEffects.  The two reads of the whole set and the    *)
(* settlement all name one version of the run.                             *)
(***************************************************************************)
RecoverStoppedManagedEffects(c, g) ==
    Continue(c, "survey", Begun(None, g))

\* selectStoppedManagedEffectSet
Survey(c) ==
    LET g == call[c].generation IN
    /\ At(c, "survey")
    /\ IsLive(g) /\ invocation.generation = g
    /\ UnresolvedEffects(effects, g) # {}
    /\ Holding(c, "probe")
    /\ ReadsOnly

\* Mutant of ProbeOf: the business record instead of the receipt.
ProbeOfRecord(e) ==
    IF business = None THEN "unknown"
    ELSE IF business = e THEN "inserted" ELSE "present"

\* recoverOutcome, a read-only probe: a receipt, or null.
ProbeOf(e) == IF disposition[e] \in Outcomes THEN disposition[e] ELSE "unknown"

\* If the run moves on meanwhile the call can only fail.
Probe(c, e) ==
    /\ At(c, "probe")
    /\ Current(c)
    /\ effects[e].status = "STARTED"
    /\ effects[e].generation = call[c].generation
    /\ call[c].probes[e] = "none"
    /\ Continue(c, "probe", [call[c] EXCEPT !.probes[e] = ProbeOf(e)])
    /\ ReadsOnly

\* Every started effect is probed before the set is read again.
Recheck(c) ==
    /\ At(c, "probe")
    /\ Current(c)
    /\ \A e \in UnresolvedEffects(effects, call[c].generation) :
          effects[e].status = "STARTED" => call[c].probes[e] # "none"
    /\ Goto(c, "settle")
    /\ ReadsOnly

DecisionOf(c, e) ==
    IF effects[e].status = "PENDING" THEN "CANCELLED"
    ELSE IF call[c].probes[e] \in Outcomes THEN "COMPLETED" ELSE "UNCERTAIN"

\* A lost response is answered by looking for the call's own event.
Settle(c) ==
    LET g == call[c].generation IN
    /\ At(c, "settle")
    /\ Current(c)
    /\ SettleStoppedAttemptManagedEffects(g,
          [e \in UnresolvedEffects(effects, g) |-> DecisionOf(c, e)])
    /\ outcomes' = [e \in Effects |->
          IF effects'[e].status = "COMPLETED" /\ effects[e].status # "COMPLETED"
          THEN call[c].probes[e] ELSE outcomes[e]]
    /\ End(c)
    /\ UNCHANGED destination
-----------------------------------------------------------------------------
(***************************************************************************)
(* reconcileUncertainManagedEffectAtOperatorBoundary and the reconciliation *)
(* catalog's reconcileEffect.                                              *)
(***************************************************************************)
ReconcileAtOperatorBoundary(c, g, e) ==
    Continue(c, "target", Begun(e, g))

\* The same reconciliation is retained already.
Reconciled(e) ==
    \E i \in DOMAIN events :
        /\ events[i].type = "uncertain-effect-reconciled"
        /\ events[i].effects[e] = effects[e]
        /\ effects[e].status # "ABSENT"

\* getUncertainEffectReconciliationTarget
Target(c) ==
    LET e == call[c].effect IN
    /\ At(c, "target")
    /\ \/ /\ IsBlocked(call[c].generation)
          /\ Status(c) = "UNCERTAIN"
          /\ Holding(c, "finalize")
       \/ /\ Reconciled(e)
          /\ Return(c, IF Status(c) = "NOT_APPLIED" THEN "not-applied" ELSE outcomes[e])
    /\ ReadsOnly

\* A receipt is the outcome; without one the effect is closed first.
Finalize(c) ==
    LET answer == ProbeOf(call[c].effect) IN
    /\ At(c, "finalize")
    /\ IF answer = "unknown" THEN Goto(c, "close")
       ELSE Continue(c, "append", [call[c] EXCEPT !.answer = answer])
    /\ ReadsOnly

\* Mutant of CloseEffect: an absent receipt is enough for not-applied.
CloseNothing(c) ==
    /\ At(c, "close")
    /\ UNCHANGED <<business, disposition>>
    /\ Continue(c, "append", [call[c] EXCEPT !.answer = "not-applied"])
    /\ UNCHANGED <<ledger, late, dispatched>>

CloseEffect(c) ==
    LET e == call[c].effect IN
    /\ At(c, "close")
    /\ Resolve(e)
    /\ \/ Continue(c, "append", [call[c] EXCEPT !.answer = disposition'[e]])
       \/ End(c)
    /\ UNCHANGED <<ledger, late, dispatched>>

AppendReconciliation(c) ==
    LET e == call[c].effect
        applied == call[c].answer \in Outcomes
    IN
    /\ At(c, "append")
    /\ Current(c)
    /\ \E u \in DOMAIN events :
          ReconcileUncertainManagedEffect(call[c].generation, e, u,
             IF applied THEN "COMPLETED" ELSE "NOT_APPLIED")
    /\ IF applied THEN Retain(e, call[c].answer) ELSE UNCHANGED outcomes
    /\ \/ Return(c, call[c].answer)
       \/ End(c)
    /\ UNCHANGED destination
-----------------------------------------------------------------------------
\* A read fails, a check refuses, or the process stops: the call is over.
Fail(c) ==
    /\ pc[c] \notin {"idle", "done"}
    /\ End(c)
    /\ ReadsOnly

\* The rest of the run: its creation, its attempt, its cancellation, its end.
Lifecycle ==
    /\ \/ CreateManualRun
       \/ ClaimInvocation(authority)
       \/ RequestManualRunCancellation
       \/ \E g \in Generations :
             \/ MarkAttemptStarted(g)
             \/ AbandonUnstartedAttempt(g)
             \/ MarkAttemptUncertain(g)
             \/ /\ IsLive(g)
                /\ \E v \in Transcripts(g) : CommitVerifiedAttemptTerminal(g, v)
             \/ IsBlocked(g) /\ \E u \in DOMAIN events :
                   /\ AttemptUncertainBy(u, g)
                   /\ \E v \in Transcripts(g) : ReconcileUncertainManualAttempt(g, u, v)
    /\ UNCHANGED <<outcomes, destination, locals>>

Deliver(c) ==
    \/ Lookup(c) \/ Fold(c) \/ Request(c) \/ Confirm(c)
    \/ Start(c) \/ RecheckStart(c) \/ Execute(c)
    \/ CommitOutcome(c) \/ ReadOutcome(c)
    \/ Block(c) \/ MarkUncertain(c) \/ AfterMark(c)

Recover(c) == Survey(c) \/ (\E e \in Effects : Probe(c, e)) \/ Recheck(c) \/ Settle(c)

Reconcile(c) == Target(c) \/ Finalize(c) \/ CloseEffect(c) \/ AppendReconciliation(c)

Begin(c) ==
    /\ begun < MaxCalls
    /\ begun' = begun + 1
    /\ pc[c] \in {"idle", "done"}
    /\ \E g \in Generations :
          \/ RecoverStoppedManagedEffects(c, g)
          \/ \E e \in Effects :
                ExecuteManagedEffect(c, g, e) \/ ReconcileAtOperatorBoundary(c, g, e)
    /\ ReadsOnly

DeliveryInit ==
    /\ Init
    /\ Destination!Init
    /\ late = {}
    /\ outcomes = [e \in Effects |-> "none"]
    /\ dispatched = [e \in Effects |-> 0]
    /\ begun = 0
    /\ pc = [c \in Callers |-> "idle"]
    /\ call = [c \in Callers |-> Begun(None, 1)]

DeliveryNext ==
    \/ Lifecycle
    \/ \E e \in Effects : ArriveLate(e)
    \/ \E c \in Callers :
          \/ Begin(c)
          \/ UNCHANGED begun /\ (Deliver(c) \/ Recover(c) \/ Reconcile(c) \/ Fail(c))

DeliverySpec == DeliveryInit /\ [][DeliveryNext]_deliveryVars
-----------------------------------------------------------------------------
DeliveryTypeOK ==
    /\ business \in Effects \cup {None}
    /\ disposition \in [Effects -> Outcomes \cup {"open", "not-applied"}]
    /\ late \subseteq Effects
    /\ outcomes \in [Effects -> Outcomes \cup {"none"}]
    /\ dispatched \in [Effects -> Nat]
    /\ begun \in 0..MaxCalls
    /\ pc \in [Callers -> Steps]
    /\ call \in [Callers -> Call]

(***************************************************************************)
(* What the ledger says of an effect is what its destination did: a         *)
(* retained outcome is the decision of the destination, NOT_APPLIED effects  *)
(* are closed there for ever, and the destination of an effect that is not   *)
(* yet started or was CANCELLED was never asked to act.  Recovery, operator, *)
(* late puts and hosts presumed stopped act on both sides meanwhile.        *)
(***************************************************************************)
LedgerTellsDestination ==
    \A e \in Effects :
        /\ effects[e].status = "COMPLETED" =>
              outcomes[e] \in Outcomes /\ outcomes[e] = disposition[e]
        /\ effects[e].status = "NOT_APPLIED" => disposition[e] = "not-applied"
        /\ effects[e].status \in {"ABSENT", "PENDING", "CANCELLED"} =>
              disposition[e] = "open" /\ dispatched[e] = 0 /\ e \notin late

(***************************************************************************)
(* The adapter is invoked at most once for an effect, whatever is sent      *)
(* again, lost or recovered.                                               *)
(***************************************************************************)
AdapterRunsOnce == \A e \in Effects : dispatched[e] <= 1

(***************************************************************************)
(* A result returned to the component or to the operator is the one the     *)
(* ledger retains: no answer of the destination is passed on before its     *)
(* outcome is durable.                                                     *)
(***************************************************************************)
ReturnedResultIsDurable ==
    \A c \in Callers : pc[c] = "done" =>
        /\ call[c].result \in Outcomes =>
              Status(c) = "COMPLETED" /\ outcomes[call[c].effect] = call[c].result
        /\ call[c].result = "not-applied" => Status(c) = "NOT_APPLIED"
        /\ call[c].result = "uncertain" =>
              Status(c) \in Succeeded \cup {"UNCERTAIN", "NOT_APPLIED"}

(***************************************************************************)
(* A call that is about to block the run for an uncertain effect does not    *)
(* hold the outcome of it: the comment of markManagedEffectUncertain limits   *)
(* it to an adapter that "may have begun but no registered verifier can      *)
(* establish its destination outcome".                                      *)
(***************************************************************************)
UncertaintyIsUnknown ==
    \A c \in Callers : At(c, "mark") => call[c].answer \notin Outcomes

(***************************************************************************)
(* Once a run has ended nothing of it can still happen at the destination:  *)
(* no late put and no host presumed stopped decides an effect any more.     *)
(***************************************************************************)
EndedRunIsQuiet ==
    [][run.status \in FinalRun => UNCHANGED <<business, disposition>>]_deliveryVars
=============================================================================
