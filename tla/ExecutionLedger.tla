-------------------------- MODULE ExecutionLedger --------------------------
(***************************************************************************)
(* One manual run in the execution ledger                                  *)
(* (src/core/lib/db/tables/execution-ledger.js).                            *)
(*                                                                         *)
(* The durable truth is an append-only sequence of events; the run, its one *)
(* invocation, the physical attempts of that invocation and the managed     *)
(* effects they request are projections rewritten in the transaction that   *)
(* appends the event.  That transaction compares the version of the run head *)
(* and the fence of the coordinator authority, so each operation is one     *)
(* atomic step taken on current state: a call that read an older version,   *)
(* repeats a transition identity or lost the authority writes nothing.      *)
(* LedgerAppend shows that for the append protocol itself.                  *)
(*                                                                         *)
(* An operation names an attempt by its generation: the attempt identity is *)
(* a hash of run, invocation and generation.  A cancellation request is     *)
(* named by the sequence of the event that recorded it.                     *)
(***************************************************************************)
EXTENDS Naturals, Sequences, FiniteSets

CONSTANTS
    Effects,        \* identities of the effects activity code may request
    MaxUnresolved,  \* EXECUTION_LEDGER_MAX_UNRESOLVED_MANAGED_EFFECTS
    MaxGeneration,  \* bound: claims of the invocation
    MaxEpoch        \* bound: coordinator authority epochs

ASSUME EffectsAreFinite == IsFiniteSet(Effects)
ASSUME LimitsArePositive ==
    MaxUnresolved \in Nat \ {0} /\ MaxGeneration \in Nat \ {0}
        /\ MaxEpoch \in Nat \ {0}

VARIABLES
    authority,   \* epoch of the coordinator authority now in force
    run,         \* the run projection
    invocation,  \* the projection of its invocation
    attempts,    \* generation -> attempt projection
    effects,     \* effect identity -> managed-effect projection
    events       \* the appended events; their number is the head version

projections == <<run, invocation, attempts, effects>>
vars == <<authority, run, invocation, attempts, effects, events>>
-----------------------------------------------------------------------------
(***************************************************************************)
(* Projections.                                                            *)
(***************************************************************************)
Epochs == 1..MaxEpoch
Generations == 1..MaxGeneration

FinalRun == {"COMPLETED", "FAILED", "CANCELLED"}
Succeeded == {"COMPLETED", "FAILED"}        \* effects with a verified outcome
Unresolved == {"PENDING", "STARTED"}
Resolved == Succeeded \cup {"CANCELLED", "NOT_APPLIED"}

Run == [status : FinalRun \cup {"ABSENT", "RUNNING", "BLOCKED"}, request : Nat]

Invocation ==
    [status     : FinalRun \cup {"ABSENT", "RUNNABLE", "RUNNING", "UNCERTAIN"},
     generation : 0..MaxGeneration,
     request    : Nat]

Attempt == [status  : FinalRun \cup {"ABSENT", "CLAIMED", "STARTED", "ABANDONED"},
            epoch   : 0..MaxEpoch,
            started : BOOLEAN,
            request : Nat]

Effect == [status     : Resolved \cup Unresolved \cup {"ABSENT", "UNCERTAIN"},
           generation : 0..MaxGeneration,
           started    : BOOLEAN]

NoRun == [status |-> "ABSENT", request |-> 0]
NoInvocation == [status |-> "ABSENT", generation |-> 0, request |-> 0]
NoAttempt == [status |-> "ABSENT", epoch |-> 0, started |-> FALSE, request |-> 0]
NoEffect == [status |-> "ABSENT", generation |-> 0, started |-> FALSE]

(***************************************************************************)
(* What the host retained of an attempt: the effect requests and results in *)
(* its transcript, whether it sent the cancel frame, and the terminal frame *)
(* of the component.                                                       *)
(***************************************************************************)
Terminals == {"completed", "failed", "cancelled", "protocol-failed"}

Evidence == [terminal : Terminals,
             requests : SUBSET Effects,
             results  : SUBSET Effects,
             cancel   : BOOLEAN]

NoEvidence == [terminal |-> "completed", requests |-> {}, results |-> {},
               cancel |-> FALSE]

EventTypes == {"manual-run-created", "manual-cancellation-requested",
               "attempt-claimed", "attempt-started", "effect-requested",
               "effect-started", "effect-completed", "effect-failed",
               "effect-became-uncertain", "attempt-became-uncertain",
               "attempt-terminal", "uncertain-effect-reconciled",
               "uncertain-attempt-reconciled", "attempt-abandoned-before-start"}

Event == [type       : EventTypes,
          epoch      : 0..MaxEpoch,          \* fence.coordinatorEpoch
          generation : 0..MaxGeneration,     \* fence.invocationGeneration
          run        : Run,
          invocation : Invocation,
          attempt    : Attempt,              \* NoAttempt: no attempt snapshot
          effects    : [Effects -> Effect],  \* NoEffect: no effect snapshot
          link       : Nat,                  \* uncertaintySequence, 0 if none
          evidence   : Evidence]

Version == Len(events)
Sequence == Len(events) + 1

\* The effects attempt g requested, in the effect projections fx.
AttemptEffects(fx, g) ==
    {e \in Effects : fx[e].status # "ABSENT" /\ fx[e].generation = g}

UnresolvedEffects(fx, g) ==
    {e \in AttemptEffects(fx, g) : fx[e].status \in Unresolved}

\* The aggregate in which activity code may run.
IsLive(g) ==
    /\ run.status = "RUNNING"
    /\ invocation.status = "RUNNING"
    /\ attempts[g].status = "STARTED"

IsBlocked(g) ==
    /\ run.status = "BLOCKED"
    /\ invocation.status = "UNCERTAIN"
    /\ invocation.generation = g
    /\ attempts[g].status = "ABANDONED"

\* statusesForTerminal
StatusFor(terminal) ==
    CASE terminal = "completed" -> "COMPLETED"
      [] terminal = "cancelled" -> "CANCELLED"
      [] OTHER -> "FAILED"

\* assertAttemptEvidenceMatchesManagedEffects: the transcript and the durable
\* effects of the attempt name each other, and every effect is settled.
EvidenceMatches(v, fx, g) ==
    /\ v.requests = AttemptEffects(fx, g)
    /\ v.results \subseteq v.requests
    /\ \A e \in v.requests :
          \/ e \in v.results /\ fx[e].status \in Succeeded
          \/ /\ e \notin v.results
             /\ fx[e].status \in {"CANCELLED", "NOT_APPLIED"}
             /\ v.terminal \in {"cancelled", "failed", "protocol-failed"}

\* assertSupportedManualTerminal
TerminalIsSupported(v, request) ==
    /\ v.cancel => request # 0
    /\ v.terminal = "cancelled" => v.cancel
    /\ v.terminal = "protocol-failed" => ~v.cancel
-----------------------------------------------------------------------------
(***************************************************************************)
(* One transaction: the event, with the snapshots it carries, the new head  *)
(* and the projections.                                                    *)
(***************************************************************************)
Commit(type, epoch, g, attempt, touched, link, evidence) ==
    /\ events' = Append(events,
          [type       |-> type,
           epoch      |-> epoch,
           generation |-> g,
           run        |-> run',
           invocation |-> invocation',
           attempt    |-> attempt,
           effects    |-> [e \in Effects |->
                              IF e \in touched THEN effects'[e] ELSE NoEffect],
           link       |-> link,
           evidence   |-> evidence])
    /\ UNCHANGED authority

\* An ordinary event of attempt g carries its snapshot and its fence.
CommitOf(type, g, touched, evidence) ==
    Commit(type, attempts[g].epoch, g, attempts'[g], touched, 0, evidence)

Init ==
    /\ authority = 1
    /\ run = NoRun
    /\ invocation = NoInvocation
    /\ attempts = [g \in Generations |-> NoAttempt]
    /\ effects = [e \in Effects |-> NoEffect]
    /\ events = <<>>

\* Another coordinator is granted the authority (CoordinatorAuthority).
Takeover ==
    /\ authority < MaxEpoch
    /\ authority' = authority + 1
    /\ UNCHANGED <<run, invocation, attempts, effects, events>>

\* The admission fences of the quiescence barrier and of the local activation
\* may refuse the creation; they do not change what it writes.
CreateManualRun ==
    /\ run.status = "ABSENT"
    /\ run' = [NoRun EXCEPT !.status = "RUNNING"]
    /\ invocation' = [NoInvocation EXCEPT !.status = "RUNNABLE"]
    /\ UNCHANGED <<attempts, effects>>
    /\ Commit("manual-run-created", 0, 0, NoAttempt, {}, 0, NoEvidence)
-----------------------------------------------------------------------------
(***************************************************************************)
(* Attempts.                                                               *)
(***************************************************************************)
\* assertCurrentAssignmentEpoch: a new attempt is stamped by its writer.
ClaimInvocation(w) ==
    /\ run.status = "RUNNING"
    /\ invocation.status = "RUNNABLE"
    /\ invocation.generation < MaxGeneration
    /\ LET g == invocation.generation + 1 IN
          /\ attempts[g].status = "ABSENT"
          /\ attempts' = [attempts EXCEPT ![g] =
                [NoAttempt EXCEPT !.status = "CLAIMED", !.epoch = w]]
          /\ invocation' = [invocation EXCEPT !.status = "RUNNING", !.generation = g]
          /\ UNCHANGED <<run, effects>>
          /\ Commit("attempt-claimed", w, g, attempts'[g], {}, 0, NoEvidence)

MarkAttemptStarted(g) ==
    /\ run.status = "RUNNING"
    /\ invocation.status = "RUNNING"
    /\ attempts[g].status = "CLAIMED"
    /\ attempts' = [attempts EXCEPT ![g].status = "STARTED", ![g].started = TRUE]
    /\ UNCHANGED <<run, invocation, effects>>
    /\ CommitOf("attempt-started", g, {}, NoEvidence)

\* Mutant of AbandonUnstartedAttempt: a begun attempt is given up for retry.
AbandonAnyAttempt(g) ==
    /\ run.status = "RUNNING"
    /\ invocation.status = "RUNNING"
    /\ attempts[g].status \in {"CLAIMED", "STARTED"}
    /\ attempts' = [attempts EXCEPT ![g].status = "ABANDONED"]
    /\ invocation' = [invocation EXCEPT !.status = "RUNNABLE"]
    /\ UNCHANGED <<run, effects>>
    /\ CommitOf("attempt-abandoned-before-start", g, {}, NoEvidence)

AbandonUnstartedAttempt(g) ==
    /\ run.status = "RUNNING"
    /\ invocation.status = "RUNNING"
    /\ attempts[g].status = "CLAIMED"
    /\ attempts' = [attempts EXCEPT ![g].status = "ABANDONED"]
    /\ invocation' = [invocation EXCEPT !.status = "RUNNABLE"]
    /\ UNCHANGED <<run, effects>>
    /\ CommitOf("attempt-abandoned-before-start", g, {}, NoEvidence)

CommitVerifiedAttemptTerminal(g, v) ==
    /\ IsLive(g)
    /\ EvidenceMatches(v, effects, g)
    /\ TerminalIsSupported(v, run.request)
    /\ run' = [run EXCEPT !.status = StatusFor(v.terminal)]
    /\ invocation' = [invocation EXCEPT !.status = StatusFor(v.terminal)]
    /\ attempts' = [attempts EXCEPT ![g].status = StatusFor(v.terminal)]
    /\ UNCHANGED effects
    /\ CommitOf("attempt-terminal", g, {}, v)

\* A stopped attempt: run, invocation and attempt stop together.
Stop(g) ==
    /\ run' = [run EXCEPT !.status = "BLOCKED"]
    /\ invocation' = [invocation EXCEPT !.status = "UNCERTAIN"]
    /\ attempts' = [attempts EXCEPT ![g].status = "ABANDONED"]

\* Mutant of MarkAttemptUncertain: the unresolved effects are forgotten.
MarkUncertainDespiteEffects(g) ==
    /\ IsLive(g)
    /\ Stop(g)
    /\ UNCHANGED effects
    /\ CommitOf("attempt-became-uncertain", g, {}, NoEvidence)

MarkAttemptUncertain(g) ==
    /\ IsLive(g)
    /\ UnresolvedEffects(effects, g) = {}
    /\ Stop(g)
    /\ UNCHANGED effects
    /\ CommitOf("attempt-became-uncertain", g, {}, NoEvidence)
-----------------------------------------------------------------------------
(***************************************************************************)
(* Managed effects.                                                        *)
(***************************************************************************)
BelowEffectLimit(g) == Cardinality(UnresolvedEffects(effects, g)) < MaxUnresolved

RecordManagedEffectRequest(g, e) ==
    /\ IsLive(g)
    /\ BelowEffectLimit(g)
    /\ effects[e].status = "ABSENT"
    /\ effects' = [effects EXCEPT ![e] =
          [status |-> "PENDING", generation |-> g, started |-> FALSE]]
    /\ UNCHANGED <<run, invocation, attempts>>
    /\ CommitOf("effect-requested", g, {e}, NoEvidence)

MarkManagedEffectStarted(g, e) ==
    /\ IsLive(g)
    /\ effects[e].status = "PENDING"
    /\ effects[e].generation = g
    /\ effects' = [effects EXCEPT ![e].status = "STARTED", ![e].started = TRUE]
    /\ UNCHANGED <<run, invocation, attempts>>
    /\ CommitOf("effect-started", g, {e}, NoEvidence)

\* The outcome comes with evidence that its verifier accepted.
CommitManagedEffectOutcome(g, e, status) ==
    /\ IsLive(g)
    /\ effects[e].status = "STARTED"
    /\ effects[e].generation = g
    /\ effects' = [effects EXCEPT ![e].status = status]
    /\ UNCHANGED <<run, invocation, attempts>>
    /\ CommitOf(IF status = "COMPLETED" THEN "effect-completed" ELSE "effect-failed",
                g, {e}, NoEvidence)

\* Mutant of MarkManagedEffectUncertain: other effects may be unresolved.
MarkUncertainAmongOthers(g, e) ==
    /\ IsLive(g)
    /\ effects[e].status = "STARTED"
    /\ effects[e].generation = g
    /\ Stop(g)
    /\ effects' = [effects EXCEPT ![e].status = "UNCERTAIN"]
    /\ CommitOf("effect-became-uncertain", g, {e}, NoEvidence)

MarkManagedEffectUncertain(g, e) ==
    /\ IsLive(g)
    /\ effects[e].status = "STARTED"
    /\ UnresolvedEffects(effects, g) = {e}
    /\ Stop(g)
    /\ effects' = [effects EXCEPT ![e].status = "UNCERTAIN"]
    /\ CommitOf("effect-became-uncertain", g, {e}, NoEvidence)

\* What a settlement may decide of one unresolved effect: only an effect
\* without dispatch authority is cancelled.
Dispositions(e) ==
    IF effects[e].status = "PENDING" THEN {"CANCELLED"}
    ELSE Succeeded \cup {"UNCERTAIN"}

\* The decisions cover the exact unresolved set, at most MaxUnresolved.
SettleStoppedAttemptManagedEffects(g, decision) ==
    LET settled == UnresolvedEffects(effects, g) IN
    /\ IsLive(g)
    /\ settled # {}
    /\ Cardinality(settled) <= MaxUnresolved
    /\ \A e \in settled : decision[e] \in Dispositions(e)
    /\ Stop(g)
    /\ effects' = [e \in Effects |->
          IF e \in settled THEN [effects[e] EXCEPT !.status = decision[e]]
          ELSE effects[e]]
    /\ CommitOf("attempt-became-uncertain", g, settled, NoEvidence)
-----------------------------------------------------------------------------
(***************************************************************************)
(* Reconciliation of a stopped attempt.                                    *)
(***************************************************************************)
\* The part hasExactUncertaintyEventLink and hasExactEffectUncertaintyEventLink
\* share: event u stopped this attempt, which has not changed since.
StoppedBy(u, g) ==
    /\ events[u].epoch = attempts[g].epoch
    /\ events[u].generation = g
    /\ events[u].run.status = "BLOCKED"
    /\ events[u].invocation.status = "UNCERTAIN"
    /\ events[u].attempt = attempts[g]

EffectUncertainBy(u, g, e) ==
    /\ events[u].type \in {"effect-became-uncertain", "attempt-became-uncertain"}
    /\ StoppedBy(u, g)
    /\ events[u].effects[e] = effects[e]

AttemptUncertainBy(u, g) ==
    /\ events[u].type = "attempt-became-uncertain"
    /\ StoppedBy(u, g)
    /\ events[u].run.request = run.request
    /\ events[u].invocation.request = invocation.request

\* Mutant of ReconcileUncertainManagedEffect: the run resumes with the effect.
ReconcileAndResume(g, e, u, status) ==
    /\ IsBlocked(g)
    /\ effects[e].status = "UNCERTAIN"
    /\ EffectUncertainBy(u, g, e)
    /\ effects' = [effects EXCEPT ![e].status = status]
    /\ run' = [run EXCEPT !.status = "RUNNING"]
    /\ invocation' = [invocation EXCEPT !.status = "RUNNABLE"]
    /\ UNCHANGED attempts
    /\ Commit("uncertain-effect-reconciled", attempts[g].epoch, g, NoAttempt,
              {e}, u, NoEvidence)

ReconcileUncertainManagedEffect(g, e, u, status) ==
    /\ IsBlocked(g)
    /\ effects[e].status = "UNCERTAIN"
    /\ EffectUncertainBy(u, g, e)
    /\ effects' = [effects EXCEPT ![e].status = status]
    /\ UNCHANGED <<run, invocation, attempts>>
    /\ Commit("uncertain-effect-reconciled", attempts[g].epoch, g, NoAttempt,
              {e}, u, NoEvidence)

\* The attempt stays ABANDONED: the evidence decides the logical outcome only.
ReconcileUncertainManualAttempt(g, u, v) ==
    /\ IsBlocked(g)
    /\ AttemptUncertainBy(u, g)
    /\ EvidenceMatches(v, effects, g)
    /\ TerminalIsSupported(v, run.request)
    /\ run' = [run EXCEPT !.status = StatusFor(v.terminal)]
    /\ invocation' = [invocation EXCEPT !.status = StatusFor(v.terminal)]
    /\ UNCHANGED <<attempts, effects>>
    /\ Commit("uncertain-attempt-reconciled", attempts[g].epoch, g, NoAttempt,
              {}, u, v)
-----------------------------------------------------------------------------
(***************************************************************************)
(* Cancellation.  A repeated request, a terminal run and an uncertain one   *)
(* are answered without a write (classifyDurableCancellation).              *)
(***************************************************************************)
CancelBeforeClaim ==
    /\ invocation.generation = 0
    /\ invocation.status = "RUNNABLE"
    /\ run' = [status |-> "CANCELLED", request |-> Sequence]
    /\ invocation' = [invocation EXCEPT !.status = "CANCELLED", !.request = Sequence]
    /\ UNCHANGED <<attempts, effects>>
    /\ Commit("manual-cancellation-requested", 0, 0, NoAttempt, {}, 0, NoEvidence)

\* The status of run and invocation, and that of the current attempt, once
\* the request is recorded: only a begun attempt still has to be stopped.
RequestedAt(g, status, attemptStatus) ==
    /\ run' = [status |-> status, request |-> Sequence]
    /\ invocation' = [invocation EXCEPT !.status = status, !.request = Sequence]
    /\ attempts' = [attempts EXCEPT ![g].status = attemptStatus, ![g].request = Sequence]
    /\ UNCHANGED effects
    /\ CommitOf("manual-cancellation-requested", g, {}, NoEvidence)

CancelAttempt(g) ==
    \/ /\ invocation.status = "RUNNABLE"
       /\ attempts[g].status = "ABANDONED"
       /\ RequestedAt(g, "CANCELLED", "ABANDONED")
    \/ /\ invocation.status = "RUNNING"
       /\ attempts[g].status = "CLAIMED"
       /\ RequestedAt(g, "CANCELLED", "CANCELLED")
    \/ /\ invocation.status = "RUNNING"
       /\ attempts[g].status = "STARTED"
       /\ RequestedAt(g, "RUNNING", "STARTED")

RequestManualRunCancellation ==
    /\ run.request = 0
    /\ run.status = "RUNNING"
    /\ \/ CancelBeforeClaim
       \/ invocation.generation # 0 /\ CancelAttempt(invocation.generation)
-----------------------------------------------------------------------------
EffectStep(g, e) ==
    \/ RecordManagedEffectRequest(g, e)
    \/ MarkManagedEffectStarted(g, e)
    \/ \E status \in Succeeded : CommitManagedEffectOutcome(g, e, status)
    \/ MarkManagedEffectUncertain(g, e)
    \/ /\ IsBlocked(g)
       /\ \E u \in DOMAIN events, status \in Succeeded \cup {"NOT_APPLIED"} :
             ReconcileUncertainManagedEffect(g, e, u, status)

\* A strict transcript of the attempt may lack frames, never invent effects.
Transcripts(g) == [terminal : Terminals,
                   requests : SUBSET AttemptEffects(effects, g),
                   results  : SUBSET AttemptEffects(effects, g),
                   cancel   : BOOLEAN]

AttemptStep(g) ==
    \/ MarkAttemptStarted(g)
    \/ AbandonUnstartedAttempt(g)
    \/ MarkAttemptUncertain(g)
    \/ /\ IsLive(g)
       /\ \E decision \in [UnresolvedEffects(effects, g)
                             -> Succeeded \cup {"UNCERTAIN", "CANCELLED"}] :
             SettleStoppedAttemptManagedEffects(g, decision)
    \/ /\ IsLive(g)
       /\ \E v \in Transcripts(g) : CommitVerifiedAttemptTerminal(g, v)
    \/ IsBlocked(g) /\ \E u \in DOMAIN events :
          /\ AttemptUncertainBy(u, g)
          /\ \E v \in Transcripts(g) : ReconcileUncertainManualAttempt(g, u, v)

\* transactionWrite: a ledger bound to epoch w writes while w is in force.
HoldsAuthority(w) == w = authority

Next ==
    \/ Takeover
    \/ \E w \in Epochs :
       /\ HoldsAuthority(w)
       /\ \/ CreateManualRun
          \/ ClaimInvocation(w)
          \/ RequestManualRunCancellation
          \/ \E g \in Generations :
                \/ AttemptStep(g)
                \/ \E e \in Effects : EffectStep(g, e)

Spec == Init /\ [][Next]_vars
-----------------------------------------------------------------------------
TypeOK ==
    /\ authority \in Epochs
    /\ run \in Run
    /\ invocation \in Invocation
    /\ attempts \in [Generations -> Attempt]
    /\ effects \in [Effects -> Effect]
    /\ events \in Seq(Event)

(***************************************************************************)
(* The run, the invocation and the attempts always tell one story: an       *)
(* attempt is live only if it is the current one and run and invocation are *)
(* RUNNING, every earlier attempt was given up before it began, and run and *)
(* invocation end together.  No operation checks the generation of the      *)
(* attempt it is given against that of the invocation.                      *)
(***************************************************************************)
AggregateAgrees ==
    /\ \A g \in Generations :
          /\ g > invocation.generation => attempts[g] = NoAttempt
          /\ g < invocation.generation =>
                attempts[g].status = "ABANDONED" /\ ~attempts[g].started
    /\ run.status = "ABSENT" => invocation.generation = 0
    /\ run.status = "BLOCKED" <=> invocation.status = "UNCERTAIN"
    /\ {run.status, invocation.status} \cap (FinalRun \cup {"ABSENT"}) # {} =>
          run.status = invocation.status
    /\ LET g == invocation.generation IN g # 0 =>
          /\ attempts[g].status \in {"CLAIMED", "STARTED"} <=> invocation.status = "RUNNING"
          /\ invocation.status = "RUNNABLE" => attempts[g].status = "ABANDONED"
          /\ invocation.status = "UNCERTAIN" => attempts[g].status = "ABANDONED"

(***************************************************************************)
(* Activity code begins at most once: whatever coordinators claim, abandon, *)
(* cancel and reconcile, at most one attempt of the invocation was ever     *)
(* marked started, and no claim is possible after it.                       *)
(***************************************************************************)
CodeBeginsOnce ==
    \A g, h \in Generations :
        attempts[g].started =>
            /\ g = invocation.generation
            /\ attempts[h].started => g = h
            /\ invocation.status # "RUNNABLE"

(***************************************************************************)
(* No unresolved effect is orphaned: an effect may be PENDING or STARTED    *)
(* only while the attempt that requested it is live, so that the host or a  *)
(* settlement can still decide it.                                         *)
(***************************************************************************)
UnresolvedEffectsAreOwned ==
    \A e \in Effects : effects[e].status \in Unresolved =>
        /\ effects[e].generation = invocation.generation
        /\ IsLive(invocation.generation)

(***************************************************************************)
(* The unresolved effects of an attempt always fit the one transaction that *)
(* settles them when it stops.                                             *)
(***************************************************************************)
SettlementFits ==
    \A g \in Generations : Cardinality(UnresolvedEffects(effects, g)) <= MaxUnresolved

(***************************************************************************)
(* CANCELLED says that dispatch was never authorised; every other decided   *)
(* or uncertain effect was dispatched.                                     *)
(***************************************************************************)
CancelledWasNeverDispatched ==
    \A e \in Effects :
        /\ effects[e].status \in {"CANCELLED", "PENDING"} => ~effects[e].started
        /\ effects[e].status \in Succeeded \cup {"STARTED", "UNCERTAIN", "NOT_APPLIED"}
              => effects[e].started

(***************************************************************************)
(* A run ends only when each of its effects is decided, and ends COMPLETED  *)
(* only when each has a verified outcome.                                  *)
(***************************************************************************)
EndedRunIsSettled ==
    /\ run.status \in FinalRun =>
          \A e \in Effects : effects[e].status \in Resolved \cup {"ABSENT"}
    /\ run.status = "COMPLETED" =>
          \A e \in Effects : effects[e].status \in Succeeded \cup {"ABSENT"}

(***************************************************************************)
(* Every effect is accounted for, whatever becomes of the attempt that       *)
(* requested it: somebody can decide it, what was dispatched is never        *)
(* declared cancelled, and the end of the run leaves none undecided.         *)
(***************************************************************************)
EffectsAreAccountedFor ==
    /\ UnresolvedEffectsAreOwned
    /\ CancelledWasNeverDispatched
    /\ EndedRunIsSettled

(***************************************************************************)
(* A run is CANCELLED only on the authority of a recorded request, and run, *)
(* invocation and current attempt hold the same request.                    *)
(***************************************************************************)
CancellationHasAuthority ==
    /\ run.status = "CANCELLED" => run.request # 0
    /\ invocation.request = run.request
    /\ run.request # 0 =>
          /\ run.request \in DOMAIN events
          /\ events[run.request].type = "manual-cancellation-requested"
    /\ \A g \in Generations : attempts[g].request =
          IF g = invocation.generation THEN run.request ELSE 0

(***************************************************************************)
(* Attempts are claimed under epochs that never go back: a coordinator that *)
(* lost the authority can assign no work after its successor did.           *)
(***************************************************************************)
EpochsNeverGoBack ==
    \A g, h \in Generations :
        /\ attempts[g].epoch <= authority
        /\ g < h /\ attempts[h].status # "ABSENT" =>
              attempts[g].epoch <= attempts[h].epoch

(***************************************************************************)
(* Decisions are final: an ended run, a decided effect, an ended attempt and *)
(* a recorded cancellation request keep what was recorded, and history is   *)
(* only appended to.  A blocked run is released only by the evidence that    *)
(* ends it, when none of its effects is uncertain any more.                 *)
(***************************************************************************)
DecisionsAreFinal ==
    [][ /\ run.status \in FinalRun => run' = run /\ invocation' = invocation
        /\ run.request # 0 => run'.request = run.request
        /\ \A e \in Effects : effects[e].status \in Resolved => effects'[e] = effects[e]
        /\ \A g \in Generations :
              attempts[g].status \in FinalRun \cup {"ABANDONED"} =>
                  attempts'[g].status = attempts[g].status
        /\ run.status = "BLOCKED" /\ run'.status # "BLOCKED" =>
              run'.status \in FinalRun /\ \A e \in Effects : effects[e].status # "UNCERTAIN"
        /\ \A i \in DOMAIN events : events'[i] = events[i] ]_vars
=============================================================================
