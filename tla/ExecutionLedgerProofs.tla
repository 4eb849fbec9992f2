----------------------- MODULE ExecutionLedgerProofs -----------------------
(***************************************************************************)
(* Proofs about ExecutionLedger, about the reader that folds its events      *)
(* (LedgerReader) and about the deliveries that move its effects to their    *)
(* destination (EffectDelivery), for every set of effects, callers and calls *)
(* and every bound.                                                         *)
(*                                                                         *)
(* The types are inductive by themselves.  The safety invariants are not:   *)
(* Coherent joins them with what each relies on, which attempts have begun *)
(* and whose effects may exist, and is preserved by every operation.        *)
(***************************************************************************)
EXTENDS EffectDelivery, LedgerReader, SequenceTheorems, FiniteSetTheorems, TLAPS

USE LimitsArePositive DEF Epochs, Generations

(***************************************************************************)
(* Types.                                                                  *)
(***************************************************************************)

\* Appending changes no earlier element.
LEMMA AppendExtends ==
    ASSUME NEW S, NEW s \in Seq(S), NEW x \in S, NEW t, t = Append(s, x)
    PROVE /\ t \in Seq(S)
          /\ Len(t) = Len(s) + 1
          /\ \A i \in 1..Len(s) : t[i] = s[i]
          /\ t[Len(s) + 1] = x
<1>1. t \in Seq(S)
  OBVIOUS
<1>2. Len(t) = Len(s) + 1
  OBVIOUS
<1>3. ASSUME NEW i \in 1..Len(s) PROVE t[i] = s[i]
  OBVIOUS
<1>4. t[Len(s) + 1] = x
  OBVIOUS
<1> QED
  BY <1>1, <1>2, <1>3, <1>4

\* A committed event extends the history by itself and nothing else.
LEMMA CommitAppends ==
    ASSUME events \in Seq(Event),
           NEW type \in EventTypes, NEW epoch \in 0..MaxEpoch,
           NEW g \in 0..MaxGeneration, NEW attempt \in Attempt, NEW touched,
           NEW link \in Nat, NEW evidence \in Evidence,
           run' \in Run, invocation' \in Invocation,
           effects' \in [Effects -> Effect],
           Commit(type, epoch, g, attempt, touched, link, evidence)
    PROVE /\ events' \in Seq(Event)
          /\ Len(events') = Len(events) + 1
          /\ \A i \in 1..Len(events) : events'[i] = events[i]
          /\ events'[Len(events) + 1].type = type
          /\ authority' = authority
<1>1. PICK ev \in Event : events' = Append(events, ev) /\ ev.type = type
  <2> DEFINE snapshot == [type       |-> type,
                          epoch      |-> epoch,
                          generation |-> g,
                          run        |-> run',
                          invocation |-> invocation',
                          attempt    |-> attempt,
                          effects    |-> [e \in Effects |->
                             IF e \in touched THEN effects'[e] ELSE NoEffect],
                          link       |-> link,
                          evidence   |-> evidence]
  <2>1. snapshot \in Event
    <3>1. NoEffect \in Effect
      BY DEF NoEffect, Effect
    <3>2. snapshot.effects \in [Effects -> Effect]
      BY <3>1
    <3> QED
      BY <3>2 DEF Event
  <2>2. events' = Append(events, snapshot)
    BY DEF Commit
  <2>3. snapshot.type = type
    OBVIOUS
  <2> HIDE DEF snapshot
  <2> QED
    BY <2>1, <2>2, <2>3
<1>2. authority' = authority
  BY DEF Commit
<1>3. /\ events' \in Seq(Event)
      /\ Len(events') = Len(events) + 1
      /\ \A i \in 1..Len(events) : events'[i] = events[i]
      /\ events'[Len(events) + 1] = ev
  BY <1>1, AppendExtends
<1> QED
  BY <1>1, <1>2, <1>3

\* Every projection named in an action is well typed.
LEMMA NothingIsTyped ==
    /\ NoRun \in Run /\ NoInvocation \in Invocation
    /\ NoAttempt \in Attempt /\ NoEffect \in Effect /\ NoEvidence \in Evidence
BY DEF NoRun, NoInvocation, NoAttempt, NoEffect, NoEvidence, Run, Invocation,
       Attempt, Effect, Evidence, Terminals

LEMMA StatusForIsFinal == ASSUME NEW t PROVE StatusFor(t) \in FinalRun
BY DEF StatusFor, FinalRun

\* A step of attempt g that keeps the projections typed keeps the history typed.
LEMMA CommitOfTyped ==
    ASSUME TypeOK, NEW type \in EventTypes, NEW g \in Generations, NEW touched,
           NEW evidence \in Evidence,
           run' \in Run, invocation' \in Invocation,
           attempts' \in [Generations -> Attempt], effects' \in [Effects -> Effect],
           CommitOf(type, g, touched, evidence)
    PROVE TypeOK'
<1>1. attempts[g] \in Attempt /\ attempts'[g] \in Attempt
  BY DEF TypeOK
<1>2. attempts[g].epoch \in 0..MaxEpoch
  BY <1>1 DEF Attempt
<1>3. events' \in Seq(Event) /\ authority' = authority
  BY <1>1, <1>2, CommitAppends DEF CommitOf, TypeOK
<1> QED
  BY <1>3 DEF TypeOK

LEMMA AttemptStepTyped ==
    ASSUME TypeOK, NEW g \in Generations, AttemptStep(g)
    PROVE TypeOK'
<1> USE NothingIsTyped
<1>0. attempts[g] \in Attempt
  BY DEF TypeOK
<1>1. CASE MarkAttemptStarted(g)
  <2>1. attempts' \in [Generations -> Attempt]
    BY <1>1 DEF MarkAttemptStarted, TypeOK, Attempt
  <2> QED
    BY <1>1, <2>1, CommitOfTyped DEF MarkAttemptStarted, TypeOK, EventTypes
<1>2. CASE AbandonUnstartedAttempt(g)
  <2>1. attempts' \in [Generations -> Attempt] /\ invocation' \in Invocation
    BY <1>2 DEF AbandonUnstartedAttempt, TypeOK, Attempt, Invocation
  <2> QED
    BY <1>2, <2>1, CommitOfTyped DEF AbandonUnstartedAttempt, TypeOK, EventTypes
<1>3. ASSUME Stop(g)
      PROVE /\ attempts' \in [Generations -> Attempt]
            /\ invocation' \in Invocation /\ run' \in Run
  BY <1>3 DEF Stop, TypeOK, Attempt, Invocation, Run
<1>4. CASE MarkAttemptUncertain(g)
  BY <1>3, <1>4, CommitOfTyped DEF MarkAttemptUncertain, TypeOK, EventTypes
<1>5. ASSUME NEW decision \in [UnresolvedEffects(effects, g) ->
                                  Succeeded \cup {"UNCERTAIN", "CANCELLED"}],
             SettleStoppedAttemptManagedEffects(g, decision)
      PROVE TypeOK'
  <2>1. effects' \in [Effects -> Effect]
    BY <1>5 DEF SettleStoppedAttemptManagedEffects, TypeOK, Effect, Succeeded, Resolved
  <2> QED
    BY <1>3, <1>5, <2>1, CommitOfTyped
    DEF SettleStoppedAttemptManagedEffects, TypeOK, EventTypes
<1>6. ASSUME NEW v \in Transcripts(g) PROVE v \in Evidence
  BY DEF Transcripts, Evidence, AttemptEffects
<1>7. ASSUME NEW v \in Transcripts(g), CommitVerifiedAttemptTerminal(g, v)
      PROVE TypeOK'
  <2>1. /\ attempts' \in [Generations -> Attempt]
        /\ invocation' \in Invocation /\ run' \in Run
    BY <1>7, StatusForIsFinal DEF CommitVerifiedAttemptTerminal, TypeOK, Attempt,
       Invocation, Run
  <2> QED
    BY <1>6, <1>7, <2>1, CommitOfTyped
    DEF CommitVerifiedAttemptTerminal, TypeOK, EventTypes
<1>8. ASSUME NEW v \in Transcripts(g), NEW u \in DOMAIN events,
             ReconcileUncertainManualAttempt(g, u, v)
      PROVE TypeOK'
  <2>1. invocation' \in Invocation /\ run' \in Run
    BY <1>8, StatusForIsFinal DEF ReconcileUncertainManualAttempt, TypeOK,
       Invocation, Run
  <2>2. u \in Nat /\ attempts[g].epoch \in 0..MaxEpoch /\ g \in 0..MaxGeneration
    BY <1>0 DEF TypeOK, Attempt
  <2>3. events' \in Seq(Event) /\ authority' = authority
    <3>1. Commit("uncertain-attempt-reconciled", attempts[g].epoch, g, NoAttempt,
                 {}, u, v)
      BY <1>8 DEF ReconcileUncertainManualAttempt
    <3>2. effects' \in [Effects -> Effect]
      BY <1>8 DEF ReconcileUncertainManualAttempt, TypeOK
    <3> QED
      BY <1>6, <2>1, <2>2, <3>1, <3>2, CommitAppends DEF TypeOK, EventTypes
  <2> QED
    BY <1>8, <2>1, <2>3 DEF ReconcileUncertainManualAttempt, TypeOK
<1> QED
  BY <1>1, <1>2, <1>4, <1>5, <1>7, <1>8 DEF AttemptStep

LEMMA EffectStepTyped ==
    ASSUME TypeOK, NEW g \in Generations, NEW e \in Effects, EffectStep(g, e)
    PROVE TypeOK'
<1> USE NothingIsTyped
<1>0. attempts[g] \in Attempt
  BY DEF TypeOK
<1>1. CASE RecordManagedEffectRequest(g, e)
  <2>1. effects' \in [Effects -> Effect]
    BY <1>1 DEF RecordManagedEffectRequest, TypeOK, Effect, Unresolved
  <2> QED
    BY <1>1, <2>1, CommitOfTyped DEF RecordManagedEffectRequest, TypeOK, EventTypes
<1>2. CASE MarkManagedEffectStarted(g, e)
  <2>1. effects' \in [Effects -> Effect]
    BY <1>2 DEF MarkManagedEffectStarted, TypeOK, Effect, Unresolved
  <2> QED
    BY <1>2, <2>1, CommitOfTyped DEF MarkManagedEffectStarted, TypeOK, EventTypes
<1>3. ASSUME NEW status \in Succeeded, CommitManagedEffectOutcome(g, e, status)
      PROVE TypeOK'
  <2>1. effects' \in [Effects -> Effect]
    BY <1>3 DEF CommitManagedEffectOutcome, TypeOK, Effect, Succeeded, Resolved
  <2> DEFINE type == IF status = "COMPLETED" THEN "effect-completed" ELSE "effect-failed"
  <2>2. type \in EventTypes
    BY DEF EventTypes
  <2>3. CommitOf(type, g, {e}, NoEvidence)
    BY <1>3 DEF CommitManagedEffectOutcome
  <2> HIDE DEF type
  <2> QED
    BY <1>3, <2>1, <2>2, <2>3, CommitOfTyped DEF CommitManagedEffectOutcome, TypeOK
<1>4. CASE MarkManagedEffectUncertain(g, e)
  <2>1. /\ attempts' \in [Generations -> Attempt]
        /\ invocation' \in Invocation /\ run' \in Run
    BY <1>4 DEF MarkManagedEffectUncertain, Stop, TypeOK, Attempt, Invocation, Run
  <2>2. effects' \in [Effects -> Effect]
    BY <1>4 DEF MarkManagedEffectUncertain, TypeOK, Effect
  <2> QED
    BY <1>4, <2>1, <2>2, CommitOfTyped DEF MarkManagedEffectUncertain, EventTypes
<1>5. ASSUME NEW u \in DOMAIN events, NEW status \in Succeeded \cup {"NOT_APPLIED"},
             ReconcileUncertainManagedEffect(g, e, u, status)
      PROVE TypeOK'
  <2>1. effects' \in [Effects -> Effect]
    BY <1>5 DEF ReconcileUncertainManagedEffect, TypeOK, Effect, Succeeded, Resolved
  <2>2. u \in Nat /\ attempts[g].epoch \in 0..MaxEpoch /\ g \in 0..MaxGeneration
    BY <1>0 DEF TypeOK, Attempt
  <2>3. run' = run /\ invocation' = invocation /\ attempts' = attempts
    BY <1>5 DEF ReconcileUncertainManagedEffect
  <2>4. events' \in Seq(Event) /\ authority' = authority
    <3>1. Commit("uncertain-effect-reconciled", attempts[g].epoch, g, NoAttempt,
                 {e}, u, NoEvidence)
      BY <1>5 DEF ReconcileUncertainManagedEffect
    <3>2. run' \in Run /\ invocation' \in Invocation
      BY <2>3 DEF TypeOK
    <3> QED
      BY <2>1, <2>2, <3>1, <3>2, CommitAppends DEF TypeOK, EventTypes
  <2> QED
    BY <2>1, <2>3, <2>4 DEF TypeOK
<1> QED
  BY <1>1, <1>2, <1>3, <1>4, <1>5 DEF EffectStep

LEMMA CancellationTyped ==
    ASSUME TypeOK, RequestManualRunCancellation
    PROVE TypeOK'
<1> USE NothingIsTyped
<1>0. Sequence \in Nat
  BY LenProperties DEF Sequence, TypeOK
<1>1. CASE CancelBeforeClaim
  <2>1. /\ run' \in Run /\ invocation' \in Invocation
        /\ effects' = effects /\ attempts' = attempts
    BY <1>0, <1>1 DEF CancelBeforeClaim, TypeOK, Run, Invocation, FinalRun
  <2>2. Commit("manual-cancellation-requested", 0, 0, NoAttempt, {}, 0, NoEvidence)
    BY <1>1 DEF CancelBeforeClaim
  <2>3. 0 \in 0..MaxEpoch /\ 0 \in 0..MaxGeneration /\ 0 \in Nat
    OBVIOUS
  <2>4. effects' \in [Effects -> Effect]
    BY <2>1 DEF TypeOK
  <2>5. events' \in Seq(Event) /\ authority' = authority
    BY <2>1, <2>2, <2>3, <2>4, CommitAppends DEF TypeOK, EventTypes
  <2> QED
    BY <2>1, <2>5 DEF TypeOK
<1>2. ASSUME NEW g \in Generations, CancelAttempt(g)
      PROVE TypeOK'
  <2>1. PICK status \in {"RUNNING", "CANCELLED"},
             attemptStatus \in {"ABANDONED", "CANCELLED", "STARTED"} :
                RequestedAt(g, status, attemptStatus)
    BY <1>2 DEF CancelAttempt
  <2>2. /\ attempts' \in [Generations -> Attempt]
        /\ invocation' \in Invocation /\ run' \in Run
    BY <1>0, <2>1 DEF RequestedAt, TypeOK, Attempt, Invocation, Run, FinalRun
  <2> QED
    BY <2>1, <2>2, CommitOfTyped DEF RequestedAt, TypeOK, EventTypes
<1> QED
  BY <1>1, <1>2 DEF RequestManualRunCancellation, TypeOK, Invocation

LEMMA TypeStep ==
    ASSUME TypeOK, [Next]_vars PROVE TypeOK'
<1>1. CASE UNCHANGED vars
  BY <1>1 DEF vars, TypeOK
<1>2. CASE Takeover
  BY <1>2 DEF Takeover, TypeOK
<1>3. CASE CreateManualRun
  <2>1. /\ run' \in Run /\ invocation' \in Invocation
        /\ effects' = effects /\ attempts' = attempts
    BY <1>3 DEF CreateManualRun, TypeOK, Run, Invocation, NoRun, NoInvocation
  <2>2. Commit("manual-run-created", 0, 0, NoAttempt, {}, 0, NoEvidence)
    BY <1>3 DEF CreateManualRun
  <2>3. 0 \in 0..MaxEpoch /\ 0 \in 0..MaxGeneration /\ 0 \in Nat
    OBVIOUS
  <2>4. effects' \in [Effects -> Effect]
    BY <2>1 DEF TypeOK
  <2>5. events' \in Seq(Event) /\ authority' = authority
    BY <2>1, <2>2, <2>3, <2>4, CommitAppends, NothingIsTyped
    DEF TypeOK, EventTypes
  <2> QED
    BY <2>1, <2>5 DEF TypeOK
<1>4. ASSUME NEW w \in Epochs, ClaimInvocation(w) PROVE TypeOK'
  <2> DEFINE g == invocation.generation + 1
  <2>1. g \in Generations /\ w \in 0..MaxEpoch
    BY <1>4 DEF ClaimInvocation, TypeOK, Invocation
  <2>2. /\ attempts' \in [Generations -> Attempt] /\ invocation' \in Invocation
        /\ run' = run /\ effects' = effects
    <3>1. [NoAttempt EXCEPT !.status = "CLAIMED", !.epoch = w] \in Attempt
      BY <2>1 DEF Attempt, NoAttempt
    <3>2. attempts' = [attempts EXCEPT ![g] =
                          [NoAttempt EXCEPT !.status = "CLAIMED", !.epoch = w]]
      BY <1>4 DEF ClaimInvocation
    <3>3. /\ invocation' = [invocation EXCEPT !.status = "RUNNING", !.generation = g]
          /\ run' = run /\ effects' = effects
      BY <1>4 DEF ClaimInvocation
    <3>4. g \in 0..MaxGeneration
      BY <2>1
    <3> HIDE DEF g
    <3>5. invocation' \in Invocation
      BY <3>3, <3>4 DEF TypeOK, Invocation
    <3> QED
      BY <2>1, <3>1, <3>2, <3>3, <3>5 DEF TypeOK
  <2>3. Commit("attempt-claimed", w, g, attempts'[g], {}, 0, NoEvidence)
    BY <1>4 DEF ClaimInvocation
  <2>4. /\ attempts'[g] \in Attempt /\ g \in 0..MaxGeneration
        /\ run' \in Run /\ effects' \in [Effects -> Effect]
    BY <2>1, <2>2 DEF TypeOK
  <2> HIDE DEF g
  <2>5. events' \in Seq(Event) /\ authority' = authority
    BY <2>1, <2>2, <2>3, <2>4, CommitAppends, NothingIsTyped
    DEF TypeOK, EventTypes
  <2> QED
    BY <2>2, <2>5 DEF TypeOK
<1> QED
  BY <1>1, <1>2, <1>3, <1>4, AttemptStepTyped, EffectStepTyped,
     CancellationTyped DEF Next

\* TypeOK: the projections and the history are always well typed.
THEOREM TypeCorrect == Spec => []TypeOK
<1>1. Init => TypeOK
  BY NothingIsTyped, EmptySeq DEF Init, TypeOK
<1>2. TypeOK /\ [Next]_vars => TypeOK'
  BY TypeStep
<1> QED
  BY <1>1, <1>2, PTL DEF Spec
-----------------------------------------------------------------------------
(***************************************************************************)
(* The lifecycle of the aggregate.                                         *)
(***************************************************************************)

\* What the safety invariants rely on: an attempt that has not begun is told
\* from one that has, and only a begun attempt owns effects.
OnlyBegunAttemptsOwnEffects ==
    /\ \A g \in Generations :
          /\ attempts[g].status = "CLAIMED" => ~attempts[g].started
          /\ attempts[g].status = "STARTED" => attempts[g].started
    /\ \A e \in Effects : effects[e].status # "ABSENT" =>
          /\ effects[e].generation \in Generations
          /\ attempts[effects[e].generation].started

\* The invariant of the projections.
Coherent ==
    /\ AggregateAgrees
    /\ CodeBeginsOnce
    /\ OnlyBegunAttemptsOwnEffects
    /\ UnresolvedEffectsAreOwned
    /\ CancelledWasNeverDispatched
    /\ EndedRunIsSettled

\* A claimed or begun attempt is the current one, and its run is running.
LEMMA LiveIsCurrent ==
    ASSUME TypeOK, AggregateAgrees, NEW g \in Generations,
           attempts[g].status \in {"CLAIMED", "STARTED"}
    PROVE /\ g = invocation.generation
          /\ invocation.status = "RUNNING"
          /\ run.status = "RUNNING"
<1>1. g = invocation.generation
  BY DEF AggregateAgrees, TypeOK, Invocation, NoAttempt
<1>2. invocation.status = "RUNNING"
  BY <1>1 DEF AggregateAgrees
<1>3. run.status = "RUNNING"
  BY <1>2 DEF AggregateAgrees, TypeOK, Run, FinalRun
<1> QED
  BY <1>1, <1>2, <1>3

\* Every effect was requested by the current attempt.
LEMMA OwnersAreCurrent ==
    ASSUME CodeBeginsOnce, OnlyBegunAttemptsOwnEffects,
           NEW e \in Effects, effects[e].status # "ABSENT"
    PROVE /\ effects[e].generation = invocation.generation
          /\ invocation.generation \in Generations
          /\ attempts[invocation.generation].started
BY DEF CodeBeginsOnce, OnlyBegunAttemptsOwnEffects

\* What every step needs to know of the arithmetic of generations.
LEMMA GenerationIsNatural ==
    ASSUME TypeOK
    PROVE /\ invocation.generation \in 0..MaxGeneration
          /\ DOMAIN attempts = Generations
          /\ \A g \in Generations : attempts[g] \in Attempt
BY DEF TypeOK, Invocation

\* An attempt ends or is given up, its effects decided: run, invocation and
\* attempt leave the live statuses together and nothing begins.
LEMMA EndingCoherent ==
    ASSUME TypeOK, Coherent, NEW g \in Generations,
           g = invocation.generation,
           attempts[g].status # "ABSENT",
           run'.status \in FinalRun \cup {"BLOCKED"},
           invocation'.status \in FinalRun \cup {"UNCERTAIN"},
           \/ run'.status = "BLOCKED" /\ invocation'.status = "UNCERTAIN"
           \/ run'.status \in FinalRun /\ invocation'.status = run'.status,
           invocation'.generation = g,
           run'.status = "BLOCKED" => attempts'[g].status = "ABANDONED",
           attempts'[g].status \in FinalRun \cup {"ABANDONED"},
           attempts'[g].started = attempts[g].started,
           \A h \in Generations : h # g => attempts'[h] = attempts[h],
           \A e \in Effects :
              /\ effects'[e].generation = effects[e].generation
              /\ effects'[e].started = effects[e].started
              /\ effects[e].status = "ABSENT" => effects'[e].status = "ABSENT"
              /\ effects[e].status = "PENDING" => effects'[e].status = "CANCELLED"
              /\ effects[e].status = "STARTED" =>
                    effects'[e].status \in Succeeded \cup {"UNCERTAIN"}
              /\ effects[e].status \notin Unresolved =>
                    effects'[e].status = effects[e].status,
           run'.status \in FinalRun => \A e \in Effects :
              effects'[e].status \in Resolved \cup {"ABSENT"},
           run'.status = "COMPLETED" => \A e \in Effects :
              effects'[e].status \in Succeeded \cup {"ABSENT"}
    PROVE Coherent'
<1> USE GenerationIsNatural DEF Coherent, FinalRun, Succeeded, Unresolved
<1>1. AggregateAgrees'
  <2>1. ASSUME NEW h \in Generations
        PROVE /\ h > g => attempts'[h] = NoAttempt
              /\ h < g => attempts'[h].status = "ABANDONED" /\ ~attempts'[h].started
    BY <2>1 DEF AggregateAgrees
  <2> QED
    BY <2>1 DEF AggregateAgrees
<1>2. CodeBeginsOnce'
  BY DEF CodeBeginsOnce
<1>3. OnlyBegunAttemptsOwnEffects'
  BY DEF OnlyBegunAttemptsOwnEffects
<1>4. UnresolvedEffectsAreOwned'
  BY DEF UnresolvedEffectsAreOwned, TypeOK, Effect, Resolved
<1>5. CancelledWasNeverDispatched'
  BY DEF CancelledWasNeverDispatched, Resolved
<1>6. EndedRunIsSettled'
  BY DEF EndedRunIsSettled
<1> QED
  BY <1>1, <1>2, <1>3, <1>4, <1>5, <1>6

\* A live attempt that is stopped, its unresolved effects decided.
LEMMA StoppedCoherent ==
    ASSUME TypeOK, Coherent, NEW g \in Generations, IsLive(g), Stop(g),
           \A e \in Effects :
              /\ effects'[e].generation = effects[e].generation
              /\ effects'[e].started = effects[e].started
              /\ effects[e].status = "ABSENT" => effects'[e].status = "ABSENT"
              /\ effects[e].status = "PENDING" => effects'[e].status = "CANCELLED"
              /\ effects[e].status = "STARTED" =>
                    effects'[e].status \in Succeeded \cup {"UNCERTAIN"}
              /\ effects[e].status \notin Unresolved =>
                    effects'[e].status = effects[e].status
    PROVE Coherent'
<1>1. g = invocation.generation
  BY LiveIsCurrent DEF IsLive, Coherent
<1>2. /\ run'.status = "BLOCKED" /\ invocation'.status = "UNCERTAIN"
      /\ invocation'.generation = g
  BY <1>1 DEF Stop, TypeOK, Run, Invocation
<1>3. /\ attempts'[g].status = "ABANDONED" /\ attempts'[g].started = attempts[g].started
      /\ \A h \in Generations : h # g => attempts'[h] = attempts[h]
  BY DEF Stop, TypeOK, Attempt
<1>4. attempts[g].status # "ABSENT"
  BY DEF IsLive
<1> QED
  BY <1>1, <1>2, <1>3, <1>4, EndingCoherent DEF FinalRun

\* All effects belong to the current attempt.
LEMMA AllEffectsAreCurrent ==
    ASSUME Coherent
    PROVE /\ AttemptEffects(effects, invocation.generation) =
                {e \in Effects : effects[e].status # "ABSENT"}
          /\ UnresolvedEffects(effects, invocation.generation) =
                {e \in Effects : effects[e].status \in Unresolved}
<1>1. AttemptEffects(effects, invocation.generation) =
         {e \in Effects : effects[e].status # "ABSENT"}
  BY OwnersAreCurrent DEF AttemptEffects, Coherent
<1> QED
  BY <1>1 DEF UnresolvedEffects, Unresolved

\* A terminal frame ends the run, the effects unchanged.
LEMMA TerminalCoherent ==
    ASSUME TypeOK, Coherent, NEW g \in Generations, NEW v \in Evidence,
           g = invocation.generation, attempts[g].status # "ABSENT",
           EvidenceMatches(v, effects, g),
           run' = [run EXCEPT !.status = StatusFor(v.terminal)],
           invocation' = [invocation EXCEPT !.status = StatusFor(v.terminal)],
           \A h \in Generations : h # g => attempts'[h] = attempts[h],
           attempts'[g].status \in FinalRun \cup {"ABANDONED"},
           attempts'[g].started = attempts[g].started,
           effects' = effects
    PROVE Coherent'
<1>1. /\ run'.status \in FinalRun /\ invocation'.status = run'.status
      /\ invocation'.generation = g
      /\ run'.status = "COMPLETED" => v.terminal = "completed"
  BY DEF StatusFor, FinalRun, TypeOK, Run, Invocation
<1>2. v.requests = {e \in Effects : effects[e].status # "ABSENT"}
  BY AllEffectsAreCurrent DEF EvidenceMatches
<1>3. ASSUME NEW e \in Effects
      PROVE /\ effects[e].status \in Resolved \cup {"ABSENT"}
            /\ run'.status = "COMPLETED" => effects[e].status \in Succeeded \cup {"ABSENT"}
  BY <1>1, <1>2 DEF EvidenceMatches, Resolved
<1>4. \A e \in Effects : effects[e].status \notin Unresolved
  BY <1>3 DEF Unresolved, Resolved, Succeeded
<1> QED
  BY <1>1, <1>3, <1>4, EndingCoherent DEF FinalRun, Unresolved

LEMMA AttemptStepCoherent ==
    ASSUME TypeOK, Coherent, NEW g \in Generations, AttemptStep(g)
    PROVE Coherent'
<1>1. CASE MarkAttemptStarted(g)
  <2>1. /\ g = invocation.generation
        /\ run' = run /\ invocation' = invocation /\ effects' = effects
        /\ run.status = "RUNNING" /\ invocation.status = "RUNNING"
        /\ attempts[g].status = "CLAIMED"
    BY <1>1, LiveIsCurrent DEF MarkAttemptStarted, Coherent
  <2>2. /\ attempts'[g].status = "STARTED" /\ attempts'[g].started
        /\ \A h \in Generations : h # g => attempts'[h] = attempts[h]
    BY <1>1 DEF MarkAttemptStarted, TypeOK, Attempt
  <2>3. \A e \in Effects : effects[e].status = "ABSENT"
    BY <2>1, OwnersAreCurrent DEF Coherent, OnlyBegunAttemptsOwnEffects
  <2> USE GenerationIsNatural DEF Coherent
  <2>4. AggregateAgrees'
    <3>1. ASSUME NEW h \in Generations
          PROVE /\ h > g => attempts'[h] = NoAttempt
                /\ h < g => attempts'[h].status = "ABANDONED" /\ ~attempts'[h].started
      BY <2>1, <2>2 DEF AggregateAgrees
    <3> QED
      BY <2>1, <2>2, <3>1 DEF AggregateAgrees
  <2>5. CodeBeginsOnce'
    BY <2>1, <2>2 DEF CodeBeginsOnce, AggregateAgrees, NoAttempt
  <2>6. OnlyBegunAttemptsOwnEffects' /\ UnresolvedEffectsAreOwned'
    BY <2>1, <2>2, <2>3 DEF OnlyBegunAttemptsOwnEffects, UnresolvedEffectsAreOwned,
       Unresolved
  <2>7. CancelledWasNeverDispatched' /\ EndedRunIsSettled'
    BY <2>1 DEF CancelledWasNeverDispatched, EndedRunIsSettled
  <2> QED
    BY <2>4, <2>5, <2>6, <2>7
<1>2. CASE AbandonUnstartedAttempt(g)
  <2>1. /\ g = invocation.generation
        /\ run' = run /\ effects' = effects
        /\ invocation'.status = "RUNNABLE" /\ invocation'.generation = g
        /\ run.status = "RUNNING" /\ invocation.status = "RUNNING"
        /\ attempts[g].status = "CLAIMED" /\ ~attempts[g].started
    BY <1>2, LiveIsCurrent DEF AbandonUnstartedAttempt, Coherent,
       OnlyBegunAttemptsOwnEffects, TypeOK, Invocation
  <2>2. /\ attempts'[g].status = "ABANDONED" /\ ~attempts'[g].started
        /\ \A h \in Generations : h # g => attempts'[h] = attempts[h]
    BY <1>2, <2>1 DEF AbandonUnstartedAttempt, TypeOK, Attempt
  <2>3. \A e \in Effects : effects[e].status = "ABSENT"
    BY <2>1, OwnersAreCurrent DEF Coherent, OnlyBegunAttemptsOwnEffects
  <2> USE GenerationIsNatural DEF Coherent
  <2>4. AggregateAgrees'
    <3>1. ASSUME NEW h \in Generations
          PROVE /\ h > g => attempts'[h] = NoAttempt
                /\ h < g => attempts'[h].status = "ABANDONED" /\ ~attempts'[h].started
      BY <2>1, <2>2 DEF AggregateAgrees
    <3> QED
      BY <2>1, <2>2, <3>1 DEF AggregateAgrees, FinalRun
  <2>5. CodeBeginsOnce'
    BY <2>1, <2>2 DEF CodeBeginsOnce
  <2>6. OnlyBegunAttemptsOwnEffects' /\ UnresolvedEffectsAreOwned'
    BY <2>1, <2>2, <2>3 DEF OnlyBegunAttemptsOwnEffects, UnresolvedEffectsAreOwned,
       Unresolved
  <2>7. CancelledWasNeverDispatched' /\ EndedRunIsSettled'
    BY <2>1 DEF CancelledWasNeverDispatched, EndedRunIsSettled
  <2> QED
    BY <2>4, <2>5, <2>6, <2>7
<1>3. CASE MarkAttemptUncertain(g)
  <2>1. IsLive(g) /\ Stop(g) /\ effects' = effects
    BY <1>3 DEF MarkAttemptUncertain
  <2>2. g = invocation.generation
    BY <2>1, LiveIsCurrent DEF IsLive, Coherent
  <2>3. \A e \in Effects : effects[e].status \notin Unresolved
    BY <1>3, <2>2, AllEffectsAreCurrent DEF MarkAttemptUncertain
  <2> QED
    BY <2>1, <2>3, StoppedCoherent DEF Unresolved
<1>4. ASSUME NEW decision \in [UnresolvedEffects(effects, g) ->
                                  Succeeded \cup {"UNCERTAIN", "CANCELLED"}],
             SettleStoppedAttemptManagedEffects(g, decision)
      PROVE Coherent'
  <2> DEFINE settled == UnresolvedEffects(effects, g)
  <2>1. /\ IsLive(g) /\ Stop(g)
        /\ \A e \in settled : decision[e] \in Dispositions(e)
        /\ effects' = [e \in Effects |->
              IF e \in settled THEN [effects[e] EXCEPT !.status = decision[e]]
              ELSE effects[e]]
    BY <1>4 DEF SettleStoppedAttemptManagedEffects
  <2>2. settled = {e \in Effects : effects[e].status \in Unresolved}
    BY <2>1, LiveIsCurrent, AllEffectsAreCurrent DEF IsLive, Coherent
  <2> HIDE DEF settled
  <2>3. ASSUME NEW e \in Effects
        PROVE /\ effects'[e].generation = effects[e].generation
              /\ effects'[e].started = effects[e].started
              /\ effects[e].status \in Unresolved =>
                    effects'[e].status \in Dispositions(e)
              /\ effects[e].status \notin Unresolved =>
                    effects'[e].status = effects[e].status
    BY <2>1, <2>2 DEF TypeOK, Effect
  <2> QED
    BY <2>1, <2>3, StoppedCoherent DEF Dispositions, Unresolved
<1>5. ASSUME NEW v \in Transcripts(g) PROVE v \in Evidence
  BY DEF Transcripts, Evidence, AttemptEffects
<1>6. ASSUME NEW v \in Transcripts(g), CommitVerifiedAttemptTerminal(g, v)
      PROVE Coherent'
  <2>1. g = invocation.generation /\ attempts[g].status # "ABSENT"
    BY <1>6, LiveIsCurrent DEF CommitVerifiedAttemptTerminal, IsLive, Coherent
  <2>2. /\ attempts'[g].status \in FinalRun
        /\ attempts'[g].started = attempts[g].started
        /\ \A h \in Generations : h # g => attempts'[h] = attempts[h]
    BY <1>6, StatusForIsFinal DEF CommitVerifiedAttemptTerminal, TypeOK, Attempt
  <2>3. /\ EvidenceMatches(v, effects, g)
        /\ run' = [run EXCEPT !.status = StatusFor(v.terminal)]
        /\ invocation' = [invocation EXCEPT !.status = StatusFor(v.terminal)]
        /\ effects' = effects
    BY <1>6 DEF CommitVerifiedAttemptTerminal
  <2> QED
    BY <1>5, <2>1, <2>2, <2>3, TerminalCoherent
<1>7. ASSUME NEW v \in Transcripts(g), NEW u \in DOMAIN events,
             ReconcileUncertainManualAttempt(g, u, v)
      PROVE Coherent'
  <2>1. /\ g = invocation.generation /\ attempts[g].status = "ABANDONED"
        /\ EvidenceMatches(v, effects, g)
        /\ run' = [run EXCEPT !.status = StatusFor(v.terminal)]
        /\ invocation' = [invocation EXCEPT !.status = StatusFor(v.terminal)]
        /\ effects' = effects /\ attempts' = attempts
    BY <1>7 DEF ReconcileUncertainManualAttempt, IsBlocked
  <2> QED
    BY <1>5, <2>1, TerminalCoherent
<1> QED
  BY <1>1, <1>2, <1>3, <1>4, <1>6, <1>7 DEF AttemptStep

\* An effect moves while run, invocation and attempts stand still.
LEMMA EffectMoves ==
    ASSUME TypeOK, Coherent, NEW e \in Effects,
           run' = run, invocation' = invocation, attempts' = attempts,
           \A f \in Effects : f # e => effects'[f] = effects[f],
           effects'[e].generation = invocation.generation,
           attempts[invocation.generation].started,
           invocation.generation \in Generations,
           effects'[e].status \in {"CANCELLED", "PENDING"} => ~effects'[e].started,
           effects'[e].status \in Succeeded \cup {"STARTED", "UNCERTAIN", "NOT_APPLIED"}
              => effects'[e].started,
           effects'[e].status \in Unresolved => IsLive(invocation.generation),
           run.status \notin FinalRun
    PROVE Coherent'
<1> USE DEF Coherent
<1>1. AggregateAgrees' /\ CodeBeginsOnce'
  BY DEF AggregateAgrees, CodeBeginsOnce
<1>2. OnlyBegunAttemptsOwnEffects'
  BY DEF OnlyBegunAttemptsOwnEffects
<1>3. UnresolvedEffectsAreOwned'
  BY DEF UnresolvedEffectsAreOwned, IsLive
<1>4. CancelledWasNeverDispatched'
  BY DEF CancelledWasNeverDispatched
<1>5. EndedRunIsSettled'
  BY DEF EndedRunIsSettled, FinalRun
<1> QED
  BY <1>1, <1>2, <1>3, <1>4, <1>5

LEMMA EffectStepCoherent ==
    ASSUME TypeOK, Coherent, NEW g \in Generations, NEW e \in Effects,
           EffectStep(g, e)
    PROVE Coherent'
<1>1. ASSUME IsLive(g)
      PROVE /\ g = invocation.generation /\ attempts[g].started
            /\ run.status \notin FinalRun
  BY <1>1, LiveIsCurrent DEF IsLive, Coherent, OnlyBegunAttemptsOwnEffects, FinalRun
<1>2. CASE RecordManagedEffectRequest(g, e)
  <2>1. /\ effects'[e] = [status |-> "PENDING", generation |-> g, started |-> FALSE]
        /\ \A f \in Effects : f # e => effects'[f] = effects[f]
    BY <1>2 DEF RecordManagedEffectRequest, TypeOK
  <2>2. /\ run' = run /\ invocation' = invocation /\ attempts' = attempts
        /\ IsLive(g)
    BY <1>2 DEF RecordManagedEffectRequest
  <2> QED
    BY <1>1, <2>1, <2>2, EffectMoves DEF Unresolved, Succeeded
<1>3. CASE MarkManagedEffectStarted(g, e)
  <2>1. /\ effects'[e].status = "STARTED" /\ effects'[e].generation = g
        /\ effects'[e].started
        /\ \A f \in Effects : f # e => effects'[f] = effects[f]
    BY <1>3 DEF MarkManagedEffectStarted, TypeOK, Effect
  <2>2. /\ run' = run /\ invocation' = invocation /\ attempts' = attempts
        /\ IsLive(g)
    BY <1>3 DEF MarkManagedEffectStarted
  <2> QED
    BY <1>1, <2>1, <2>2, EffectMoves DEF Unresolved, Succeeded
<1>4. ASSUME NEW status \in Succeeded, CommitManagedEffectOutcome(g, e, status)
      PROVE Coherent'
  <2>1. /\ effects'[e].status = status /\ effects'[e].generation = g
        /\ effects'[e].started = effects[e].started
        /\ \A f \in Effects : f # e => effects'[f] = effects[f]
    BY <1>4 DEF CommitManagedEffectOutcome, TypeOK, Effect
  <2>2. /\ run' = run /\ invocation' = invocation /\ attempts' = attempts
        /\ IsLive(g) /\ effects[e].status = "STARTED"
    BY <1>4 DEF CommitManagedEffectOutcome
  <2>3. effects[e].started
    BY <2>2 DEF Coherent, CancelledWasNeverDispatched
  <2> QED
    BY <1>1, <2>1, <2>2, <2>3, EffectMoves DEF Unresolved, Succeeded
<1>5. CASE MarkManagedEffectUncertain(g, e)
  <2>1. /\ IsLive(g) /\ Stop(g)
        /\ effects[e].status = "STARTED"
        /\ UnresolvedEffects(effects, g) = {e}
    BY <1>5 DEF MarkManagedEffectUncertain
  <2>2. \A f \in Effects : effects[f].status \in Unresolved => f = e
    BY <1>1, <2>1, AllEffectsAreCurrent
  <2>3. /\ effects'[e].status = "UNCERTAIN"
        /\ effects'[e].generation = effects[e].generation
        /\ effects'[e].started = effects[e].started
        /\ \A f \in Effects : f # e => effects'[f] = effects[f]
    BY <1>5 DEF MarkManagedEffectUncertain, TypeOK, Effect
  <2> QED
    BY <2>1, <2>2, <2>3, StoppedCoherent DEF Unresolved
<1>6. ASSUME NEW u \in DOMAIN events, NEW status \in Succeeded \cup {"NOT_APPLIED"},
             ReconcileUncertainManagedEffect(g, e, u, status)
      PROVE Coherent'
  <2>1. /\ effects'[e].status = status
        /\ effects'[e].generation = effects[e].generation
        /\ effects'[e].started = effects[e].started
        /\ \A f \in Effects : f # e => effects'[f] = effects[f]
    BY <1>6 DEF ReconcileUncertainManagedEffect, TypeOK, Effect
  <2>2. /\ run' = run /\ invocation' = invocation /\ attempts' = attempts
        /\ run.status = "BLOCKED" /\ effects[e].status = "UNCERTAIN"
    BY <1>6 DEF ReconcileUncertainManagedEffect, IsBlocked
  <2>3. /\ effects[e].started
        /\ effects[e].generation = invocation.generation
        /\ invocation.generation \in Generations
        /\ attempts[invocation.generation].started
    BY <2>2, OwnersAreCurrent DEF Coherent, CancelledWasNeverDispatched
  <2> QED
    BY <2>1, <2>2, <2>3, EffectMoves DEF Unresolved, Succeeded, FinalRun
<1> QED
  BY <1>2, <1>3, <1>4, <1>5, <1>6 DEF EffectStep

\* Until an attempt has begun there is no effect.
LEMMA NothingBegunNoEffects ==
    ASSUME Coherent,
           \A g \in Generations : g = invocation.generation => ~attempts[g].started
    PROVE \A e \in Effects : effects[e].status = "ABSENT"
BY OwnersAreCurrent DEF Coherent

LEMMA CancellationCoherent ==
    ASSUME TypeOK, Coherent, RequestManualRunCancellation
    PROVE Coherent'
<1>1. ASSUME CancelBeforeClaim PROVE Coherent'
  <2>1. /\ invocation.generation = 0 /\ invocation'.generation = 0
        /\ run'.status = "CANCELLED" /\ invocation'.status = "CANCELLED"
        /\ attempts' = attempts /\ effects' = effects
    BY <1>1 DEF CancelBeforeClaim, TypeOK, Invocation
  <2>2. \A e \in Effects : effects[e].status = "ABSENT"
    BY <2>1, NothingBegunNoEffects
  <2> USE <2>1, <2>2, GenerationIsNatural DEF Coherent
  <2>3. AggregateAgrees'
    BY DEF AggregateAgrees
  <2>4. CodeBeginsOnce' /\ OnlyBegunAttemptsOwnEffects'
    BY DEF CodeBeginsOnce, OnlyBegunAttemptsOwnEffects
  <2>5. UnresolvedEffectsAreOwned'
    BY DEF UnresolvedEffectsAreOwned, Unresolved
  <2>6. CancelledWasNeverDispatched' /\ EndedRunIsSettled'
    BY DEF CancelledWasNeverDispatched, EndedRunIsSettled
  <2> QED
    BY <2>3, <2>4, <2>5, <2>6
<1>2. ASSUME NEW g \in Generations, g = invocation.generation, run.status = "RUNNING",
             CancelAttempt(g)
      PROVE Coherent'
  <2>1. ASSUME NEW status, NEW attemptStatus, RequestedAt(g, status, attemptStatus)
        PROVE /\ run'.status = status /\ invocation'.status = status
              /\ invocation'.generation = g /\ effects' = effects
              /\ attempts'[g].status = attemptStatus
              /\ attempts'[g].started = attempts[g].started
              /\ \A h \in Generations : h # g => attempts'[h] = attempts[h]
    BY <1>2, <2>1 DEF RequestedAt, TypeOK, Invocation, Attempt
  <2>2. CASE \/ /\ invocation.status = "RUNNABLE"
                /\ attempts[g].status = "ABANDONED"
                /\ RequestedAt(g, "CANCELLED", "ABANDONED")
             \/ /\ invocation.status = "RUNNING"
                /\ attempts[g].status = "CLAIMED"
                /\ RequestedAt(g, "CANCELLED", "CANCELLED")
    <3>1. ~attempts[g].started /\ attempts[g].status # "ABSENT"
      BY <2>2 DEF Coherent, CodeBeginsOnce, OnlyBegunAttemptsOwnEffects
    <3>2. \A e \in Effects : effects[e].status = "ABSENT"
      BY <1>2, <3>1, NothingBegunNoEffects
    <3>3. attempts'[g].status \in FinalRun \cup {"ABANDONED"}
      BY <2>1, <2>2 DEF FinalRun
    <3>4. /\ run'.status = "CANCELLED" /\ invocation'.status = "CANCELLED"
          /\ invocation'.generation = g /\ effects' = effects
          /\ attempts'[g].started = attempts[g].started
          /\ \A h \in Generations : h # g => attempts'[h] = attempts[h]
      BY <2>1, <2>2
    <3> QED
      BY <1>2, <3>1, <3>2, <3>3, <3>4, EndingCoherent DEF FinalRun, Unresolved
  <2>3. CASE /\ invocation.status = "RUNNING"
             /\ attempts[g].status = "STARTED"
             /\ RequestedAt(g, "RUNNING", "STARTED")
    <3>1. /\ run'.status = run.status /\ invocation'.status = invocation.status
          /\ invocation'.generation = invocation.generation /\ effects' = effects
          /\ attempts'[g].status = attempts[g].status
          /\ attempts'[g].started = attempts[g].started
          /\ \A h \in Generations : h # g => attempts'[h] = attempts[h]
          /\ attempts[g].status = "STARTED"
      BY <1>2, <2>1, <2>3
    <3> USE <1>2, <3>1, GenerationIsNatural DEF Coherent
    <3>2. AggregateAgrees'
      <4>1. ASSUME NEW h \in Generations
            PROVE /\ h > g => attempts'[h] = NoAttempt
                  /\ h < g => attempts'[h].status = "ABANDONED" /\ ~attempts'[h].started
        BY DEF AggregateAgrees
      <4> QED
        BY <4>1 DEF AggregateAgrees
    <3>3. CodeBeginsOnce' /\ OnlyBegunAttemptsOwnEffects'
      BY DEF CodeBeginsOnce, OnlyBegunAttemptsOwnEffects
    <3>4. UnresolvedEffectsAreOwned'
      BY DEF UnresolvedEffectsAreOwned, IsLive
    <3>5. CancelledWasNeverDispatched' /\ EndedRunIsSettled'
      BY DEF CancelledWasNeverDispatched, EndedRunIsSettled
    <3> QED
      BY <3>2, <3>3, <3>4, <3>5
  <2> QED
    BY <1>2, <2>2, <2>3 DEF CancelAttempt
<1> QED
  BY <1>1, <1>2, GenerationIsNatural DEF RequestManualRunCancellation

LEMMA CreateCoherent ==
    ASSUME TypeOK, Coherent, CreateManualRun
    PROVE Coherent'
<1>1. /\ run.status = "ABSENT" /\ invocation.generation = 0
      /\ run'.status = "RUNNING" /\ invocation'.status = "RUNNABLE"
      /\ invocation'.generation = 0
      /\ attempts' = attempts /\ effects' = effects
  BY DEF CreateManualRun, NoRun, NoInvocation, Coherent, AggregateAgrees
<1>2. \A e \in Effects : effects[e].status = "ABSENT"
  BY <1>1, NothingBegunNoEffects
<1> USE <1>1, <1>2, GenerationIsNatural DEF Coherent
<1>3. AggregateAgrees'
  BY DEF AggregateAgrees, FinalRun
<1>4. \A g \in Generations : ~attempts[g].started
  BY DEF AggregateAgrees, NoAttempt
<1>5. CodeBeginsOnce' /\ OnlyBegunAttemptsOwnEffects'
  BY <1>4 DEF CodeBeginsOnce, OnlyBegunAttemptsOwnEffects
<1>6. UnresolvedEffectsAreOwned'
  BY DEF UnresolvedEffectsAreOwned, Unresolved
<1>7. CancelledWasNeverDispatched' /\ EndedRunIsSettled'
  BY DEF CancelledWasNeverDispatched, EndedRunIsSettled, FinalRun
<1> QED
  BY <1>3, <1>5, <1>6, <1>7

LEMMA ClaimCoherent ==
    ASSUME TypeOK, Coherent, NEW w \in Epochs, ClaimInvocation(w)
    PROVE Coherent'
<1> DEFINE g == invocation.generation + 1
<1>1. g \in Generations /\ invocation.generation < g /\ invocation.status = "RUNNABLE"
  BY GenerationIsNatural DEF ClaimInvocation
<1>2. /\ run' = run /\ run.status = "RUNNING" /\ effects' = effects
      /\ invocation'.status = "RUNNING" /\ invocation'.generation = g
  BY <1>1 DEF ClaimInvocation, TypeOK, Invocation
<1>3. /\ attempts'[g].status = "CLAIMED" /\ attempts'[g].started = FALSE
      /\ \A h \in Generations : h # g => attempts'[h] = attempts[h]
  BY <1>1 DEF ClaimInvocation, TypeOK, NoAttempt
<1>4. \A h \in Generations : ~attempts[h].started
  BY <1>1 DEF Coherent, CodeBeginsOnce
<1>5. \A e \in Effects : effects[e].status = "ABSENT"
  BY <1>4, NothingBegunNoEffects
<1> USE GenerationIsNatural DEF Coherent
<1>6. AggregateAgrees'
  <2>1. ASSUME NEW h \in Generations, h > g PROVE attempts'[h] = NoAttempt
    BY <1>3, <2>1 DEF AggregateAgrees
  <2>2. ASSUME NEW h \in Generations, h < g
        PROVE attempts'[h].status = "ABANDONED" /\ ~attempts'[h].started
    <3>1. h = invocation.generation \/ h < invocation.generation
      BY <2>2
    <3>2. attempts[h].status = "ABANDONED"
      BY <1>1, <3>1 DEF AggregateAgrees
    <3> QED
      BY <1>3, <1>4, <2>2, <3>2
  <2> HIDE DEF g
  <2> QED
    BY <1>1, <1>2, <1>3, <2>1, <2>2 DEF AggregateAgrees, FinalRun
<1> HIDE DEF g
<1>7. CodeBeginsOnce' /\ OnlyBegunAttemptsOwnEffects'
  BY <1>1, <1>2, <1>3, <1>4, <1>5 DEF CodeBeginsOnce, OnlyBegunAttemptsOwnEffects
<1>8. UnresolvedEffectsAreOwned'
  BY <1>2, <1>5 DEF UnresolvedEffectsAreOwned, Unresolved
<1>9. CancelledWasNeverDispatched' /\ EndedRunIsSettled'
  BY <1>2 DEF CancelledWasNeverDispatched, EndedRunIsSettled
<1> QED
  BY <1>6, <1>7, <1>8, <1>9

LEMMA CoherentInit ==
    ASSUME Init PROVE Coherent
<1>1. /\ run.status = "ABSENT" /\ invocation.status = "ABSENT"
      /\ invocation.generation = 0
      /\ \A g \in Generations : attempts[g] = NoAttempt
      /\ \A e \in Effects : effects[e].status = "ABSENT"
  BY DEF Init, NoRun, NoInvocation, NoEffect
<1>2. AggregateAgrees
  BY <1>1 DEF AggregateAgrees
<1>3. /\ CodeBeginsOnce /\ OnlyBegunAttemptsOwnEffects
      /\ UnresolvedEffectsAreOwned /\ CancelledWasNeverDispatched
      /\ EndedRunIsSettled
  BY <1>1 DEF CodeBeginsOnce, OnlyBegunAttemptsOwnEffects, NoAttempt,
     UnresolvedEffectsAreOwned, CancelledWasNeverDispatched, EndedRunIsSettled,
     Unresolved, FinalRun, Succeeded
<1> QED
  BY <1>2, <1>3 DEF Coherent

LEMMA CoherentStep ==
    ASSUME TypeOK, Coherent, [Next]_vars PROVE Coherent'
<1>1. CASE UNCHANGED projections
  BY <1>1 DEF projections, Coherent, AggregateAgrees, CodeBeginsOnce,
     OnlyBegunAttemptsOwnEffects, UnresolvedEffectsAreOwned,
     CancelledWasNeverDispatched, EndedRunIsSettled, IsLive
<1>2. CASE Takeover \/ UNCHANGED vars
  BY <1>1, <1>2 DEF Takeover, vars, projections
<1> QED
  BY <1>2, CreateCoherent, ClaimCoherent, CancellationCoherent,
     AttemptStepCoherent, EffectStepCoherent DEF Next

(***************************************************************************)
(* In every reachable state run, invocation and attempts agree              *)
(* (AggregateAgrees), code has begun at most once (CodeBeginsOnce), no       *)
(* unresolved effect is orphaned (UnresolvedEffectsAreOwned), a CANCELLED    *)
(* effect was never dispatched (CancelledWasNeverDispatched) and an ended    *)
(* run has decided every effect (EndedRunIsSettled), for any number of       *)
(* effects, claims and epochs.                                             *)
(***************************************************************************)
THEOREM LifecycleCorrect ==
    Spec => [](AggregateAgrees /\ CodeBeginsOnce /\ EffectsAreAccountedFor)
<1>1. Init => Coherent
  BY CoherentInit
<1>2. TypeOK /\ Coherent /\ [Next]_vars => Coherent'
  BY CoherentStep
<1>3. Coherent => AggregateAgrees /\ CodeBeginsOnce /\ EffectsAreAccountedFor
  BY DEF Coherent, EffectsAreAccountedFor
<1> QED
  BY <1>1, <1>2, <1>3, TypeCorrect, PTL DEF Spec

-----------------------------------------------------------------------------
(***************************************************************************)
(* History and authority.                                                  *)
(***************************************************************************)

\* A commit adds one event of its type after the events there were.
LEMMA CommitExtends ==
    ASSUME events \in Seq(Event),
           NEW type, NEW epoch, NEW g, NEW attempt, NEW touched, NEW link,
           NEW evidence, Commit(type, epoch, g, attempt, touched, link, evidence)
    PROVE /\ DOMAIN events \subseteq DOMAIN events' /\ Sequence \in DOMAIN events'
          /\ \A i \in DOMAIN events : events'[i] = events[i]
          /\ events'[Sequence].type = type
          /\ authority' = authority
<1>1. PICK x : events' = Append(events, x) /\ x.type = type
  BY DEF Commit
<1>2. /\ DOMAIN events' = 1..(Len(events) + 1) /\ DOMAIN events = 1..Len(events)
      /\ Len(events) \in Nat
      /\ \A i \in 1..Len(events) : events'[i] = events[i]
      /\ events'[Len(events) + 1] = x
  BY <1>1
<1> QED
  BY <1>1, <1>2 DEF Commit, Sequence

\* The history is only appended to.
HistoryGrows ==
    /\ DOMAIN events \subseteq DOMAIN events'
    /\ \A i \in DOMAIN events : events'[i] = events[i]

\* A step that neither claims nor cancels: no epoch, request or claim is new,
\* an invocation becomes RUNNABLE only by giving up a claim, and a run is
\* CANCELLED only if that was requested.
NothingClaimedOrRequested ==
    /\ authority' = authority
    /\ run'.request = run.request /\ invocation'.request = invocation.request
    /\ invocation'.generation = invocation.generation
    /\ \A h \in Generations :
          /\ attempts'[h].epoch = attempts[h].epoch
          /\ attempts'[h].request = attempts[h].request
          /\ attempts'[h].status # "ABSENT" => attempts[h].status # "ABSENT"
          /\ attempts'[h].status = "CLAIMED" => attempts[h].status = "CLAIMED"
    /\ \/ invocation'.status # "RUNNABLE"
       \/ \E g \in Generations : attempts[g].status = "CLAIMED"
    /\ run'.status # "ABSENT"
    /\ run'.status = "CANCELLED" => run.request # 0

LEMMA AttemptStepHistory ==
    ASSUME TypeOK, NEW g \in Generations, AttemptStep(g)
    PROVE HistoryGrows /\ NothingClaimedOrRequested
<1> USE DEF TypeOK, Run, Invocation, Attempt, HistoryGrows, NothingClaimedOrRequested
<1>1. ASSUME NEW type, NEW touched, NEW evidence, CommitOf(type, g, touched, evidence)
      PROVE /\ DOMAIN events \subseteq DOMAIN events'
            /\ \A i \in DOMAIN events : events'[i] = events[i]
            /\ authority' = authority
  BY <1>1, CommitExtends DEF CommitOf
<1>2. CASE MarkAttemptStarted(g)
  BY <1>1, <1>2 DEF MarkAttemptStarted
<1>3. CASE AbandonUnstartedAttempt(g)
  BY <1>1, <1>3 DEF AbandonUnstartedAttempt
<1>4. CASE MarkAttemptUncertain(g)
  BY <1>1, <1>4 DEF MarkAttemptUncertain, Stop, IsLive
<1>5. ASSUME NEW decision, SettleStoppedAttemptManagedEffects(g, decision)
      PROVE Stop(g) /\ IsLive(g)
            /\ CommitOf("attempt-became-uncertain", g,
                        UnresolvedEffects(effects, g), NoEvidence)
  BY <1>5 DEF SettleStoppedAttemptManagedEffects
<1>6. CASE \E decision : SettleStoppedAttemptManagedEffects(g, decision)
  <2>1. /\ Stop(g) /\ IsLive(g)
        /\ CommitOf("attempt-became-uncertain", g, UnresolvedEffects(effects, g),
                    NoEvidence)
    BY <1>5, <1>6
  <2> QED
    BY <1>1, <2>1 DEF Stop, IsLive
<1>7. ASSUME NEW v, TerminalIsSupported(v, run.request), StatusFor(v.terminal) = "CANCELLED"
      PROVE run.request # 0
  BY <1>7 DEF StatusFor, TerminalIsSupported
<1>8. ASSUME NEW v, CommitVerifiedAttemptTerminal(g, v)
      PROVE /\ run' = [run EXCEPT !.status = StatusFor(v.terminal)]
            /\ invocation' = [invocation EXCEPT !.status = StatusFor(v.terminal)]
            /\ attempts' = [attempts EXCEPT ![g].status = StatusFor(v.terminal)]
            /\ IsLive(g) /\ TerminalIsSupported(v, run.request)
            /\ CommitOf("attempt-terminal", g, {}, v)
  BY <1>8 DEF CommitVerifiedAttemptTerminal
<1>9. CASE \E v : CommitVerifiedAttemptTerminal(g, v)
  <2>1. PICK v : CommitVerifiedAttemptTerminal(g, v)
    BY <1>9
  <2>2. /\ attempts' = [attempts EXCEPT ![g].status = StatusFor(v.terminal)]
        /\ attempts[g].status = "STARTED"
    BY <1>8, <2>1 DEF IsLive
  <2>3. /\ run'.request = run.request /\ invocation'.request = invocation.request
        /\ invocation'.generation = invocation.generation
        /\ run'.status = StatusFor(v.terminal)
        /\ invocation'.status = StatusFor(v.terminal)
    BY <1>8, <2>1
  <2>4. StatusFor(v.terminal) \notin {"ABSENT", "CLAIMED", "RUNNABLE"}
    BY DEF StatusFor
  <2>5. CommitOf("attempt-terminal", g, {}, v) /\ TerminalIsSupported(v, run.request)
    BY <1>8, <2>1
  <2> HIDE DEF TypeOK
  <2>6. ASSUME NEW h \in Generations
        PROVE /\ attempts'[h].epoch = attempts[h].epoch
              /\ attempts'[h].request = attempts[h].request
              /\ attempts'[h].status # "ABSENT" => attempts[h].status # "ABSENT"
              /\ attempts'[h].status = "CLAIMED" => attempts[h].status = "CLAIMED"
    BY <2>2, <2>4 DEF TypeOK
  <2> QED
    BY <1>1, <1>7, <2>3, <2>4, <2>5, <2>6
<1>10. ASSUME NEW u, NEW v, ReconcileUncertainManualAttempt(g, u, v)
      PROVE /\ run' = [run EXCEPT !.status = StatusFor(v.terminal)]
            /\ invocation' = [invocation EXCEPT !.status = StatusFor(v.terminal)]
            /\ attempts' = attempts /\ TerminalIsSupported(v, run.request)
            /\ Commit("uncertain-attempt-reconciled", attempts[g].epoch, g,
                      NoAttempt, {}, u, v)
  BY <1>10 DEF ReconcileUncertainManualAttempt
<1>11. CASE \E u, v : ReconcileUncertainManualAttempt(g, u, v)
  <2>1. PICK u, v : ReconcileUncertainManualAttempt(g, u, v)
    BY <1>11
  <2>2. /\ run'.request = run.request /\ invocation'.request = invocation.request
        /\ invocation'.generation = invocation.generation
        /\ run'.status = StatusFor(v.terminal)
        /\ invocation'.status = StatusFor(v.terminal)
        /\ attempts' = attempts
    BY <1>10, <2>1
  <2>3. StatusFor(v.terminal) \notin {"ABSENT", "CLAIMED", "RUNNABLE"}
    BY DEF StatusFor
  <2>4. /\ DOMAIN events \subseteq DOMAIN events'
        /\ \A i \in DOMAIN events : events'[i] = events[i]
        /\ authority' = authority
    BY <1>10, <2>1, CommitExtends
  <2>5. TerminalIsSupported(v, run.request)
    BY <1>10, <2>1
  <2> HIDE DEF TypeOK
  <2> QED
    BY <1>7, <2>2, <2>3, <2>4, <2>5
<1> QED
  BY <1>2, <1>3, <1>4, <1>6, <1>9, <1>11 DEF AttemptStep

LEMMA EffectStepHistory ==
    ASSUME TypeOK, Coherent, NEW g \in Generations, NEW e \in Effects,
           EffectStep(g, e)
    PROVE HistoryGrows /\ NothingClaimedOrRequested
<1> USE DEF TypeOK, Run, Invocation, Attempt, HistoryGrows, NothingClaimedOrRequested
<1>1. ASSUME NEW type, NEW touched, NEW evidence, CommitOf(type, g, touched, evidence)
      PROVE HistoryGrows /\ authority' = authority
  BY <1>1, CommitExtends DEF CommitOf
<1>2. CASE RecordManagedEffectRequest(g, e)
  BY <1>1, <1>2 DEF RecordManagedEffectRequest, IsLive
<1>3. CASE MarkManagedEffectStarted(g, e)
  BY <1>1, <1>3 DEF MarkManagedEffectStarted, IsLive
<1>4. CASE \E status : CommitManagedEffectOutcome(g, e, status)
  BY <1>1, <1>4 DEF CommitManagedEffectOutcome, IsLive
<1>5. CASE MarkManagedEffectUncertain(g, e)
  BY <1>1, <1>5 DEF MarkManagedEffectUncertain, Stop, IsLive
<1>6. CASE \E u, status : ReconcileUncertainManagedEffect(g, e, u, status)
  <2>1. PICK u, status : ReconcileUncertainManagedEffect(g, e, u, status)
    BY <1>6
  <2>2. HistoryGrows /\ authority' = authority
    BY <2>1, CommitExtends DEF ReconcileUncertainManagedEffect
  <2> QED
    BY <2>1, <2>2 DEF ReconcileUncertainManagedEffect, IsBlocked
<1> QED
  BY <1>2, <1>3, <1>4, <1>5, <1>6 DEF EffectStep

\* Creation and a claim add their event too.
LEMMA OpeningHistory ==
    ASSUME TypeOK, NEW w \in Epochs, CreateManualRun \/ ClaimInvocation(w)
    PROVE HistoryGrows /\ authority' = authority
<1>1. CASE CreateManualRun
  BY <1>1, CommitExtends DEF CreateManualRun, TypeOK, HistoryGrows
<1>2. CASE ClaimInvocation(w)
  <2>1. \E g, a : Commit("attempt-claimed", w, g, a, {}, 0, NoEvidence)
    BY <1>2 DEF ClaimInvocation
  <2> QED
    BY <2>1, CommitExtends DEF TypeOK, HistoryGrows
<1> QED
  BY <1>1, <1>2

\* A request is recorded by the event it names.
LEMMA CancellationHistory ==
    ASSUME TypeOK, RequestManualRunCancellation
    PROVE /\ HistoryGrows /\ authority' = authority
          /\ Sequence \in DOMAIN events'
          /\ events'[Sequence].type = "manual-cancellation-requested"
          /\ run'.request = Sequence /\ invocation'.request = Sequence
          /\ invocation'.generation = invocation.generation
          /\ invocation'.status # "RUNNABLE" /\ run'.status # "ABSENT"
          /\ effects' = effects
          /\ \A h \in Generations :
                /\ attempts'[h].epoch = attempts[h].epoch
                /\ attempts'[h].request =
                      IF h = invocation.generation THEN Sequence ELSE attempts[h].request
                /\ attempts'[h].status # "ABSENT" => attempts[h].status # "ABSENT"
                /\ attempts'[h].status = "CLAIMED" =>
                      attempts[h].status = "CLAIMED" /\ h # invocation.generation
<1> USE DEF HistoryGrows
<1>1. CASE CancelBeforeClaim
  <2>1. Commit("manual-cancellation-requested", 0, 0, NoAttempt, {}, 0, NoEvidence)
    BY <1>1 DEF CancelBeforeClaim
  <2>2. /\ run'.request = Sequence /\ invocation'.request = Sequence
        /\ invocation'.generation = 0 /\ invocation.generation = 0
        /\ invocation'.status = "CANCELLED" /\ attempts' = attempts
        /\ run'.status = "CANCELLED" /\ effects' = effects
    BY <1>1 DEF CancelBeforeClaim, TypeOK, Invocation
  <2> QED
    BY <2>1, <2>2, CommitExtends DEF TypeOK
<1>2. CASE invocation.generation # 0 /\ CancelAttempt(invocation.generation)
  <2> DEFINE g == invocation.generation
  <2>1. g \in Generations
    BY <1>2, GenerationIsNatural
  <2>2. PICK status \in {"RUNNING", "CANCELLED"},
             attemptStatus \in {"ABANDONED", "CANCELLED", "STARTED"} :
                RequestedAt(g, status, attemptStatus)
    BY <1>2 DEF CancelAttempt
  <2>3. attempts[g].status # "ABSENT"
    BY <1>2 DEF CancelAttempt
  <2>4. CommitOf("manual-cancellation-requested", g, {}, NoEvidence)
    BY <2>2 DEF RequestedAt
  <2>5. /\ run'.request = Sequence /\ invocation'.request = Sequence
        /\ invocation'.generation = g /\ invocation'.status = status
        /\ run'.status = status /\ effects' = effects
    BY <2>2 DEF RequestedAt, TypeOK, Invocation
  <2>6. ASSUME NEW h \in Generations
        PROVE /\ attempts'[h].epoch = attempts[h].epoch
              /\ attempts'[h].request = IF h = g THEN Sequence ELSE attempts[h].request
              /\ attempts'[h].status = IF h = g THEN attemptStatus ELSE attempts[h].status
    BY <2>1, <2>2 DEF RequestedAt, TypeOK, Attempt
  <2>7. /\ HistoryGrows /\ authority' = authority
        /\ Sequence \in DOMAIN events'
        /\ events'[Sequence].type = "manual-cancellation-requested"
    BY <2>4, CommitExtends DEF CommitOf, TypeOK
  <2> HIDE DEF g
  <2>8. status \notin {"RUNNABLE", "ABSENT"}
    BY <2>2
  <2>9. ASSUME NEW h \in Generations
        PROVE /\ attempts'[h].status # "ABSENT" => attempts[h].status # "ABSENT"
              /\ attempts'[h].status = "CLAIMED" =>
                    attempts[h].status = "CLAIMED" /\ h # g
    BY <2>2, <2>3, <2>6
  <2>10. \A h \in Generations :
            /\ attempts'[h].epoch = attempts[h].epoch
            /\ attempts'[h].request = IF h = g THEN Sequence ELSE attempts[h].request
    BY <2>6
  <2> QED
    BY <2>5, <2>7, <2>8, <2>9, <2>10 DEF g
<1> QED
  BY <1>1, <1>2 DEF RequestManualRunCancellation

(***************************************************************************)
(* A coordinator that lost the authority assigns no work: the epochs of the *)
(* claims of an invocation never decrease (EpochsNeverGoBack).              *)
(***************************************************************************)
THEOREM EpochsCorrect == Spec => []EpochsNeverGoBack
<1>1. Init => EpochsNeverGoBack
  BY DEF Init, EpochsNeverGoBack, NoAttempt
<1>2. TypeOK /\ Coherent /\ EpochsNeverGoBack /\ [Next]_vars => EpochsNeverGoBack'
  <2> SUFFICES ASSUME TypeOK, Coherent, EpochsNeverGoBack, [Next]_vars
               PROVE EpochsNeverGoBack'
    OBVIOUS
  <2>1. /\ authority \in Nat
        /\ \A g \in Generations : attempts[g].epoch \in Nat
    BY DEF TypeOK, Attempt
  <2>2. CASE Takeover \/ UNCHANGED vars
    BY <2>1, <2>2 DEF Takeover, vars, EpochsNeverGoBack
  <2>3. ASSUME NEW w \in Epochs, CreateManualRun PROVE EpochsNeverGoBack'
    BY <2>3, OpeningHistory DEF CreateManualRun, EpochsNeverGoBack
  <2>4. ASSUME NEW w \in Epochs, w = authority, ClaimInvocation(w)
        PROVE EpochsNeverGoBack'
    <3> DEFINE n == invocation.generation + 1
    <3>1. n \in Generations /\ attempts' = [attempts EXCEPT ![n] =
             [NoAttempt EXCEPT !.status = "CLAIMED", !.epoch = w]]
      BY <2>4, GenerationIsNatural DEF ClaimInvocation
    <3>2. /\ attempts'[n].epoch = authority /\ authority' = authority
          /\ \A g \in Generations : g # n => attempts'[g] = attempts[g]
      BY <2>4, <3>1, OpeningHistory DEF NoAttempt, TypeOK
    <3>3. \A g \in Generations : g > n => attempts[g].status = "ABSENT"
      BY GenerationIsNatural DEF Coherent, AggregateAgrees, NoAttempt
    <3> HIDE DEF n
    <3> QED
      BY <2>1, <3>1, <3>2, <3>3 DEF EpochsNeverGoBack
  <2>5. CASE NothingClaimedOrRequested
    BY <2>1, <2>5 DEF NothingClaimedOrRequested, EpochsNeverGoBack
  <2>6. CASE RequestManualRunCancellation
    BY <2>1, <2>6, CancellationHistory DEF EpochsNeverGoBack
  <2> QED
    BY <2>2, <2>3, <2>4, <2>5, <2>6, AttemptStepHistory, EffectStepHistory
    DEF Next, HoldsAuthority
<1> QED
  BY <1>1, <1>2, CoherentInit, CoherentStep, TypeCorrect, PTL DEF Spec

\* CancellationHasAuthority and what it relies on: a request is recorded only
\* where nothing more can be claimed or begun.
RequestsAreBinding ==
    /\ CancellationHasAuthority
    /\ run.status = "ABSENT" => run.request = 0
    /\ invocation.status = "RUNNABLE" => run.request = 0
    /\ \A g \in Generations : attempts[g].status = "CLAIMED" => run.request = 0

LEMMA RequestsInit == ASSUME Init PROVE RequestsAreBinding
BY DEF Init, RequestsAreBinding, CancellationHasAuthority, NoRun, NoInvocation,
   NoAttempt

LEMMA RequestsStep ==
    ASSUME TypeOK, Coherent, RequestsAreBinding, [Next]_vars
    PROVE RequestsAreBinding'
<1> USE DEF RequestsAreBinding, CancellationHasAuthority
<1>1. CASE Takeover \/ UNCHANGED vars
  BY <1>1 DEF Takeover, vars
<1>2. ASSUME NEW w \in Epochs, CreateManualRun PROVE RequestsAreBinding'
  <2>1. /\ run'.request = 0 /\ run'.status = "RUNNING" /\ invocation'.request = 0
        /\ invocation'.generation = 0 /\ attempts' = attempts
        /\ run.status = "ABSENT"
    BY <1>2 DEF CreateManualRun, NoRun, NoInvocation
  <2>2. \A g \in Generations : attempts[g] = NoAttempt
    BY <2>1, GenerationIsNatural DEF Coherent, AggregateAgrees
  <2> QED
    BY <2>1, <2>2 DEF NoAttempt
<1>3. ASSUME NEW w \in Epochs, ClaimInvocation(w) PROVE RequestsAreBinding'
  <2> DEFINE n == invocation.generation + 1
  <2>1. /\ n \in Generations /\ n # invocation.generation
        /\ attempts' = [attempts EXCEPT ![n] =
              [NoAttempt EXCEPT !.status = "CLAIMED", !.epoch = w]]
        /\ run' = run /\ run.status = "RUNNING" /\ run.request = 0
    BY <1>3, GenerationIsNatural DEF ClaimInvocation
  <2>2. /\ invocation'.generation = n /\ invocation'.request = invocation.request
        /\ invocation'.status = "RUNNING"
    BY <1>3, <2>1 DEF ClaimInvocation, TypeOK, Invocation
  <2>3. /\ attempts'[n].request = 0
        /\ \A g \in Generations : g # n => attempts'[g] = attempts[g]
    BY <2>1 DEF NoAttempt, TypeOK
  <2> HIDE DEF n
  <2> QED
    BY <2>1, <2>2, <2>3
<1>4. CASE HistoryGrows /\ NothingClaimedOrRequested
  BY <1>4 DEF HistoryGrows, NothingClaimedOrRequested
<1>5. CASE RequestManualRunCancellation
  <2>1. \A h \in Generations : attempts[h].status = "CLAIMED" =>
           h = invocation.generation
    BY LiveIsCurrent DEF Coherent
  <2>2. Sequence # 0
    BY DEF Sequence, TypeOK
  <2> QED
    BY <1>5, <2>1, <2>2, CancellationHistory
<1> QED
  BY <1>1, <1>2, <1>3, <1>4, <1>5, AttemptStepHistory, EffectStepHistory DEF Next

(***************************************************************************)
(* A run is CANCELLED only on a recorded request, the one that run,         *)
(* invocation and current attempt name (CancellationHasAuthority).          *)
(***************************************************************************)
THEOREM CancellationCorrect == Spec => []CancellationHasAuthority
<1>1. Init => RequestsAreBinding
  BY RequestsInit
<1>2. RequestsAreBinding => CancellationHasAuthority
  BY DEF RequestsAreBinding
<1>3. TypeOK /\ Coherent /\ RequestsAreBinding /\ [Next]_vars => RequestsAreBinding'
  BY RequestsStep
<1> QED
  BY <1>1, <1>2, <1>3, CoherentInit, CoherentStep, TypeCorrect, PTL DEF Spec

\* What DecisionsAreFinal says of one step, the history aside.
KeepsDecisions ==
    /\ run.status \in FinalRun => run' = run /\ invocation' = invocation
    /\ run.request # 0 => run'.request = run.request
    /\ \A e \in Effects : effects[e].status \in Resolved => effects'[e] = effects[e]
    /\ \A g \in Generations :
          attempts[g].status \in FinalRun \cup {"ABANDONED"} =>
              attempts'[g].status = attempts[g].status
    /\ run.status = "BLOCKED" /\ run'.status # "BLOCKED" =>
          run'.status \in FinalRun /\ effects' = effects

LEMMA AttemptStepKeepsDecisions ==
    ASSUME TypeOK, NEW g \in Generations, AttemptStep(g)
    PROVE KeepsDecisions
<1> USE AttemptStepHistory DEF KeepsDecisions, NothingClaimedOrRequested
<1>1. run'.request = run.request
  OBVIOUS
<1>2. ASSUME Stop(g), IsLive(g)
      PROVE /\ run.status \notin FinalRun
            /\ run.status # "BLOCKED"
            /\ \A h \in Generations : attempts[h].status \in FinalRun \cup {"ABANDONED"} =>
                  attempts'[h] = attempts[h]
  BY <1>2 DEF Stop, IsLive, FinalRun, TypeOK
<1>3. CASE MarkAttemptStarted(g) \/ AbandonUnstartedAttempt(g)
  BY <1>1, <1>3 DEF MarkAttemptStarted, AbandonUnstartedAttempt, FinalRun, TypeOK
<1>4. CASE MarkAttemptUncertain(g)
  BY <1>1, <1>2, <1>4 DEF MarkAttemptUncertain
<1>5. CASE \E decision : SettleStoppedAttemptManagedEffects(g, decision)
  <2>1. PICK decision : SettleStoppedAttemptManagedEffects(g, decision)
    BY <1>5
  <2>2. Stop(g) /\ IsLive(g)
    BY <2>1 DEF SettleStoppedAttemptManagedEffects
  <2>3. ASSUME NEW e \in Effects, effects[e].status \in Resolved
        PROVE effects'[e] = effects[e]
    BY <2>1, <2>3 DEF SettleStoppedAttemptManagedEffects, UnresolvedEffects,
       Resolved, Succeeded, Unresolved
  <2> QED
    BY <1>1, <1>2, <2>2, <2>3
<1>6. CASE \E v : CommitVerifiedAttemptTerminal(g, v)
  BY <1>1, <1>6 DEF CommitVerifiedAttemptTerminal, IsLive, FinalRun, TypeOK
<1>7. CASE \E u, v : ReconcileUncertainManualAttempt(g, u, v)
  BY <1>1, <1>7 DEF ReconcileUncertainManualAttempt, IsBlocked, FinalRun, StatusFor, TypeOK, Run
<1> QED
  BY <1>3, <1>4, <1>5, <1>6, <1>7 DEF AttemptStep

LEMMA EffectStepKeepsDecisions ==
    ASSUME TypeOK, Coherent, NEW g \in Generations, NEW e \in Effects,
           EffectStep(g, e)
    PROVE KeepsDecisions
<1> USE DEF KeepsDecisions
<1>1. run'.request = run.request
  BY EffectStepHistory DEF NothingClaimedOrRequested
<1>2. /\ run.status \notin FinalRun
      /\ run.status = "BLOCKED" => run' = run
  BY DEF EffectStep, RecordManagedEffectRequest, MarkManagedEffectStarted,
     CommitManagedEffectOutcome, MarkManagedEffectUncertain,
     ReconcileUncertainManagedEffect, IsLive, IsBlocked, FinalRun
<1>3. \A f \in Effects : effects[f].status \in Resolved => effects'[f] = effects[f]
  BY DEF EffectStep, RecordManagedEffectRequest, MarkManagedEffectStarted,
     CommitManagedEffectOutcome, MarkManagedEffectUncertain,
     ReconcileUncertainManagedEffect, Resolved, Succeeded, TypeOK
<1>4. attempts' = attempts \/ (Stop(g) /\ IsLive(g))
  BY DEF EffectStep, RecordManagedEffectRequest, MarkManagedEffectStarted,
     CommitManagedEffectOutcome, MarkManagedEffectUncertain,
     ReconcileUncertainManagedEffect
<1>5. \A h \in Generations : attempts[h].status \in FinalRun \cup {"ABANDONED"} =>
         attempts'[h].status = attempts[h].status
  BY <1>4 DEF Stop, IsLive, FinalRun, TypeOK
<1> QED
  BY <1>1, <1>2, <1>3, <1>5

(***************************************************************************)
(* Decisions are final (DecisionsAreFinal).                                 *)
(***************************************************************************)
THEOREM DecisionsFinal == Spec => DecisionsAreFinal
<1>1. ASSUME TypeOK, Coherent, RequestsAreBinding, [Next]_vars
      PROVE /\ KeepsDecisions \/ UNCHANGED vars
            /\ HistoryGrows
  <2>1. CASE Takeover \/ UNCHANGED vars
    BY <2>1 DEF Takeover, vars, KeepsDecisions, HistoryGrows
  <2>2. CASE CreateManualRun
    <3>1. HistoryGrows
      BY <1>1, <2>2, OpeningHistory
    <3> QED
      BY <1>1, <2>2, <3>1 DEF CreateManualRun, KeepsDecisions, FinalRun, Coherent,
         RequestsAreBinding
  <2>3. ASSUME NEW w \in Epochs, ClaimInvocation(w)
        PROVE KeepsDecisions /\ HistoryGrows
    BY <1>1, <2>3, OpeningHistory DEF ClaimInvocation, KeepsDecisions, FinalRun, TypeOK
  <2>4. CASE RequestManualRunCancellation
    <3>1. /\ run.status = "RUNNING" /\ run.request = 0
          /\ HistoryGrows /\ effects' = effects
      BY <1>1, <2>4, CancellationHistory DEF RequestManualRunCancellation
    <3>2. CASE CancelBeforeClaim
      BY <3>1, <3>2 DEF CancelBeforeClaim, KeepsDecisions, FinalRun
    <3>3. ASSUME NEW g \in Generations, CancelAttempt(g)
          PROVE \A h \in Generations :
                   attempts[h].status \in FinalRun \cup {"ABANDONED"} =>
                       attempts'[h].status = attempts[h].status
      <4>1. attempts \in [Generations -> Attempt]
        BY <1>1 DEF TypeOK
      <4>2. CASE attempts[g].status = "ABANDONED" /\ RequestedAt(g, "CANCELLED", "ABANDONED")
        BY <4>1, <4>2 DEF RequestedAt, FinalRun, Attempt
      <4>3. CASE attempts[g].status = "CLAIMED" /\ RequestedAt(g, "CANCELLED", "CANCELLED")
        BY <4>1, <4>3 DEF RequestedAt, FinalRun, Attempt
      <4>4. CASE attempts[g].status = "STARTED" /\ RequestedAt(g, "RUNNING", "STARTED")
        BY <4>1, <4>4 DEF RequestedAt, FinalRun, Attempt
      <4> QED BY <3>3, <4>2, <4>3, <4>4 DEF CancelAttempt
    <3>4. CASE invocation.generation # 0 /\ CancelAttempt(invocation.generation)
      BY <1>1, <3>1, <3>3, <3>4, GenerationIsNatural DEF KeepsDecisions, FinalRun
    <3> QED
      BY <2>4, <3>1, <3>2, <3>4 DEF RequestManualRunCancellation
  <2> QED
    BY <1>1, <2>1, <2>2, <2>3, <2>4, AttemptStepHistory, EffectStepHistory,
       AttemptStepKeepsDecisions, EffectStepKeepsDecisions DEF Next
<1>2. TypeOK /\ Coherent /\ RequestsAreBinding /\ [Next]_vars =>
         [/\ run.status \in FinalRun => run' = run /\ invocation' = invocation
          /\ run.request # 0 => run'.request = run.request
          /\ \A e \in Effects : effects[e].status \in Resolved => effects'[e] = effects[e]
          /\ \A g \in Generations :
                attempts[g].status \in FinalRun \cup {"ABANDONED"} =>
                    attempts'[g].status = attempts[g].status
          /\ run.status = "BLOCKED" /\ run'.status # "BLOCKED" =>
                run'.status \in FinalRun /\ \A e \in Effects : effects[e].status # "UNCERTAIN"
          /\ \A i \in DOMAIN events : events'[i] = events[i]]_vars
  <2> SUFFICES ASSUME TypeOK, Coherent, RequestsAreBinding, Next
        PROVE /\ KeepsDecisions \/ UNCHANGED vars
              /\ run.status = "BLOCKED" /\ run'.status # "BLOCKED" =>
                    \A e \in Effects : effects[e].status # "UNCERTAIN"
              /\ \A i \in DOMAIN events : events'[i] = events[i]
    BY DEF KeepsDecisions, vars
  <2>1. KeepsDecisions \/ UNCHANGED vars
    BY <1>1
  <2>2. \A i \in DOMAIN events : events'[i] = events[i]
    BY <1>1 DEF HistoryGrows
  <2>3. ASSUME run.status = "BLOCKED", run'.status # "BLOCKED", NEW e \in Effects
        PROVE effects[e].status # "UNCERTAIN"
    <3>1. run'.status \in FinalRun /\ effects' = effects
      BY <2>1, <2>3 DEF KeepsDecisions, vars
    <3>2. EndedRunIsSettled'
      BY CoherentStep DEF Coherent
    <3> QED
      BY <3>1, <3>2 DEF EndedRunIsSettled, Resolved, Succeeded
  <2> QED
    BY <2>1, <2>2, <2>3
<1>3. Init => RequestsAreBinding
  BY RequestsInit
<1>4. TypeOK /\ Coherent /\ RequestsAreBinding /\ [Next]_vars => RequestsAreBinding'
  BY RequestsStep
<1> QED
  BY <1>2, <1>3, <1>4, CoherentInit, CoherentStep, TypeCorrect, PTL
  DEF Spec, DecisionsAreFinal

(***************************************************************************)
(* The settlement limit.                                                   *)
(***************************************************************************)

\* Only a new request adds an unresolved effect.
LEMMA OnlyRequestsAdd ==
    ASSUME TypeOK, [Next]_vars,
           ~ \E g \in Generations, e \in Effects : RecordManagedEffectRequest(g, e)
    PROVE \A e \in Effects : effects'[e].status \in Unresolved =>
             /\ effects[e].status \in Unresolved
             /\ effects'[e].generation = effects[e].generation
<1> USE DEF Unresolved, Succeeded, TypeOK, Effect
<1>1. CASE effects' = effects
  BY <1>1
<1>2. ASSUME NEW g \in Generations, NEW e \in Effects, EffectStep(g, e)
      PROVE \A f \in Effects : effects'[f].status \in Unresolved =>
               /\ effects[f].status \in Unresolved
               /\ effects'[f].generation = effects[f].generation
  <2>1. CASE MarkManagedEffectStarted(g, e)
    BY <2>1 DEF MarkManagedEffectStarted
  <2>2. CASE \E status \in Succeeded : CommitManagedEffectOutcome(g, e, status)
    BY <2>2 DEF CommitManagedEffectOutcome
  <2>3. CASE MarkManagedEffectUncertain(g, e)
    BY <2>3 DEF MarkManagedEffectUncertain
  <2>4. CASE \E u \in DOMAIN events, status \in Succeeded \cup {"NOT_APPLIED"} :
                ReconcileUncertainManagedEffect(g, e, u, status)
    BY <2>4 DEF ReconcileUncertainManagedEffect
  <2> QED BY <1>2, <2>1, <2>2, <2>3, <2>4 DEF EffectStep
<1>3. ASSUME NEW g \in Generations, AttemptStep(g)
      PROVE \/ effects' = effects
            \/ \E decision : SettleStoppedAttemptManagedEffects(g, decision)
  BY <1>3 DEF AttemptStep, MarkAttemptStarted, AbandonUnstartedAttempt,
     MarkAttemptUncertain, CommitVerifiedAttemptTerminal,
     ReconcileUncertainManualAttempt
<1>4. ASSUME NEW g \in Generations, NEW decision,
             SettleStoppedAttemptManagedEffects(g, decision)
      PROVE \A f \in Effects : effects'[f].status \in Unresolved =>
               /\ effects[f].status \in Unresolved
               /\ effects'[f].generation = effects[f].generation
  BY <1>4 DEF SettleStoppedAttemptManagedEffects, UnresolvedEffects, AttemptEffects,
     Dispositions
<1>5. CASE RequestManualRunCancellation
  BY <1>1, <1>5, CancellationHistory
<1>6. CASE Takeover \/ UNCHANGED vars \/ CreateManualRun
           \/ \E w \in Epochs : ClaimInvocation(w)
  BY <1>1, <1>6 DEF Takeover, vars, CreateManualRun, ClaimInvocation
<1> QED
  BY <1>1, <1>2, <1>3, <1>4, <1>5, <1>6 DEF Next

(***************************************************************************)
(* The unresolved effects of an attempt always fit the one transaction that *)
(* settles them (SettlementFits), for every limit.                          *)
(***************************************************************************)
THEOREM SettlementAlwaysFits == Spec => []SettlementFits
<1>0. ASSUME NEW fx, NEW g PROVE IsFiniteSet(UnresolvedEffects(fx, g))
  BY EffectsAreFinite, FS_Subset DEF UnresolvedEffects, AttemptEffects
<1>1. Init => SettlementFits
  <2> SUFFICES ASSUME Init PROVE SettlementFits
    OBVIOUS
  <2>1. \A g \in Generations : UnresolvedEffects(effects, g) = {}
    BY DEF Init, UnresolvedEffects, AttemptEffects, NoEffect
  <2> QED
    BY <2>1, FS_EmptySet DEF SettlementFits
<1>2. TypeOK /\ SettlementFits /\ [Next]_vars => SettlementFits'
  <2> SUFFICES ASSUME TypeOK, SettlementFits, [Next]_vars, NEW h \in Generations
               PROVE Cardinality(UnresolvedEffects(effects', h)) <= MaxUnresolved
    BY DEF SettlementFits
  <2>1. CASE ~ \E g \in Generations, e \in Effects : RecordManagedEffectRequest(g, e)
    <3>1. UnresolvedEffects(effects', h) \subseteq UnresolvedEffects(effects, h)
      BY <2>1, OnlyRequestsAdd DEF UnresolvedEffects, AttemptEffects, Unresolved
    <3>2. Cardinality(UnresolvedEffects(effects', h))
             <= Cardinality(UnresolvedEffects(effects, h))
      BY <1>0, <3>1, FS_Subset
    <3> QED
      BY <1>0, <3>2, FS_CardinalityType DEF SettlementFits
  <2>2. ASSUME NEW g \in Generations, NEW e \in Effects,
               RecordManagedEffectRequest(g, e)
        PROVE Cardinality(UnresolvedEffects(effects', h)) <= MaxUnresolved
    <3>1. /\ effects'[e].status = "PENDING" /\ effects'[e].generation = g
          /\ \A f \in Effects : f # e => effects'[f] = effects[f]
          /\ effects[e].status = "ABSENT"
      BY <2>2 DEF RecordManagedEffectRequest, TypeOK
    <3>2. CASE h # g
      <4>1. UnresolvedEffects(effects', h) = UnresolvedEffects(effects, h)
        BY <3>1, <3>2 DEF UnresolvedEffects, AttemptEffects, Unresolved
      <4> QED
        BY <4>1 DEF SettlementFits
    <3>3. CASE h = g
      <4>1. UnresolvedEffects(effects', h) = UnresolvedEffects(effects, h) \cup {e}
        BY <3>1, <3>3 DEF UnresolvedEffects, AttemptEffects, Unresolved
      <4>2. Cardinality(UnresolvedEffects(effects', h))
               <= Cardinality(UnresolvedEffects(effects, h)) + 1
        <5> DEFINE U == UnresolvedEffects(effects, h)
        <5>1. IsFiniteSet(U)
          BY <1>0
        <5> HIDE DEF U
        <5>2. Cardinality(U) \in Nat
          BY <5>1, FS_CardinalityType
        <5>3. Cardinality(U \cup {e}) = IF e \in U THEN Cardinality(U)
                                      ELSE Cardinality(U) + 1
          BY <5>1, FS_AddElement
        <5>4. Cardinality(U \cup {e}) <= Cardinality(U) + 1
          BY <5>2, <5>3
        <5> QED
          BY <4>1, <5>4 DEF U
      <4>3. Cardinality(UnresolvedEffects(effects, h)) < MaxUnresolved
        BY <2>2, <3>3 DEF RecordManagedEffectRequest, BelowEffectLimit
      <4>4. Cardinality(UnresolvedEffects(effects, h)) \in Nat
        BY <1>0, FS_CardinalityType
      <4>5. Cardinality(UnresolvedEffects(effects', h)) \in Nat
        BY <1>0, FS_CardinalityType
      <4> QED
        BY <4>2, <4>3, <4>4, <4>5
    <3> QED
      BY <3>2, <3>3
  <2> QED
    BY <2>1, <2>2
<1> QED
  BY <1>1, <1>2, TypeCorrect, PTL DEF Spec
-----------------------------------------------------------------------------
(***************************************************************************)
(* The reader.  Each operation commits an event that the fold accepts, and   *)
(* the snapshots in the event are all that the operation changed.           *)
(***************************************************************************)

\* What an event carries when a transaction commits it.
Carries(ev, type, epoch, g, attempt, touched, link, evidence) ==
    /\ ev.type = type /\ ev.epoch = epoch /\ ev.generation = g
    /\ ev.run = run' /\ ev.invocation = invocation' /\ ev.attempt = attempt
    /\ \A e \in Effects :
          ev.effects[e] = IF e \in touched THEN effects'[e] ELSE NoEffect
    /\ ev.link = link /\ ev.evidence = evidence

\* The event a link names, as the reader of event ev looks it up.
Cited(link, ev) == IF link \in DOMAIN events THEN events[link] ELSE ev

LEMMA AppendedIsRead ==
    ASSUME TypeOK, Read,
           NEW type, NEW epoch, NEW g, NEW attempt, NEW touched, NEW link,
           NEW evidence, Commit(type, epoch, g, attempt, touched, link, evidence)
    PROVE \E ev : /\ Carries(ev, type, epoch, g, attempt, touched, link, evidence)
                  /\ folded' = Folded(folded, ev, Sequence, Cited(link, ev))
<1> DEFINE ev == [type       |-> type,
                  epoch      |-> epoch,
                  generation |-> g,
                  run        |-> run',
                  invocation |-> invocation',
                  attempt    |-> attempt,
                  effects    |-> [e \in Effects |->
                                     IF e \in touched THEN effects'[e] ELSE NoEffect],
                  link       |-> link,
                  evidence   |-> evidence]
<1>1. events' = Append(events, ev)
  BY DEF Commit
<1>2. Carries(ev, type, epoch, g, attempt, touched, link, evidence) /\ ev.link = link
  BY DEF Carries
<1> HIDE DEF ev
<1>3. /\ Len(events') = Sequence /\ events'[Sequence] = ev
      /\ events' # events
  BY <1>1 DEF TypeOK, Sequence
<1>4. folded' = Folded(folded, ev, Sequence, Cited(link, ev))
  BY <1>2, <1>3 DEF Read, Cited
<1> QED BY <1>2, <1>4

\* An accepted event leaves fold and projections equal, if the operation changed
\* no attempt and no effect but those of its snapshots.
LEMMA AcceptedAgrees ==
    ASSUME TypeOK, TypeOK', EveryRunIsReadable, Read,
           NEW type, NEW epoch, NEW g, NEW attempt, NEW touched, NEW link,
           NEW evidence, Commit(type, epoch, g, attempt, touched, link, evidence),
           \A h \in Generations : attempts'[h] =
               IF h = g /\ attempt # NoAttempt THEN attempt ELSE attempts[h],
           \A e \in Effects \ touched : effects'[e] = effects[e],
           \A e \in Effects \cap touched : effects'[e].status # "ABSENT",
           \A ev : Carries(ev, type, epoch, g, attempt, touched, link, evidence)
                      => Accepts(folded, ev, Sequence, Cited(link, ev))
    PROVE EveryRunIsReadable'
<1>1. PICK ev : /\ Carries(ev, type, epoch, g, attempt, touched, link, evidence)
                /\ folded' = Folded(folded, ev, Sequence, Cited(link, ev))
  BY AppendedIsRead
<1>2. Accepts(folded, ev, Sequence, Cited(link, ev)) /\ folded.accepted
  BY <1>1 DEF EveryRunIsReadable
<1>3. EffectIds(ev) = Effects \cap touched
  BY <1>1 DEF Carries, EffectIds, NoEffect
<1>4. folded' = [accepted   |-> TRUE,
                 run        |-> ev.run,
                 invocation |-> ev.invocation,
                 attempts   |-> [h \in Generations |->
                    IF h = ev.generation /\ ev.attempt # NoAttempt THEN ev.attempt
                    ELSE folded.attempts[h]],
                 effects    |-> [e \in Effects |->
                    IF e \in EffectIds(ev) THEN ev.effects[e] ELSE folded.effects[e]]]
  BY <1>1, <1>2 DEF Folded
<1>5. folded'.accepted /\ folded'.run = run' /\ folded'.invocation = invocation'
  BY <1>1, <1>4 DEF Carries
<1>6. folded'.attempts = attempts'
  <2>1. folded'.attempts = [h \in Generations |->
           IF h = g /\ attempt # NoAttempt THEN attempt ELSE attempts[h]]
    BY <1>1, <1>4 DEF Carries, EveryRunIsReadable
  <2> QED BY <2>1 DEF TypeOK
<1>7. folded'.effects = effects'
  <2>1. folded'.effects = [e \in Effects |->
           IF e \in touched THEN effects'[e] ELSE effects[e]]
    BY <1>1, <1>3, <1>4 DEF Carries, EveryRunIsReadable
  <2> QED BY <2>1 DEF TypeOK
<1> QED BY <1>5, <1>6, <1>7 DEF EveryRunIsReadable

\* The ordinary event of an attempt that is there.
LEMMA AcceptedOfAttempt ==
    ASSUME TypeOK, TypeOK', EveryRunIsReadable, Read,
           NEW type, NEW g \in Generations, NEW touched, NEW evidence,
           CommitOf(type, g, touched, evidence),
           attempts'[g].status # "ABSENT",
           \A h \in Generations : h # g => attempts'[h] = attempts[h],
           \A e \in Effects \ touched : effects'[e] = effects[e],
           \A e \in Effects \cap touched : effects'[e].status # "ABSENT",
           \A ev : Carries(ev, type, attempts[g].epoch, g, attempts'[g], touched, 0, evidence)
                      => Accepts(folded, ev, Sequence, Cited(0, ev))
    PROVE EveryRunIsReadable'
<1>1. attempts'[g] # NoAttempt
  BY DEF NoAttempt
<1>2. \A h \in Generations : attempts'[h] =
         IF h = g /\ attempts'[g] # NoAttempt THEN attempts'[g] ELSE attempts[h]
  BY <1>1
<1> QED BY <1>2, AcceptedAgrees DEF CommitOf

LEMMA CreationIsRead ==
    ASSUME TypeOK, TypeOK', EveryRunIsReadable, Read, CreateManualRun
    PROVE EveryRunIsReadable'
<1>1. ASSUME NEW ev, Carries(ev, "manual-run-created", 0, 0, NoAttempt, {}, 0, NoEvidence)
      PROVE Accepts(folded, ev, Sequence, Cited(0, ev))
  <2>1. AcceptsCreation(folded, ev)
    BY <1>1 DEF CreateManualRun, Carries, AcceptsCreation, EveryRunIsReadable, NoRun,
                NoInvocation
  <2> QED BY <2>1 DEF Accepts
<1>2. /\ \A h \in Generations : attempts'[h] =
            IF h = 0 /\ NoAttempt # NoAttempt THEN NoAttempt ELSE attempts[h]
      /\ \A e \in Effects : effects'[e] = effects[e]
  BY DEF CreateManualRun
<1> QED BY <1>1, <1>2, AcceptedAgrees DEF CreateManualRun

LEMMA ClaimIsRead ==
    ASSUME TypeOK, TypeOK', AggregateAgrees, EveryRunIsReadable, Read,
           NEW w \in Epochs, ClaimInvocation(w)
    PROVE EveryRunIsReadable'
<1> DEFINE g == invocation.generation + 1
<1>1. g \in Generations /\ g # 0 /\ attempts[g] = NoAttempt
  <2>1. g \in Generations /\ g > invocation.generation
    BY GenerationIsNatural DEF ClaimInvocation
  <2>2. g # 0
    BY <2>1
  <2> HIDE DEF g
  <2> QED BY <2>1, <2>2 DEF AggregateAgrees
<1>2. attempts' = [attempts EXCEPT ![g] = [NoAttempt EXCEPT !.status = "CLAIMED", !.epoch = w]]
  BY DEF ClaimInvocation
<1>3. /\ invocation' = [invocation EXCEPT !.status = "RUNNING", !.generation = g]
      /\ run' = run /\ effects' = effects /\ run.status = "RUNNING"
      /\ invocation.status = "RUNNABLE"
      /\ Commit("attempt-claimed", w, g, attempts'[g], {}, 0, NoEvidence)
  BY DEF ClaimInvocation
<1>4. invocation.generation + 1 = g
  OBVIOUS
<1> HIDE DEF g
<1>5. /\ attempts'[g].status = "CLAIMED" /\ attempts'[g].epoch = w
      /\ ~attempts'[g].started /\ attempts'[g].request = 0
      /\ \A h \in Generations : h # g => attempts'[h] = attempts[h]
  <2>1. attempts'[g] = [NoAttempt EXCEPT !.status = "CLAIMED", !.epoch = w]
    BY <1>1, <1>2 DEF TypeOK
  <2> QED BY <1>1, <1>2, <2>1 DEF TypeOK, NoAttempt
<1>6. /\ invocation'.status = "RUNNING" /\ invocation'.generation = g
      /\ invocation'.request = invocation.request
  BY <1>3 DEF TypeOK, Invocation
<1>7. ASSUME NEW ev, Carries(ev, "attempt-claimed", w, g, attempts'[g], {}, 0, NoEvidence)
      PROVE Accepts(folded, ev, Sequence, Cited(0, ev))
  <2>1. SameRequests(folded, ev)
    BY <1>1, <1>3, <1>5, <1>6, <1>7 DEF Carries, SameRequests, EveryRunIsReadable, NoAttempt
  <2>2. AcceptsClaim(folded, ev)
    BY <1>1, <1>3, <1>4, <1>5, <1>6, <1>7, <2>1
       DEF Carries, AcceptsClaim, Statuses, EveryRunIsReadable, NoAttempt
  <2> QED BY <2>2 DEF Accepts
<1>8. attempts'[g] # NoAttempt
  BY <1>5 DEF NoAttempt
<1>9. \A h \in Generations : attempts'[h] =
         IF h = g /\ attempts'[g] # NoAttempt THEN attempts'[g] ELSE attempts[h]
  BY <1>5, <1>8
<1> QED BY <1>3, <1>7, <1>9, AcceptedAgrees

\* The steps of an attempt that is claimed or live.
LEMMA ProgressIsRead ==
    ASSUME TypeOK, TypeOK', Coherent, EveryRunIsReadable, Read,
           NEW g \in Generations, MarkAttemptStarted(g) \/ AbandonUnstartedAttempt(g)
    PROVE EveryRunIsReadable'
<1>1. /\ attempts[g].status = "CLAIMED" /\ ~attempts[g].started
      /\ g = invocation.generation /\ g # 0
      /\ run.status = "RUNNING" /\ invocation.status = "RUNNING"
  BY LiveIsCurrent DEF MarkAttemptStarted, AbandonUnstartedAttempt, Coherent,
                       OnlyBegunAttemptsOwnEffects
<1>2. attempts \in [Generations -> Attempt] /\ invocation \in Invocation
  BY DEF TypeOK
<1>3. CASE MarkAttemptStarted(g)
  <2>1. /\ attempts'[g] = [attempts[g] EXCEPT !.status = "STARTED", !.started = TRUE]
        /\ \A h \in Generations : h # g => attempts'[h] = attempts[h]
    BY <1>2, <1>3 DEF MarkAttemptStarted
  <2>2. /\ attempts'[g].status = "STARTED" /\ attempts'[g].started
        /\ attempts'[g].epoch = attempts[g].epoch
        /\ attempts'[g].request = attempts[g].request
    BY <1>2, <2>1 DEF Attempt
  <2>3. ASSUME NEW ev, Carries(ev, "attempt-started", attempts[g].epoch, g, attempts'[g],
                               {}, 0, NoEvidence)
        PROVE Accepts(folded, ev, Sequence, Cited(0, ev))
    <3>1. AcceptsStart(folded, ev)
      BY <1>1, <1>3, <2>2, <2>3
         DEF MarkAttemptStarted, Carries, AcceptsStart, SameRequests, SameGeneration,
             AttemptAdvances, Statuses, StatusesIn, Live, EveryRunIsReadable
    <3> QED BY <3>1 DEF Accepts
  <2>4. effects' = effects /\ CommitOf("attempt-started", g, {}, NoEvidence)
    BY <1>3 DEF MarkAttemptStarted
  <2>5. attempts'[g].status # "ABSENT"
    BY <2>2
  <2>6. \A h \in Generations : h # g => attempts'[h] = attempts[h]
    BY <2>1
  <2> QED BY <2>3, <2>4, <2>5, <2>6, AcceptedOfAttempt
<1>4. CASE AbandonUnstartedAttempt(g)
  <2>1. /\ attempts'[g] = [attempts[g] EXCEPT !.status = "ABANDONED"]
        /\ \A h \in Generations : h # g => attempts'[h] = attempts[h]
        /\ invocation' = [invocation EXCEPT !.status = "RUNNABLE"]
    BY <1>2, <1>4 DEF AbandonUnstartedAttempt
  <2>2. /\ attempts'[g].status = "ABANDONED" /\ attempts'[g].started = attempts[g].started
        /\ attempts'[g].epoch = attempts[g].epoch
        /\ attempts'[g].request = attempts[g].request
        /\ invocation'.status = "RUNNABLE" /\ invocation'.generation = invocation.generation
        /\ invocation'.request = invocation.request
    BY <1>2, <2>1 DEF Attempt, Invocation
  <2>3. ASSUME NEW ev, Carries(ev, "attempt-abandoned-before-start", attempts[g].epoch, g,
                               attempts'[g], {}, 0, NoEvidence)
        PROVE Accepts(folded, ev, Sequence, Cited(0, ev))
    <3>1. AcceptsAbandonment(folded, ev)
      BY <1>1, <1>4, <2>2, <2>3
         DEF AbandonUnstartedAttempt, Carries, AcceptsAbandonment, SameRequests,
             SameGeneration, AttemptAdvances, Statuses, StatusesIn, EveryRunIsReadable
    <3> QED BY <3>1 DEF Accepts
  <2> QED BY <1>4, <2>1, <2>2, <2>3, AcceptedOfAttempt DEF AbandonUnstartedAttempt
<1> QED BY <1>3, <1>4

\* A live attempt is the current one.
LEMMA LiveFacts ==
    ASSUME TypeOK, Coherent, EveryRunIsReadable, NEW g \in Generations, IsLive(g)
    PROVE /\ g = invocation.generation /\ g # 0
          /\ StatusesIn(folded, g) = Live
BY LiveIsCurrent DEF Coherent, IsLive, StatusesIn, Live, EveryRunIsReadable

LEMMA TerminalIsRead ==
    ASSUME TypeOK, TypeOK', Coherent, EveryRunIsReadable, Read,
           NEW g \in Generations, NEW v, CommitVerifiedAttemptTerminal(g, v)
    PROVE EveryRunIsReadable'
<1> DEFINE status == StatusFor(v.terminal)
<1>1. /\ attempts \in [Generations -> Attempt] /\ invocation \in Invocation /\ run \in Run
      /\ status # "ABSENT"
  BY StatusForIsFinal DEF TypeOK, FinalRun
<1>2. /\ run' = [run EXCEPT !.status = status]
      /\ invocation' = [invocation EXCEPT !.status = status]
      /\ attempts' = [attempts EXCEPT ![g].status = status]
      /\ effects' = effects
      /\ CommitOf("attempt-terminal", g, {}, v)
      /\ EvidenceMatches(v, effects, g) /\ TerminalIsSupported(v, run.request)
      /\ IsLive(g)
  BY DEF CommitVerifiedAttemptTerminal
<1>3. status = StatusFor(v.terminal)
  OBVIOUS
<1> HIDE DEF status
<1>4. /\ run'.status = status /\ run'.request = run.request
      /\ invocation'.status = status /\ invocation'.request = invocation.request
      /\ invocation'.generation = invocation.generation
      /\ attempts'[g].status = status /\ attempts'[g].epoch = attempts[g].epoch
      /\ attempts'[g].request = attempts[g].request
      /\ attempts'[g].started = attempts[g].started
      /\ \A h \in Generations : h # g => attempts'[h] = attempts[h]
  BY <1>1, <1>2 DEF Run, Invocation, Attempt
<1>5. ASSUME NEW ev, Carries(ev, "attempt-terminal", attempts[g].epoch, g, attempts'[g],
                             {}, 0, v)
      PROVE Accepts(folded, ev, Sequence, Cited(0, ev))
  <2>1. SameRequests(folded, ev) /\ SameGeneration(folded, ev) /\ AttemptAdvances(folded, ev)
    BY <1>4, <1>5 DEF Carries, SameRequests, SameGeneration, AttemptAdvances,
                      EveryRunIsReadable
  <2>2. Statuses(ev) = <<status, status, status>>
    BY <1>4, <1>5 DEF Carries, Statuses
  <2>3. EvidenceMatches(ev.evidence, folded.effects, g)
    BY <1>2, <1>5 DEF Carries, EveryRunIsReadable
  <2>4. TerminalIsSupported(ev.evidence, ev.run.request)
    BY <1>2, <1>4, <1>5 DEF Carries
  <2>5. AcceptsTerminal(folded, ev)
    BY <1>2, <1>3, <1>4, <1>5, <2>1, <2>2, <2>3, <2>4, LiveFacts
       DEF Carries, AcceptsTerminal, EveryRunIsReadable
  <2> QED BY <2>5 DEF Accepts
<1> QED BY <1>1, <1>2, <1>4, <1>5, AcceptedOfAttempt

LEMMA EffectRequestIsRead ==
    ASSUME TypeOK, TypeOK', Coherent, EveryRunIsReadable, Read,
           NEW g \in Generations, NEW e \in Effects, RecordManagedEffectRequest(g, e)
    PROVE EveryRunIsReadable'
<1>1. /\ effects' = [effects EXCEPT ![e] =
            [status |-> "PENDING", generation |-> g, started |-> FALSE]]
      /\ run' = run /\ invocation' = invocation /\ attempts' = attempts
      /\ CommitOf("effect-requested", g, {e}, NoEvidence)
      /\ IsLive(g) /\ effects[e].status = "ABSENT"
      /\ Cardinality(UnresolvedEffects(effects, g)) < MaxUnresolved
  BY DEF RecordManagedEffectRequest, BelowEffectLimit
<1>2. /\ effects'[e] = [status |-> "PENDING", generation |-> g, started |-> FALSE]
      /\ \A f \in Effects \ {e} : effects'[f] = effects[f]
      /\ attempts[g].status = "STARTED"
  BY <1>1 DEF TypeOK, IsLive
<1>3. effects'[e].status = "PENDING"
  BY <1>2
<1>4. ASSUME NEW ev, Carries(ev, "effect-requested", attempts[g].epoch, g, attempts'[g],
                             {e}, 0, NoEvidence)
      PROVE Accepts(folded, ev, Sequence, Cited(0, ev))
  <2>1. /\ SameRequests(folded, ev) /\ SameGeneration(folded, ev)
        /\ AttemptAdvances(folded, ev) /\ ev.attempt.started = folded.attempts[g].started
    BY <1>1, <1>4 DEF Carries, SameRequests, SameGeneration, AttemptAdvances,
                      EveryRunIsReadable
  <2>2. Statuses(ev) = Live
    BY <1>1, <1>4 DEF Carries, Statuses, Live, IsLive
  <2>3. /\ EffectIds(ev) = {e}
        /\ ev.effects[e] = [status |-> "PENDING", generation |-> g, started |-> FALSE]
        /\ folded.effects[e].status = "ABSENT"
    <3>1. EffectIds(ev) = {e} /\ ev.effects[e] = effects'[e]
      BY <1>3, <1>4 DEF Carries, EffectIds, NoEffect
    <3>2. folded.effects[e].status = "ABSENT"
      BY <1>1 DEF EveryRunIsReadable
    <3> QED BY <1>2, <3>1, <3>2
  <2>4. /\ ev.type = "effect-requested" /\ ev.generation = g /\ g # 0
        /\ g = folded.invocation.generation /\ StatusesIn(folded, g) = Live
        /\ Cardinality(UnresolvedEffects(folded.effects, g)) < MaxUnresolved
    BY <1>1, <1>4, LiveFacts DEF Carries, EveryRunIsReadable
  <2>5. AcceptsEffectRequest(folded, ev)
    BY <2>1, <2>2, <2>3, <2>4 DEF AcceptsEffectRequest
  <2> QED BY <2>5 DEF Accepts
<1> QED BY <1>1, <1>2, <1>3, <1>4, AcceptedOfAttempt

\* One effect of a live attempt advances; the attempt goes on, or stops with it.
LEMMA AdvanceIsRead ==
    ASSUME TypeOK, TypeOK', Coherent, EveryRunIsReadable, Read,
           NEW g \in Generations, NEW e \in Effects,
           NEW type \in {"effect-started", "effect-completed", "effect-failed",
                         "effect-became-uncertain"},
           IsLive(g), CommitOf(type, g, {e}, NoEvidence),
           <<effects[e].status, effects'[e].status>> = EffectAdvance(type),
           effects[e].generation = g, effects'[e].generation = g, effects'[e].started,
           \A f \in Effects \ {e} : effects'[f] = effects[f],
           IF type = "effect-became-uncertain"
           THEN Stop(g) /\ UnresolvedEffects(effects, g) = {e}
           ELSE UNCHANGED <<run, invocation, attempts>>
    PROVE EveryRunIsReadable'
<1>1. attempts \in [Generations -> Attempt] /\ invocation \in Invocation /\ run \in Run
  BY DEF TypeOK
<1>2. /\ run'.request = run.request /\ invocation'.request = invocation.request
      /\ invocation'.generation = invocation.generation
      /\ attempts'[g].epoch = attempts[g].epoch
      /\ attempts'[g].request = attempts[g].request
      /\ attempts'[g].started = attempts[g].started
      /\ attempts'[g].status # "ABSENT"
      /\ \A h \in Generations : h # g => attempts'[h] = attempts[h]
      /\ <<run'.status, invocation'.status, attempts'[g].status>> =
            IF type = "effect-became-uncertain" THEN Stopped ELSE Live
  <2>1. CASE type = "effect-became-uncertain"
    <3>1. Stop(g)
      BY <2>1
    <3> QED BY <1>1, <2>1, <3>1 DEF Stop, Stopped, Run, Invocation, Attempt
  <2>2. CASE type # "effect-became-uncertain"
    BY <2>2 DEF IsLive, Live
  <2> QED BY <2>1, <2>2
<1>3. effects'[e].status # "ABSENT"
  BY DEF EffectAdvance
<1>4. ASSUME NEW ev, Carries(ev, type, attempts[g].epoch, g, attempts'[g], {e}, 0, NoEvidence)
      PROVE Accepts(folded, ev, Sequence, Cited(0, ev))
  <2>1. /\ SameRequests(folded, ev) /\ SameGeneration(folded, ev)
        /\ AttemptAdvances(folded, ev) /\ ev.attempt.started = folded.attempts[g].started
    BY <1>2, <1>4 DEF Carries, SameRequests, SameGeneration, AttemptAdvances,
                      EveryRunIsReadable
  <2>2. Statuses(ev) = IF ev.type = "effect-became-uncertain" THEN Stopped ELSE Live
    BY <1>2, <1>4 DEF Carries, Statuses
  <2>3. /\ EffectIds(ev) = {e} /\ ev.effects[e] = effects'[e]
        /\ folded.effects = effects
    BY <1>3, <1>4 DEF Carries, EffectIds, NoEffect, EveryRunIsReadable
  <2>4. ev.type = type /\ ev.generation = g /\ g = folded.invocation.generation /\ g # 0
        /\ StatusesIn(folded, g) = Live
    BY <1>4, LiveFacts DEF Carries, EveryRunIsReadable
  <2>5. AcceptsEffectAdvance(folded, ev)
    BY <2>1, <2>2, <2>3, <2>4 DEF AcceptsEffectAdvance
  <2> QED BY <2>5 DEF Accepts
<1> QED BY <1>2, <1>3, <1>4, AcceptedOfAttempt

\* The settlement of a stopped attempt, of the effects it leaves behind if any.
LEMMA SettlementIsRead ==
    ASSUME TypeOK, TypeOK', Coherent, EveryRunIsReadable, Read, NEW g \in Generations,
           IsLive(g), Stop(g),
           Cardinality(UnresolvedEffects(effects, g)) <= MaxUnresolved,
           CommitOf("attempt-became-uncertain", g, UnresolvedEffects(effects, g), NoEvidence),
           \A e \in UnresolvedEffects(effects, g) :
               \E status \in Dispositions(e) : effects'[e] = [effects[e] EXCEPT !.status = status],
           \A e \in Effects \ UnresolvedEffects(effects, g) : effects'[e] = effects[e]
    PROVE EveryRunIsReadable'
<1> DEFINE settled == UnresolvedEffects(effects, g)
<1>1. attempts \in [Generations -> Attempt] /\ invocation \in Invocation /\ run \in Run
      /\ \A e \in Effects : effects[e] \in Effect
  BY DEF TypeOK
<1>2. /\ run'.request = run.request /\ invocation'.request = invocation.request
      /\ invocation'.generation = invocation.generation
      /\ attempts'[g].epoch = attempts[g].epoch
      /\ attempts'[g].request = attempts[g].request
      /\ attempts'[g].started = attempts[g].started
      /\ attempts'[g].status # "ABSENT"
      /\ \A h \in Generations : h # g => attempts'[h] = attempts[h]
      /\ <<run'.status, invocation'.status, attempts'[g].status>> = Stopped
  BY <1>1 DEF Stop, Stopped, Run, Invocation, Attempt
<1>3. ASSUME NEW e \in settled
      PROVE /\ e \in Effects /\ effects'[e].generation = g
            /\ effects'[e].started = effects[e].started
            /\ effects'[e].status \in Dispositions(e)
            /\ effects'[e].status # "ABSENT"
            /\ effects[e].status = "STARTED" => effects[e].started
  <2>1. e \in Effects /\ effects[e].generation = g
    BY DEF UnresolvedEffects, AttemptEffects
  <2>2. PICK status \in Dispositions(e) : effects'[e] = [effects[e] EXCEPT !.status = status]
    BY <1>3
  <2>3. effects'[e].status = status /\ effects'[e].generation = g
        /\ effects'[e].started = effects[e].started
    BY <1>1, <2>1, <2>2 DEF Effect
  <2>4. status # "ABSENT"
    BY DEF Dispositions, Succeeded
  <2> QED BY <2>1, <2>3, <2>4 DEF Coherent, CancelledWasNeverDispatched
<1>4. ASSUME NEW ev, Carries(ev, "attempt-became-uncertain", attempts[g].epoch, g,
                             attempts'[g], settled, 0, NoEvidence)
      PROVE Accepts(folded, ev, Sequence, Cited(0, ev))
  <2>1. /\ SameRequests(folded, ev) /\ SameGeneration(folded, ev)
        /\ AttemptAdvances(folded, ev) /\ ev.attempt.started = folded.attempts[g].started
    BY <1>2, <1>4 DEF Carries, SameRequests, SameGeneration, AttemptAdvances,
                      EveryRunIsReadable
  <2>2. Statuses(ev) = Stopped
    BY <1>2, <1>4 DEF Carries, Statuses
  <2>3. /\ EffectIds(ev) = settled
        /\ \A e \in settled : ev.effects[e] = effects'[e]
    BY <1>3, <1>4 DEF Carries, EffectIds, NoEffect
  <2>4. /\ ev.type = "attempt-became-uncertain" /\ ev.generation = g /\ g # 0
        /\ g = folded.invocation.generation /\ StatusesIn(folded, g) = Live
        /\ folded.effects = effects
    BY <1>4, LiveFacts DEF Carries, EveryRunIsReadable
  <2>5. \A e \in EffectIds(ev) :
          /\ ev.effects[e].generation = g
          /\ ev.effects[e].started = folded.effects[e].started
          /\ ev.effects[e].status \in
                IF folded.effects[e].status = "PENDING" THEN {"CANCELLED"}
                ELSE Succeeded \cup {"UNCERTAIN"}
          /\ folded.effects[e].status = "STARTED" => ev.effects[e].started
    BY <1>3, <2>3, <2>4 DEF Dispositions
  <2>6. AcceptsStopped(folded, ev)
    BY <2>1, <2>2, <2>3, <2>4, <2>5 DEF AcceptsStopped
  <2> QED BY <2>6 DEF Accepts
<1> QED BY <1>2, <1>3, <1>4, AcceptedOfAttempt

LEMMA AttemptStepIsRead ==
    ASSUME TypeOK, TypeOK', Coherent, EveryRunIsReadable, Read,
           NEW g \in Generations,
           \/ MarkAttemptUncertain(g)
           \/ \E decision : SettleStoppedAttemptManagedEffects(g, decision)
    PROVE EveryRunIsReadable'
<1>1. CASE MarkAttemptUncertain(g)
  <2>1. /\ IsLive(g) /\ Stop(g) /\ UnresolvedEffects(effects, g) = {}
        /\ effects' = effects /\ CommitOf("attempt-became-uncertain", g, {}, NoEvidence)
    BY <1>1 DEF MarkAttemptUncertain
  <2>2. Cardinality({}) <= MaxUnresolved
    BY FS_EmptySet
  <2> QED BY <2>1, <2>2, SettlementIsRead
<1>2. ASSUME NEW decision, SettleStoppedAttemptManagedEffects(g, decision)
      PROVE EveryRunIsReadable'
  <2> DEFINE settled == UnresolvedEffects(effects, g)
  <2>1. /\ IsLive(g) /\ Stop(g) /\ Cardinality(settled) <= MaxUnresolved
        /\ \A e \in settled : decision[e] \in Dispositions(e)
        /\ effects' = [e \in Effects |->
              IF e \in settled THEN [effects[e] EXCEPT !.status = decision[e]]
              ELSE effects[e]]
        /\ CommitOf("attempt-became-uncertain", g, settled, NoEvidence)
    BY <1>2 DEF SettleStoppedAttemptManagedEffects
  <2>2. settled \subseteq Effects
    BY DEF UnresolvedEffects, AttemptEffects
  <2> HIDE DEF settled
  <2>3. \A e \in settled :
           \E status \in Dispositions(e) : effects'[e] = [effects[e] EXCEPT !.status = status]
    BY <2>1, <2>2
  <2>4. \A e \in Effects \ settled : effects'[e] = effects[e]
    BY <2>1
  <2> QED BY <2>1, <2>3, <2>4, SettlementIsRead DEF settled
<1> QED BY <1>1, <1>2

LEMMA EffectStepIsRead ==
    ASSUME TypeOK, TypeOK', Coherent, EveryRunIsReadable, Read,
           NEW g \in Generations, NEW e \in Effects,
           \/ MarkManagedEffectStarted(g, e)
           \/ \E status \in Succeeded : CommitManagedEffectOutcome(g, e, status)
           \/ MarkManagedEffectUncertain(g, e)
    PROVE EveryRunIsReadable'
<1>1. effects \in [Effects -> Effect] /\ effects[e] \in Effect
  BY DEF TypeOK
<1>2. effects[e].status = "STARTED" => effects[e].started
  BY DEF Coherent, CancelledWasNeverDispatched
<1>3. CASE MarkManagedEffectStarted(g, e)
  <2>1. /\ effects' = [effects EXCEPT ![e].status = "STARTED", ![e].started = TRUE]
        /\ IsLive(g) /\ effects[e].status = "PENDING" /\ effects[e].generation = g
        /\ CommitOf("effect-started", g, {e}, NoEvidence)
        /\ UNCHANGED <<run, invocation, attempts>>
    BY <1>3 DEF MarkManagedEffectStarted
  <2>2. effects'[e] = [effects[e] EXCEPT !.status = "STARTED", !.started = TRUE]
        /\ \A f \in Effects \ {e} : effects'[f] = effects[f]
    BY <1>1, <2>1
  <2>3. effects'[e].status = "STARTED" /\ effects'[e].generation = g /\ effects'[e].started
    BY <1>1, <2>1, <2>2 DEF Effect
  <2>4. <<effects[e].status, effects'[e].status>> = EffectAdvance("effect-started")
    BY <2>1, <2>3 DEF EffectAdvance
  <2> QED BY <2>1, <2>2, <2>3, <2>4, AdvanceIsRead
<1>4. ASSUME NEW status \in Succeeded, CommitManagedEffectOutcome(g, e, status)
      PROVE EveryRunIsReadable'
  <2> DEFINE type == IF status = "COMPLETED" THEN "effect-completed" ELSE "effect-failed"
  <2>1. /\ effects' = [effects EXCEPT ![e].status = status]
        /\ IsLive(g) /\ effects[e].status = "STARTED" /\ effects[e].generation = g
        /\ CommitOf(type, g, {e}, NoEvidence)
        /\ UNCHANGED <<run, invocation, attempts>>
    BY <1>4 DEF CommitManagedEffectOutcome
  <2>2. effects'[e] = [effects[e] EXCEPT !.status = status]
        /\ \A f \in Effects \ {e} : effects'[f] = effects[f]
    BY <1>1, <2>1
  <2>3. effects'[e].status = status /\ effects'[e].generation = g /\ effects'[e].started
    BY <1>1, <1>2, <2>1, <2>2 DEF Effect
  <2>4. /\ <<effects[e].status, effects'[e].status>> = EffectAdvance(type)
        /\ type \in {"effect-completed", "effect-failed"}
    BY <2>1, <2>3 DEF EffectAdvance, Succeeded
  <2> HIDE DEF type
  <2> QED BY <2>1, <2>2, <2>3, <2>4, AdvanceIsRead
<1>5. CASE MarkManagedEffectUncertain(g, e)
  <2>1. /\ effects' = [effects EXCEPT ![e].status = "UNCERTAIN"]
        /\ IsLive(g) /\ effects[e].status = "STARTED"
        /\ UnresolvedEffects(effects, g) = {e} /\ Stop(g)
        /\ CommitOf("effect-became-uncertain", g, {e}, NoEvidence)
    BY <1>5 DEF MarkManagedEffectUncertain
  <2>2. effects'[e] = [effects[e] EXCEPT !.status = "UNCERTAIN"]
        /\ \A f \in Effects \ {e} : effects'[f] = effects[f]
    BY <1>1, <2>1
  <2>3. effects[e].generation = g
    BY <2>1 DEF UnresolvedEffects, AttemptEffects
  <2>4. effects'[e].status = "UNCERTAIN" /\ effects'[e].generation = g /\ effects'[e].started
    BY <1>1, <1>2, <2>1, <2>2, <2>3 DEF Effect
  <2>5. <<effects[e].status, effects'[e].status>> = EffectAdvance("effect-became-uncertain")
    BY <2>1, <2>4 DEF EffectAdvance
  <2> QED BY <2>1, <2>2, <2>3, <2>4, <2>5, AdvanceIsRead
<1> QED BY <1>3, <1>4, <1>5

\* What a reconciliation cites did stop the attempt.
LEMMA CitationIsRead ==
    ASSUME TypeOK, EveryRunIsReadable, NEW g \in Generations, IsBlocked(g),
           NEW u \in DOMAIN events, StoppedBy(u, g),
           NEW ev, ev.generation = g, ev.link = u, ev.epoch = attempts[g].epoch
    PROVE /\ CitesStop(folded, ev, events[u]) /\ Cited(u, ev) = events[u]
          /\ StatusesIn(folded, g) = Stopped /\ g # 0
<1>1. u # 0
  BY DEF TypeOK
<1>2. /\ Cited(u, ev) = events[u] /\ g # 0
      /\ StatusesIn(folded, g) = Stopped
  BY DEF Cited, IsBlocked, StatusesIn, Stopped, EveryRunIsReadable
<1>3. Statuses(events[u]) = Stopped
  BY DEF StoppedBy, IsBlocked, Statuses, Stopped
<1> QED BY <1>1, <1>2, <1>3 DEF CitesStop, StoppedBy, EveryRunIsReadable

LEMMA EffectReconciliationIsRead ==
    ASSUME TypeOK, TypeOK', EveryRunIsReadable, Read,
           NEW g \in Generations, NEW e \in Effects, NEW u \in DOMAIN events,
           NEW status \in Succeeded \cup {"NOT_APPLIED"},
           ReconcileUncertainManagedEffect(g, e, u, status)
    PROVE EveryRunIsReadable'
<1>1. effects \in [Effects -> Effect] /\ effects[e] \in Effect
  BY DEF TypeOK
<1>2. /\ effects' = [effects EXCEPT ![e].status = status]
      /\ run' = run /\ invocation' = invocation /\ attempts' = attempts
      /\ IsBlocked(g) /\ effects[e].status = "UNCERTAIN" /\ EffectUncertainBy(u, g, e)
      /\ Commit("uncertain-effect-reconciled", attempts[g].epoch, g, NoAttempt, {e}, u,
                NoEvidence)
  BY DEF ReconcileUncertainManagedEffect
<1>3. effects'[e] = [effects[e] EXCEPT !.status = status]
      /\ \A f \in Effects \ {e} : effects'[f] = effects[f]
  BY <1>1, <1>2
<1>4. effects'[e].status = status /\ effects'[e].started = effects[e].started
      /\ status # "ABSENT"
  BY <1>1, <1>3 DEF Effect, Succeeded
<1>5. ASSUME NEW ev, Carries(ev, "uncertain-effect-reconciled", attempts[g].epoch, g,
                             NoAttempt, {e}, u, NoEvidence)
      PROVE Accepts(folded, ev, Sequence, Cited(u, ev))
  <2>1. /\ ev.generation = g /\ ev.link = u /\ ev.epoch = attempts[g].epoch
        /\ ev.type = "uncertain-effect-reconciled" /\ ev.attempt = NoAttempt
        /\ ev.run = run /\ ev.invocation = invocation
    BY <1>2, <1>5 DEF Carries
  <2>2. SameRequests(folded, ev) /\ SameGeneration(folded, ev)
    BY <2>1 DEF SameRequests, SameGeneration, EveryRunIsReadable
  <2>3. Statuses(ev) = <<"BLOCKED", "UNCERTAIN", "ABSENT">>
    BY <1>2, <2>1 DEF Statuses, IsBlocked, NoAttempt
  <2>4. EffectIds(ev) = {e} /\ ev.effects[e] = effects'[e]
    BY <1>4, <1>5 DEF Carries, EffectIds, NoEffect
  <2>5. /\ CitesStop(folded, ev, events[u]) /\ Cited(u, ev) = events[u]
        /\ StatusesIn(folded, g) = Stopped /\ g # 0
    BY <1>2, <2>1, CitationIsRead DEF EffectUncertainBy
  <2>6. /\ EffectIds(ev) = {e}
        /\ folded.effects[e].status = "UNCERTAIN"
        /\ events[u].effects[e] = folded.effects[e]
        /\ ev.effects[e].status \in Succeeded \cup {"NOT_APPLIED"}
        /\ ev.effects[e].started = folded.effects[e].started
    BY <1>2, <1>4, <2>4 DEF EffectUncertainBy, EveryRunIsReadable
  <2>7. events[u].type \in {"effect-became-uncertain", "attempt-became-uncertain"}
    BY <1>2 DEF EffectUncertainBy
  <2>8. AcceptsEffectReconciliation(folded, ev, events[u])
    BY <2>1, <2>2, <2>3, <2>5, <2>6, <2>7 DEF AcceptsEffectReconciliation
  <2> QED BY <2>5, <2>8 DEF Accepts
<1>6. \A h \in Generations : attempts'[h] =
         IF h = g /\ NoAttempt # NoAttempt THEN NoAttempt ELSE attempts[h]
  BY <1>2
<1>7. \A f \in Effects \cap {e} : effects'[f].status # "ABSENT"
  BY <1>4
<1> QED BY <1>2, <1>3, <1>5, <1>6, <1>7, AcceptedAgrees

LEMMA AttemptReconciliationIsRead ==
    ASSUME TypeOK, TypeOK', EveryRunIsReadable, Read,
           NEW g \in Generations, NEW u \in DOMAIN events, NEW v,
           ReconcileUncertainManualAttempt(g, u, v)
    PROVE EveryRunIsReadable'
<1> DEFINE status == StatusFor(v.terminal)
<1>1. /\ run' = [run EXCEPT !.status = status]
      /\ invocation' = [invocation EXCEPT !.status = status]
      /\ effects' = effects /\ attempts' = attempts
      /\ IsBlocked(g) /\ AttemptUncertainBy(u, g)
      /\ EvidenceMatches(v, effects, g) /\ TerminalIsSupported(v, run.request)
      /\ Commit("uncertain-attempt-reconciled", attempts[g].epoch, g, NoAttempt, {}, u, v)
  BY DEF ReconcileUncertainManualAttempt
<1>2. status = StatusFor(v.terminal)
  OBVIOUS
<1> HIDE DEF status
<1>3. /\ run'.status = status /\ run'.request = run.request
      /\ invocation'.status = status /\ invocation'.request = invocation.request
      /\ invocation'.generation = invocation.generation
  BY <1>1 DEF TypeOK, Run, Invocation
<1>4. ASSUME NEW ev, Carries(ev, "uncertain-attempt-reconciled", attempts[g].epoch, g,
                             NoAttempt, {}, u, v)
      PROVE Accepts(folded, ev, Sequence, Cited(u, ev))
  <2>1. /\ ev.generation = g /\ ev.link = u /\ ev.epoch = attempts[g].epoch
        /\ ev.type = "uncertain-attempt-reconciled" /\ ev.attempt = NoAttempt
        /\ ev.run = run' /\ ev.invocation = invocation' /\ ev.evidence = v
    BY <1>4 DEF Carries
  <2>2. SameRequests(folded, ev) /\ SameGeneration(folded, ev)
    BY <1>3, <2>1 DEF SameRequests, SameGeneration, EveryRunIsReadable
  <2>3. Statuses(ev) = <<status, status, "ABSENT">>
    BY <1>3, <2>1 DEF Statuses, NoAttempt
  <2>4. /\ CitesStop(folded, ev, events[u]) /\ Cited(u, ev) = events[u]
        /\ StatusesIn(folded, g) = Stopped /\ g # 0
    BY <1>1, <2>1, CitationIsRead DEF AttemptUncertainBy
  <2>5. /\ events[u].type = "attempt-became-uncertain"
        /\ events[u].run.request = folded.run.request
        /\ events[u].invocation.request = folded.invocation.request
        /\ g = folded.invocation.generation
        /\ EvidenceMatches(ev.evidence, folded.effects, g)
        /\ TerminalIsSupported(ev.evidence, folded.run.request)
    BY <1>1, <2>1 DEF AttemptUncertainBy, IsBlocked, EveryRunIsReadable
  <2>6. AcceptsAttemptReconciliation(folded, ev, events[u])
    BY <1>2, <2>1, <2>2, <2>3, <2>4, <2>5 DEF AcceptsAttemptReconciliation
  <2> QED BY <2>4, <2>6 DEF Accepts
<1>5. \A h \in Generations : attempts'[h] =
         IF h = g /\ NoAttempt # NoAttempt THEN NoAttempt ELSE attempts[h]
  BY <1>1
<1> QED BY <1>1, <1>4, <1>5, AcceptedAgrees

\* What a cancellation of an attempt leaves as it was.
LEMMA RequestedFacts ==
    ASSUME TypeOK, NEW g \in Generations, NEW status, NEW attemptStatus,
           RequestedAt(g, status, attemptStatus)
    PROVE /\ run'.status = status /\ run'.request = Sequence
          /\ invocation'.status = status /\ invocation'.request = Sequence
          /\ invocation'.generation = invocation.generation
          /\ attempts'[g].status = attemptStatus /\ attempts'[g].request = Sequence
          /\ attempts'[g].epoch = attempts[g].epoch
          /\ attempts'[g].started = attempts[g].started
          /\ \A h \in Generations : h # g => attempts'[h] = attempts[h]
          /\ effects' = effects
          /\ CommitOf("manual-cancellation-requested", g, {}, NoEvidence)
<1>1. attempts \in [Generations -> Attempt] /\ invocation \in Invocation
  BY DEF TypeOK
<1>2. attempts'[g] = [attempts[g] EXCEPT !.status = attemptStatus, !.request = Sequence]
      /\ \A h \in Generations : h # g => attempts'[h] = attempts[h]
  BY <1>1 DEF RequestedAt
<1> QED BY <1>1, <1>2 DEF RequestedAt, Invocation, Attempt

LEMMA CancelledAttemptIsRead ==
    ASSUME TypeOK, TypeOK', EveryRunIsReadable, RequestsAreBinding, Read,
           NEW g \in Generations, g = invocation.generation,
           run.request = 0, run.status = "RUNNING", CancelAttempt(g)
    PROVE EveryRunIsReadable'
<1>1. PICK status, attemptStatus :
         /\ RequestedAt(g, status, attemptStatus)
         /\ <<StatusesIn(folded, g), <<status, status, attemptStatus>>>> \in
               {<<<<"RUNNING", "RUNNABLE", "ABANDONED">>,
                  <<"CANCELLED", "CANCELLED", "ABANDONED">>>>,
                <<<<"RUNNING", "RUNNING", "CLAIMED">>,
                  <<"CANCELLED", "CANCELLED", "CANCELLED">>>>,
                <<Live, Live>>}
  BY DEF CancelAttempt, StatusesIn, Live, EveryRunIsReadable
<1>2. attemptStatus # "ABSENT"
  BY <1>1 DEF Live
<1>3. g # 0 /\ invocation.request = 0 /\ attempts[g].request = 0
  BY DEF RequestsAreBinding, CancellationHasAuthority
<1>4. ASSUME NEW ev, Carries(ev, "manual-cancellation-requested", attempts[g].epoch, g,
                             attempts'[g], {}, 0, NoEvidence)
      PROVE Accepts(folded, ev, Sequence, Cited(0, ev))
  <2>1. /\ ev.generation = g /\ ev.run = run' /\ ev.invocation = invocation'
        /\ ev.type = "manual-cancellation-requested" /\ ev.attempt = attempts'[g]
        /\ ev.epoch = attempts[g].epoch
    BY <1>4 DEF Carries
  <2>2. Statuses(ev) = <<status, status, attemptStatus>>
    BY <1>1, <2>1, RequestedFacts DEF Statuses
  <2>3. AttemptAdvances(folded, ev) /\ SameGeneration(folded, ev)
    BY <1>1, <2>1, RequestedFacts DEF AttemptAdvances, SameGeneration, EveryRunIsReadable
  <2>4. /\ ev.attempt.request = ev.run.request /\ ev.run.request = Sequence
        /\ ev.invocation.request = Sequence
        /\ ev.attempt.started = folded.attempts[g].started
    BY <1>1, <2>1, RequestedFacts DEF EveryRunIsReadable
  <2>5. /\ folded.attempts[g].request = 0 /\ folded.run.request = 0
        /\ folded.invocation.request = 0 /\ g = folded.invocation.generation
    BY <1>3 DEF EveryRunIsReadable
  <2>6. CancelsAttempt(folded, ev)
    BY <1>1, <1>3, <2>1, <2>2, <2>3, <2>4, <2>5 DEF CancelsAttempt
  <2>7. AcceptsCancellation(folded, ev, Sequence)
    BY <2>1, <2>3, <2>4, <2>5, <2>6 DEF AcceptsCancellation
  <2> QED BY <2>7 DEF Accepts
<1>5. /\ attempts'[g].status # "ABSENT"
      /\ \A h \in Generations : h # g => attempts'[h] = attempts[h]
      /\ effects' = effects
      /\ CommitOf("manual-cancellation-requested", g, {}, NoEvidence)
  BY <1>1, <1>2, RequestedFacts
<1> QED BY <1>4, <1>5, AcceptedOfAttempt

LEMMA CancellationIsRead ==
    ASSUME TypeOK, TypeOK', EveryRunIsReadable, RequestsAreBinding, Read,
           RequestManualRunCancellation
    PROVE EveryRunIsReadable'
<1>1. CASE CancelBeforeClaim
  <2>1. /\ run.request = 0 /\ run.status = "RUNNING" /\ invocation.request = 0
        /\ invocation.generation = 0 /\ invocation.status = "RUNNABLE"
    BY <1>1 DEF CancelBeforeClaim, RequestManualRunCancellation, RequestsAreBinding,
                CancellationHasAuthority
  <2>2. /\ run'.status = "CANCELLED" /\ run'.request = Sequence
        /\ invocation'.status = "CANCELLED" /\ invocation'.request = Sequence
        /\ invocation'.generation = 0
        /\ attempts' = attempts /\ effects' = effects
        /\ Commit("manual-cancellation-requested", 0, 0, NoAttempt, {}, 0, NoEvidence)
    BY <1>1, <2>1 DEF CancelBeforeClaim, TypeOK, Invocation
  <2>3. ASSUME NEW ev, Carries(ev, "manual-cancellation-requested", 0, 0, NoAttempt, {}, 0,
                               NoEvidence)
        PROVE Accepts(folded, ev, Sequence, Cited(0, ev))
    <3>1. AcceptsCancellation(folded, ev, Sequence)
      BY <2>1, <2>2, <2>3 DEF Carries, AcceptsCancellation, CancelsUnclaimed, SameGeneration,
                              EveryRunIsReadable
    <3> QED BY <3>1 DEF Accepts
  <2>4. \A h \in Generations : attempts'[h] =
           IF h = 0 /\ NoAttempt # NoAttempt THEN NoAttempt ELSE attempts[h]
    BY <2>2
  <2> QED BY <2>2, <2>3, <2>4, AcceptedAgrees
<1>2. CASE invocation.generation # 0 /\ CancelAttempt(invocation.generation)
  <2>1. invocation.generation \in Generations
    BY <1>2, GenerationIsNatural
  <2> QED BY <1>2, <2>1, CancelledAttemptIsRead DEF RequestManualRunCancellation
<1> QED BY <1>1, <1>2 DEF RequestManualRunCancellation

(***************************************************************************)
(* Every reachable run can be read: the reader, whose checks were written     *)
(* apart from the operations, accepts each event they commit, and folds to   *)
(* exactly the stored projections (foldAndVerifyRun), for any effects, any    *)
(* number of attempts, takeovers, reconciliations and cancellations.  What   *)
(* the reader is added to keeps its own invariants.                         *)
(***************************************************************************)
THEOREM EveryRunStaysReadable ==
    ReaderSpec => [](EveryRunIsReadable /\ CodeBeginsOnce /\ EffectsAreAccountedFor)
<1> DEFINE Inv == TypeOK /\ Coherent /\ RequestsAreBinding
<1>1. ReaderInit => Inv /\ EveryRunIsReadable
  <2> SUFFICES ASSUME ReaderInit PROVE Inv /\ EveryRunIsReadable
    OBVIOUS
  <2>1. EveryRunIsReadable
    BY DEF ReaderInit, Init, EmptyFold, EveryRunIsReadable
  <2>2. TypeOK
    BY NothingIsTyped, EmptySeq DEF ReaderInit, Init, TypeOK
  <2> QED BY <2>1, <2>2, CoherentInit, RequestsInit DEF ReaderInit
<1>2. Inv /\ [ReaderNext]_<<vars, folded>> => Inv'
  BY TypeStep, CoherentStep, RequestsStep DEF ReaderNext, vars
<1>3. Inv /\ EveryRunIsReadable /\ [ReaderNext]_<<vars, folded>> => EveryRunIsReadable'
  <2> SUFFICES ASSUME TypeOK, Coherent, RequestsAreBinding, EveryRunIsReadable,
                      [ReaderNext]_<<vars, folded>>
               PROVE EveryRunIsReadable'
    OBVIOUS
  <2>1. CASE UNCHANGED <<vars, folded>>
    BY <2>1 DEF vars, EveryRunIsReadable
  <2>2. CASE Takeover /\ Read
    BY <2>2 DEF Takeover, Read, EveryRunIsReadable
  <2>3. ASSUME Next, Read, TypeOK', ~Takeover PROVE EveryRunIsReadable'
    <3>1. CASE CreateManualRun \/ RequestManualRunCancellation
      BY <2>3, <3>1, CreationIsRead, CancellationIsRead
    <3>2. CASE \E w \in Epochs : ClaimInvocation(w)
      BY <2>3, <3>2, ClaimIsRead DEF Coherent
    <3>3. ASSUME NEW g \in Generations, AttemptStep(g) PROVE EveryRunIsReadable'
      <4>1. CASE MarkAttemptStarted(g) \/ AbandonUnstartedAttempt(g)
        BY <2>3, <4>1, ProgressIsRead
      <4>2. CASE MarkAttemptUncertain(g)
                   \/ \E decision : SettleStoppedAttemptManagedEffects(g, decision)
        BY <2>3, <4>2, AttemptStepIsRead
      <4>3. CASE \E v : CommitVerifiedAttemptTerminal(g, v)
        BY <2>3, <4>3, TerminalIsRead
      <4>4. CASE \E u \in DOMAIN events : \E v : ReconcileUncertainManualAttempt(g, u, v)
        BY <2>3, <4>4, AttemptReconciliationIsRead
      <4> QED BY <3>3, <4>1, <4>2, <4>3, <4>4 DEF AttemptStep
    <3>4. ASSUME NEW g \in Generations, NEW e \in Effects, EffectStep(g, e)
          PROVE EveryRunIsReadable'
      <4>1. CASE RecordManagedEffectRequest(g, e)
        BY <2>3, <4>1, EffectRequestIsRead
      <4>2. CASE \E u \in DOMAIN events, status \in Succeeded \cup {"NOT_APPLIED"} :
                    ReconcileUncertainManagedEffect(g, e, u, status)
        BY <2>3, <4>2, EffectReconciliationIsRead
      <4> QED BY <2>3, <3>4, <4>1, <4>2, EffectStepIsRead DEF EffectStep
    <3> QED BY <2>3, <3>1, <3>2, <3>3, <3>4 DEF Next
  <2> QED BY <2>1, <2>2, <2>3, TypeStep DEF ReaderNext
<1>4. Inv => CodeBeginsOnce /\ EffectsAreAccountedFor
  BY DEF Coherent, EffectsAreAccountedFor
<1> QED BY <1>1, <1>2, <1>3, <1>4, PTL DEF ReaderSpec
-----------------------------------------------------------------------------
(***************************************************************************)
(* Deliveries.                                                             *)
(*                                                                         *)
(* The ledger of a delivery is the ledger of ExecutionLedger: each step of a  *)
(* call is a step of that specification or leaves its variables alone, so its *)
(* theorems hold here.  What relates ledger and destination is not inductive: *)
(* it rests on what every call under way may still know.  EffectSound says    *)
(* how the two sides agree on an effect and CallSound what a call holds; both *)
(* survive the steps of other calls because effects only move forward.       *)
(***************************************************************************)

\* The destination of such an effect was never asked to act.
Unasked == {"ABSENT", "PENDING", "CANCELLED"}

\* An effect is here for good once its attempt was stopped with it dispatched, or
\* its outcome is known.
Concluded == {"COMPLETED", "NOT_APPLIED", "UNCERTAIN"}

\* How ledger and destination agree on an effect.
EffectSound(e) ==
    /\ effects[e].status # "FAILED"
    /\ outcomes[e] \in Outcomes <=> effects[e].status = "COMPLETED"
    /\ effects[e].status = "COMPLETED" => outcomes[e] = disposition[e]
    /\ effects[e].status = "NOT_APPLIED" => disposition[e] = "not-applied"
    /\ effects[e].status \in Unasked =>
          disposition[e] = "open" /\ dispatched[e] = 0 /\ e \notin late
    /\ dispatched[e] <= 1

\* An answer or a probe that a call holds is what the destination decided.
HeldAnswersAreTrue(c) ==
    /\ pc[c] \in {"commit", "read"} => call[c].answer \in Outcomes
    /\ pc[c] = "append" => call[c].answer # "none"
    /\ call[c].answer # "none" =>
          call[c].effect \in Effects /\ disposition[call[c].effect] = call[c].answer
    /\ \A f \in Effects :
          call[c].probes[f] \in Outcomes => disposition[f] = call[c].probes[f]

\* A result is what the ledger retains.
HeldResultIsTrue(c) ==
    /\ call[c].result # "none" => pc[c] = "done" /\ call[c].effect \in Effects
    /\ call[c].result \in Outcomes =>
          Status(c) = "COMPLETED" /\ outcomes[call[c].effect] = call[c].result
    /\ call[c].result = "not-applied" => Status(c) = "NOT_APPLIED"
    /\ call[c].result = "uncertain" => Status(c) \in Concluded

CallSound(c) ==
    /\ pc[c] \notin {"idle", "done", "survey", "probe", "settle"} =>
          call[c].effect \in Effects
    /\ pc[c] = "execute" => Status(c) \notin Unasked /\ dispatched[call[c].effect] = 0
    /\ pc[c] \in {"finalize", "close", "append"} => Status(c) \in Concluded
    /\ HeldAnswersAreTrue(c)
    /\ HeldResultIsTrue(c)

\* At most one call is about to invoke the adapter for an effect.
ExecutorsApart ==
    \A c, d \in Callers :
        /\ pc[c] = "execute" /\ pc[d] = "execute"
        /\ call[c].effect = call[d].effect
        => c = d

\* The invariant of ledger, destination and calls.
Delivered ==
    /\ DeliveryTypeOK
    /\ \A e \in Effects : EffectSound(e)
    /\ \A c \in Callers : CallSound(c)
    /\ ExecutorsApart

\* A step moves an effect forward: what was decided stays decided, on both sides.
Forward(e) ==
    /\ disposition[e] # "open" => disposition'[e] = disposition[e]
    /\ effects[e].status \in {"COMPLETED", "NOT_APPLIED"} =>
          effects'[e].status = effects[e].status /\ outcomes'[e] = outcomes[e]
    /\ effects[e].status \in Concluded => effects'[e].status \in Concluded
    /\ effects[e].status \notin Unasked => effects'[e].status \notin Unasked

\* What a step does to ledger and destination: effects stay sound and move forward.
BothSides ==
    /\ [Next]_vars
    /\ business' \in Effects \cup {None}
    /\ disposition' \in [Effects -> Outcomes \cup {"open", "not-applied"}]
    /\ late' \subseteq Effects
    /\ outcomes' \in [Effects -> Outcomes \cup {"none"}]
    /\ dispatched' \in [Effects -> Nat]
    /\ begun' \in 0..MaxCalls
    /\ \A e \in Effects : EffectSound(e)' /\ Forward(e)

\* A step of one caller dispatches an effect only if it is about to execute it.
Sides(c) ==
    /\ BothSides
    /\ \A e \in Effects :
          dispatched'[e] = dispatched[e] \/ (pc[c] = "execute" /\ e = call[c].effect)

\* What each step is shown to do.
Progress == BothSides /\ Delivered'
-----------------------------------------------------------------------------
(***************************************************************************)
(* Calls.                                                                  *)
(***************************************************************************)

LEMMA BegunTyped ==
    ASSUME NEW e \in Effects \cup {None}, NEW g \in Generations
    PROVE Begun(e, g) \in Call
<1>1. [f \in Effects |-> "none"] \in [Effects -> Probes]
  BY DEF Probes
<1> QED
  BY <1>1 DEF Begun, Call, Answers, Results

\* A step of a call moves that call to one of its steps, and no other.
LEMMA ContinueMoves ==
    ASSUME DeliveryTypeOK, NEW c \in Callers, NEW step \in Steps, NEW k \in Call,
           Continue(c, step, k)
    PROVE /\ pc' \in [Callers -> Steps] /\ call' \in [Callers -> Call]
          /\ pc'[c] = step /\ call'[c] = k
          /\ \A d \in Callers : d # c => pc'[d] = pc[d] /\ call'[d] = call[d]
BY DEF DeliveryTypeOK, Continue

\* A call that is over holds nothing.
LEMMA EndIsSound ==
    ASSUME DeliveryTypeOK, NEW c \in Callers, End(c)
    PROVE /\ pc' \in [Callers -> Steps] /\ call' \in [Callers -> Call]
          /\ pc'[c] = "idle" /\ CallSound(c)'
          /\ \A d \in Callers : d # c => pc'[d] = pc[d] /\ call'[d] = call[d]
<1>1. Begun(None, 1) \in Call /\ "idle" \in Steps
  BY BegunTyped DEF Steps
<1>2. /\ pc' \in [Callers -> Steps] /\ call' \in [Callers -> Call]
      /\ pc'[c] = "idle" /\ call'[c] = Begun(None, 1)
      /\ \A d \in Callers : d # c => pc'[d] = pc[d] /\ call'[d] = call[d]
  BY <1>1, ContinueMoves DEF End
<1>3. /\ call'[c].answer = "none" /\ call'[c].result = "none"
      /\ \A f \in Effects : call'[c].probes[f] = "none"
  BY <1>2 DEF Begun
<1> QED
  BY <1>2, <1>3 DEF CallSound, HeldAnswersAreTrue, HeldResultIsTrue, Outcomes

\* A call returns only what the ledger retains.
LEMMA ReturnIsSound ==
    ASSUME DeliveryTypeOK, NEW c \in Callers, NEW result \in Results,
           call[c].effect \in Effects, Return(c, result),
           result \in Outcomes => /\ effects'[call[c].effect].status = "COMPLETED"
                                  /\ outcomes'[call[c].effect] = result,
           result = "not-applied" => effects'[call[c].effect].status = "NOT_APPLIED",
           result = "uncertain" => effects'[call[c].effect].status \in Concluded
    PROVE /\ pc' \in [Callers -> Steps] /\ call' \in [Callers -> Call]
          /\ pc'[c] = "done" /\ CallSound(c)'
          /\ \A d \in Callers : d # c => pc'[d] = pc[d] /\ call'[d] = call[d]
<1> DEFINE k == [Begun(call[c].effect, call[c].generation) EXCEPT !.result = result]
<1>1. k \in Call /\ "done" \in Steps
  <2>1. call[c].generation \in Generations
    BY DEF DeliveryTypeOK, Call
  <2>2. Begun(call[c].effect, call[c].generation) \in Call
    BY <2>1, BegunTyped
  <2> QED
    BY <2>2 DEF Call, Steps
<1>2. /\ k.effect = call[c].effect /\ k.answer = "none" /\ k.result = result
      /\ \A f \in Effects : k.probes[f] = "none"
  BY DEF Begun
<1>3. Continue(c, "done", k)
  BY DEF Return
<1> HIDE DEF k
<1>4. /\ pc' \in [Callers -> Steps] /\ call' \in [Callers -> Call]
      /\ pc'[c] = "done" /\ call'[c] = k
      /\ \A d \in Callers : d # c => pc'[d] = pc[d] /\ call'[d] = call[d]
  BY <1>1, <1>3, ContinueMoves
<1> QED
  BY <1>2, <1>4 DEF CallSound, HeldAnswersAreTrue, HeldResultIsTrue, Status, Outcomes

\* What a call holds stays true while other calls move effects forward, unless it is
\* about to execute and another call dispatches its effect.
LEMMA CallStaysSound ==
    ASSUME DeliveryTypeOK, NEW d \in Callers, CallSound(d),
           pc'[d] = pc[d], call'[d] = call[d],
           \A e \in Effects : EffectSound(e) /\ EffectSound(e)' /\ Forward(e),
           pc[d] = "execute" =>
              dispatched'[call[d].effect] = dispatched[call[d].effect]
    PROVE CallSound(d)'
<1>0. call[d].answer \in Answers
  BY DEF DeliveryTypeOK, Call
<1>1. HeldAnswersAreTrue(d)'
  BY <1>0 DEF CallSound, HeldAnswersAreTrue, Forward, Outcomes, Answers
<1>2. HeldResultIsTrue(d)'
  BY DEF CallSound, HeldResultIsTrue, Forward, Status, Outcomes, Results
<1>3. /\ pc'[d] = "execute" =>
            Status(d)' \notin Unasked /\ dispatched'[call'[d].effect] = 0
      /\ pc'[d] \in {"finalize", "close", "append"} => Status(d)' \in Concluded
  BY DEF CallSound, Forward, Status
<1> QED
  BY <1>1, <1>2, <1>3 DEF CallSound

\* A step of one caller that respects both sides and keeps its own call sound keeps
\* the invariant: it starts to execute only an effect that was PENDING before.
LEMMA StepOfCall ==
    ASSUME Delivered, NEW c \in Callers, Sides(c),
           pc' \in [Callers -> Steps], call' \in [Callers -> Call], CallSound(c)',
           \A d \in Callers : d # c => pc'[d] = pc[d] /\ call'[d] = call[d],
           pc'[c] = "execute" => effects[call'[c].effect].status = "PENDING"
    PROVE Progress
<1>1. DeliveryTypeOK'
  BY DEF Sides, BothSides, DeliveryTypeOK
<1>2. \A e \in Effects : EffectSound(e)'
  BY DEF Sides, BothSides
<1>3. ASSUME NEW d \in Callers, d # c PROVE CallSound(d)'
  <2>1. ASSUME pc[d] = "execute"
        PROVE dispatched'[call[d].effect] = dispatched[call[d].effect]
    <3>1. call[d].effect \in Effects
      BY <2>1 DEF Delivered, CallSound
    <3>2. pc[c] = "execute" => call[d].effect # call[c].effect
      BY <1>3, <2>1 DEF Delivered, ExecutorsApart
    <3> QED
      BY <3>1, <3>2 DEF Sides, BothSides
  <2>2. /\ CallSound(d) /\ DeliveryTypeOK
        /\ \A e \in Effects : EffectSound(e) /\ EffectSound(e)' /\ Forward(e)
    BY DEF Delivered, Sides, BothSides
  <2> QED
    BY <1>3, <2>1, <2>2, CallStaysSound
<1>4. ExecutorsApart'
  <2>1. ASSUME NEW d \in Callers, d # c, pc'[d] = "execute", pc'[c] = "execute"
        PROVE call'[c].effect # call'[d].effect
    <3>1. effects[call[d].effect].status # "PENDING" /\ call'[d] = call[d]
      BY <2>1 DEF Delivered, CallSound, Status, Unasked
    <3> QED
      BY <2>1, <3>1
  <2>2. ASSUME NEW d \in Callers, NEW b \in Callers, d # c, b # c,
               pc'[d] = "execute", pc'[b] = "execute", call'[d].effect = call'[b].effect
        PROVE d = b
    BY <2>2 DEF Delivered, ExecutorsApart
  <2> QED
    BY <2>1, <2>2 DEF ExecutorsApart
<1> QED
  BY <1>1, <1>2, <1>3, <1>4 DEF Delivered, Progress, Sides

\* The three ways a caller goes on.
LEMMA EndStep ==
    ASSUME Delivered, NEW c \in Callers, Sides(c), End(c)
    PROVE Progress
<1>1. DeliveryTypeOK
  BY DEF Delivered
<1>2. pc'[c] # "execute"
  BY <1>1, EndIsSound
<1> QED
  BY <1>1, <1>2, EndIsSound, StepOfCall

LEMMA ReturnStep ==
    ASSUME Delivered, NEW c \in Callers, Sides(c), NEW result \in Results,
           call[c].effect \in Effects, Return(c, result),
           result \in Outcomes => /\ effects'[call[c].effect].status = "COMPLETED"
                                  /\ outcomes'[call[c].effect] = result,
           result = "not-applied" => effects'[call[c].effect].status = "NOT_APPLIED",
           result = "uncertain" => effects'[call[c].effect].status \in Concluded
    PROVE Progress
<1>1. DeliveryTypeOK
  BY DEF Delivered
<1>2. /\ pc' \in [Callers -> Steps] /\ call' \in [Callers -> Call]
      /\ pc'[c] = "done" /\ CallSound(c)'
      /\ \A d \in Callers : d # c => pc'[d] = pc[d] /\ call'[d] = call[d]
  BY <1>1, ReturnIsSound
<1> QED
  BY <1>2, StepOfCall

LEMMA ContinueStep ==
    ASSUME Delivered, NEW c \in Callers, Sides(c), NEW step \in Steps, NEW k \in Call,
           Continue(c, step, k),
           step \notin {"idle", "done", "survey", "probe", "settle"} => k.effect \in Effects,
           step = "execute" =>
              /\ effects[k.effect].status = "PENDING"
              /\ effects'[k.effect].status \notin Unasked /\ dispatched'[k.effect] = 0,
           step \in {"finalize", "close", "append"} => effects'[k.effect].status \in Concluded,
           step \in {"commit", "read"} => k.answer \in Outcomes,
           step = "append" => k.answer # "none",
           k.answer # "none" => k.effect \in Effects /\ disposition'[k.effect] = k.answer,
           \A f \in Effects : k.probes[f] \in Outcomes => disposition'[f] = k.probes[f],
           k.result = "none"
    PROVE Progress
<1>1. /\ pc' \in [Callers -> Steps] /\ call' \in [Callers -> Call]
      /\ pc'[c] = step /\ call'[c] = k
      /\ \A d \in Callers : d # c => pc'[d] = pc[d] /\ call'[d] = call[d]
  BY ContinueMoves DEF Delivered
<1>2. CallSound(c)'
  BY <1>1 DEF CallSound, HeldAnswersAreTrue, HeldResultIsTrue, Status, Outcomes
<1> QED
  BY <1>1, <1>2, StepOfCall

\* A call that goes on with what it holds; that stays true as effects move forward.
LEMMA KeepStep ==
    ASSUME Delivered, NEW c \in Callers, pc[c] # "done", Sides(c),
           NEW step \in Steps \ {"execute"}, NEW k \in Call, Continue(c, step, k),
           k.effect = call[c].effect, k.answer = call[c].answer,
           k.probes = call[c].probes, k.result = call[c].result,
           step \notin {"idle", "done", "survey", "probe", "settle"} =>
              call[c].effect \in Effects,
           step \in {"finalize", "close", "append"} =>
              effects'[call[c].effect].status \in Concluded,
           step \in {"commit", "read"} => call[c].answer \in Outcomes,
           step = "append" => call[c].answer # "none"
    PROVE Progress
<1>1. /\ call[c].answer \in Answers
      /\ call[c].answer # "none" => /\ call[c].effect \in Effects
                                    /\ disposition[call[c].effect] = call[c].answer
      /\ \A f \in Effects :
            call[c].probes[f] \in Outcomes => disposition[f] = call[c].probes[f]
      /\ call[c].result = "none"
  BY DEF Delivered, DeliveryTypeOK, Call, CallSound, HeldAnswersAreTrue, HeldResultIsTrue
<1>2. \A e \in Effects : disposition[e] # "open" => disposition'[e] = disposition[e]
  BY DEF Sides, BothSides, Forward
<1>3. /\ k.answer # "none" => k.effect \in Effects /\ disposition'[k.effect] = k.answer
      /\ \A f \in Effects : k.probes[f] \in Outcomes => disposition'[f] = k.probes[f]
  BY <1>1, <1>2 DEF Answers, Outcomes
<1> QED
  BY <1>1, <1>3, ContinueStep

LEMMA GotoStep ==
    ASSUME Delivered, NEW c \in Callers, pc[c] # "done", Sides(c),
           NEW step \in Steps \ {"execute"}, Goto(c, step) \/ Holding(c, step),
           TypeOK,
           step \notin {"idle", "done", "survey", "probe", "settle"} =>
              call[c].effect \in Effects,
           step \in {"finalize", "close", "append"} =>
              effects'[call[c].effect].status \in Concluded,
           step \in {"commit", "read"} => call[c].answer \in Outcomes,
           step = "append" => call[c].answer # "none"
    PROVE Progress
<1>1. call[c] \in Call /\ Version \in Nat
  BY LenProperties DEF Delivered, DeliveryTypeOK, Version, TypeOK
<1>2. CASE Goto(c, step)
  BY <1>1, <1>2, KeepStep DEF Goto
<1>3. CASE Holding(c, step)
  <2> DEFINE k == [call[c] EXCEPT !.version = Version]
  <2>1. /\ k \in Call /\ k.effect = call[c].effect /\ k.answer = call[c].answer
        /\ k.probes = call[c].probes /\ k.result = call[c].result
    BY <1>1 DEF Call
  <2>2. Continue(c, step, k)
    BY <1>3 DEF Holding
  <2> HIDE DEF k
  <2> QED
    BY <2>1, <2>2, KeepStep
<1> QED
  BY <1>2, <1>3

\* The second try, or the end of trying, with the same answer.
LEMMA TryAgainStep ==
    ASSUME TypeOK, Delivered, NEW c \in Callers, pc[c] # "done", Sides(c),
           call[c].effect \in Effects, call[c].answer \in Outcomes, TryAgain(c)
    PROVE Progress
<1>1. {"block", "commit"} \subseteq Steps
  BY DEF Steps
<1>2. CASE Goto(c, "block")
  BY <1>1, <1>2, GotoStep
<1>3. CASE Continue(c, "commit", [call[c] EXCEPT !.retried = TRUE])
  <2> DEFINE k == [call[c] EXCEPT !.retried = TRUE]
  <2>1. /\ k \in Call /\ k.effect = call[c].effect /\ k.answer = call[c].answer
        /\ k.probes = call[c].probes /\ k.result = call[c].result
    BY DEF Delivered, DeliveryTypeOK, Call
  <2> HIDE DEF k
  <2> QED
    BY <1>1, <1>3, <2>1, KeepStep DEF k
<1> QED
  BY <1>2, <1>3 DEF TryAgain

\* A step that only reads leaves both sides as they are.
LEMMA ReadingSides ==
    ASSUME Delivered, NEW c \in Callers, ReadsOnly, begun' \in 0..MaxCalls
    PROVE Sides(c)
<1>1. /\ UNCHANGED vars
      /\ business' = business /\ disposition' = disposition /\ late' = late
      /\ outcomes' = outcomes /\ dispatched' = dispatched
  BY DEF ReadsOnly, ledger, destination
<1>2. /\ business' \in Effects \cup {None}
      /\ disposition' \in [Effects -> Outcomes \cup {"open", "not-applied"}]
      /\ late' \subseteq Effects
      /\ outcomes' \in [Effects -> Outcomes \cup {"none"}]
      /\ dispatched' \in [Effects -> Nat]
  BY <1>1 DEF Delivered, DeliveryTypeOK
<1>3. effects' = effects
  BY <1>1 DEF vars
<1>4. \A e \in Effects : EffectSound(e)' /\ Forward(e)
  BY <1>1, <1>3 DEF Delivered, EffectSound, Forward
<1> QED
  BY <1>1, <1>2, <1>4 DEF Sides, BothSides
-----------------------------------------------------------------------------
(***************************************************************************)
(* The steps that only read.                                               *)
(***************************************************************************)

\* The parts of a read: what it leaves alone, and the effect it is about.
LEMMA ReadingFacts ==
    ASSUME Delivered, NEW c \in Callers, ReadsOnly, UNCHANGED begun
    PROVE /\ Sides(c)
          /\ effects' = effects /\ outcomes' = outcomes /\ disposition' = disposition
          /\ Outcomes \subseteq Results /\ {"uncertain", "not-applied"} \subseteq Results
<1>1. begun' \in 0..MaxCalls
  BY DEF Delivered, DeliveryTypeOK
<1> QED
  BY <1>1, ReadingSides DEF ReadsOnly, ledger, destination, vars, Results

\* A retained outcome that is returned is the one the ledger holds.
LEMMA ReturnOutcome ==
    ASSUME Delivered, NEW c \in Callers, ReadsOnly, UNCHANGED begun,
           call[c].effect \in Effects, Status(c) \in Succeeded,
           Return(c, outcomes[call[c].effect])
    PROVE Progress
<1>1. Status(c) = "COMPLETED" /\ outcomes[call[c].effect] \in Outcomes
  BY DEF Delivered, EffectSound, Status, Succeeded
<1>2. outcomes[call[c].effect] \notin {"uncertain", "not-applied"}
  BY <1>1 DEF Outcomes
<1> QED
  BY <1>1, <1>2, ReadingFacts, ReturnStep DEF Status

LEMMA ReturnUncertain ==
    ASSUME Delivered, NEW c \in Callers, ReadsOnly, UNCHANGED begun,
           call[c].effect \in Effects, Status(c) = "UNCERTAIN", Return(c, "uncertain")
    PROVE Progress
<1>1. "uncertain" \notin Outcomes
  BY DEF Outcomes
<1> QED
  BY <1>1, ReadingFacts, ReturnStep DEF Status, Concluded

LEMMA ReadingSteps ==
    ASSUME TypeOK, Delivered, NEW c \in Callers, UNCHANGED begun,
           \/ Lookup(c) \/ Fold(c) \/ Confirm(c) \/ RecheckStart(c)
           \/ ReadOutcome(c) \/ Block(c) \/ AfterMark(c)
    PROVE Progress
<1> DEFINE e == call[c].effect
<1>1. ReadsOnly /\ pc[c] \in {"lookup", "fold", "confirm", "recheck-start", "read",
                              "block", "after-mark"}
  BY DEF Lookup, Fold, Confirm, RecheckStart, ReadOutcome, Block, AfterMark, At
<1>2. e \in Effects /\ pc[c] # "done"
  BY <1>1 DEF Delivered, CallSound
<1>3. Sides(c) /\ {"start", "fold", "request", "mark", "block", "commit"} \subseteq Steps
  BY <1>1, ReadingFacts DEF Steps
<1>4. ASSUME Classify(c) PROVE Progress
  BY <1>1, <1>2, <1>3, <1>4, ReturnOutcome, ReturnUncertain, EndStep, GotoStep
  DEF Classify
<1>5. ASSUME Settled(c) PROVE Progress
  BY <1>1, <1>2, <1>5, ReturnOutcome, ReturnUncertain DEF Settled
<1>6. CASE Lookup(c)
  BY <1>2, <1>3, <1>4, <1>6, GotoStep DEF Lookup
<1>7. CASE Fold(c)
  BY <1>2, <1>3, <1>7, GotoStep, EndStep DEF Fold
<1>8. CASE Confirm(c)
  BY <1>3, <1>4, <1>8, EndStep DEF Confirm
<1>9. CASE RecheckStart(c)
  BY <1>1, <1>2, <1>9, ReturnOutcome, ReturnUncertain DEF RecheckStart
<1>10. CASE ReadOutcome(c)
  <2>1. CASE Status(c) \in Succeeded /\ Return(c, outcomes[e])
    BY <1>1, <1>2, <2>1, ReturnOutcome
  <2>2. CASE TryAgain(c)
    <3>1. call[c].answer \in Outcomes
      BY <1>10 DEF ReadOutcome, At, Delivered, CallSound, HeldAnswersAreTrue
    <3> QED
      BY <1>2, <1>3, <2>2, <3>1, TryAgainStep
  <2> QED
    BY <1>10, <2>1, <2>2 DEF ReadOutcome
<1>11. CASE Block(c)
  BY <1>2, <1>3, <1>5, <1>11, GotoStep DEF Block
<1>12. CASE AfterMark(c)
  BY <1>5, <1>12 DEF AfterMark
<1> QED
  BY <1>6, <1>7, <1>8, <1>9, <1>10, <1>11, <1>12

LEMMA RecoveryReads ==
    ASSUME TypeOK, Delivered, NEW c \in Callers, UNCHANGED begun,
           Survey(c) \/ (\E e \in Effects : Probe(c, e)) \/ Recheck(c)
    PROVE Progress
<1>1. ReadsOnly /\ pc[c] # "done"
  BY DEF Survey, Probe, Recheck, At
<1>2. Sides(c) /\ {"probe", "settle"} \subseteq Steps
  BY <1>1, ReadingFacts DEF Steps
<1>3. CASE Survey(c)
  BY <1>1, <1>2, <1>3, GotoStep DEF Survey
<1>4. CASE Recheck(c)
  BY <1>1, <1>2, <1>4, GotoStep DEF Recheck
<1>5. ASSUME NEW e \in Effects, Probe(c, e) PROVE Progress
  <2> DEFINE k == [call[c] EXCEPT !.probes[e] = ProbeOf(e)]
  <2>1. call[c] \in Call /\ ProbeOf(e) \in Probes
    BY DEF Delivered, DeliveryTypeOK, ProbeOf, Probes, Outcomes
  <2>2. k \in Call
    BY <2>1 DEF Call
  <2>3. /\ k.effect = call[c].effect /\ k.answer = call[c].answer
        /\ k.result = call[c].result
        /\ \A f \in Effects :
              k.probes[f] = IF f = e THEN ProbeOf(e) ELSE call[c].probes[f]
    BY <2>1 DEF Call
  <2>4. /\ call[c].answer # "none" => call[c].effect \in Effects
              /\ disposition[call[c].effect] = call[c].answer
        /\ \A f \in Effects :
              call[c].probes[f] \in Outcomes => disposition[f] = call[c].probes[f]
        /\ call[c].result = "none"
    BY <1>1 DEF Delivered, CallSound, HeldAnswersAreTrue, HeldResultIsTrue
  <2>5. ProbeOf(e) \in Outcomes => disposition[e] = ProbeOf(e)
    BY DEF ProbeOf, Outcomes
  <2>6. disposition' = disposition
    BY <1>1, ReadingFacts
  <2>7. Continue(c, "probe", k)
    BY <1>5 DEF Probe
  <2> HIDE DEF k
  <2> QED
    BY <1>2, <2>2, <2>3, <2>4, <2>5, <2>6, <2>7, ContinueStep
<1> QED
  BY <1>3, <1>4, <1>5

LEMMA OperatorReads ==
    ASSUME TypeOK, Delivered, NEW c \in Callers, UNCHANGED begun,
           Target(c) \/ Finalize(c)
    PROVE Progress
<1>1. ReadsOnly /\ pc[c] \in {"target", "finalize"}
  BY DEF Target, Finalize, At
<1>2. call[c].effect \in Effects
  BY <1>1 DEF Delivered, CallSound
<1>3. /\ Sides(c) /\ effects' = effects /\ outcomes' = outcomes
      /\ disposition' = disposition
      /\ {"finalize", "close", "append"} \subseteq Steps
  BY <1>1, ReadingFacts DEF Steps
<1>4. CASE Target(c)
  <2>1. CASE Status(c) = "UNCERTAIN" /\ Holding(c, "finalize")
    BY <1>1, <1>2, <1>3, <2>1, GotoStep DEF Status, Concluded
  <2> DEFINE result == IF Status(c) = "NOT_APPLIED" THEN "not-applied"
                       ELSE outcomes[call[c].effect]
  <2>2. CASE Return(c, result)
    <3>1. /\ outcomes[call[c].effect] \in Outcomes \cup {"none"}
          /\ outcomes[call[c].effect] \in Outcomes <=> Status(c) = "COMPLETED"
      BY <1>2 DEF Delivered, DeliveryTypeOK, EffectSound, Status
    <3>2. /\ result \in Results /\ result # "uncertain"
          /\ result \in Outcomes =>
                Status(c) = "COMPLETED" /\ outcomes[call[c].effect] = result
          /\ result = "not-applied" => Status(c) = "NOT_APPLIED"
      BY <3>1 DEF Results, Outcomes
    <3> HIDE DEF result
    <3> QED
      BY <1>2, <1>3, <2>2, <3>2, ReturnStep DEF Status
  <2> QED
    BY <1>4, <2>1, <2>2 DEF Target
<1>5. CASE Finalize(c)
  <2>1. Status(c) \in Concluded
    BY <1>5 DEF Finalize, At, Delivered, CallSound
  <2>2. CASE Goto(c, "close")
    BY <1>1, <1>2, <1>3, <2>1, <2>2, GotoStep DEF Status
  <2> DEFINE answer == ProbeOf(call[c].effect)
             k == [call[c] EXCEPT !.answer = answer]
  <2>3. CASE answer # "unknown" /\ Continue(c, "append", k)
    <3>1. answer \in Outcomes /\ disposition[call[c].effect] = answer
      BY <2>3 DEF ProbeOf
    <3>2. call[c] \in Call /\ answer \in Answers /\ answer # "none"
      BY <3>1 DEF Delivered, DeliveryTypeOK, Answers, Outcomes
    <3> HIDE DEF answer
    <3>3. /\ k \in Call /\ k.effect = call[c].effect /\ k.answer = answer
          /\ k.probes = call[c].probes /\ k.result = call[c].result
      BY <3>2 DEF Call
    <3>4. /\ \A f \in Effects :
                call[c].probes[f] \in Outcomes => disposition[f] = call[c].probes[f]
          /\ call[c].result = "none"
      BY <1>1 DEF Delivered, CallSound, HeldAnswersAreTrue, HeldResultIsTrue
    <3> HIDE DEF k
    <3> QED
      BY <1>2, <1>3, <2>1, <2>3, <3>1, <3>2, <3>3, <3>4, ContinueStep DEF Status
  <2> QED
    BY <1>5, <2>2, <2>3 DEF Finalize
<1> QED
  BY <1>4, <1>5

\* A failed call holds nothing, and a call that begins knows nothing.
LEMMA EndsAndBeginnings ==
    ASSUME TypeOK, Delivered, NEW c \in Callers,
           (UNCHANGED begun /\ Fail(c)) \/ Begin(c)
    PROVE Progress
<1>1. CASE UNCHANGED begun /\ Fail(c)
  BY <1>1, ReadingFacts, EndStep DEF Fail
<1>2. CASE Begin(c)
  <2>1. Sides(c)
    <3>1. ReadsOnly /\ begun' \in 0..MaxCalls
      BY <1>2, CallsAreBounded DEF Begin, Delivered, DeliveryTypeOK
    <3> QED
      BY <3>1, ReadingSides
  <2>2. PICK g \in Generations, e \in Effects \cup {None},
             step \in {"survey", "lookup", "target"} :
                /\ Continue(c, step, Begun(e, g))
                /\ step # "survey" => e \in Effects
    BY <1>2 DEF Begin, RecoverStoppedManagedEffects, ExecuteManagedEffect,
       ReconcileAtOperatorBoundary
  <2>3. Begun(e, g) \in Call
    BY BegunTyped
  <2>4. /\ Begun(e, g).effect = e /\ Begun(e, g).answer = "none"
        /\ Begun(e, g).result = "none"
        /\ \A f \in Effects : Begun(e, g).probes[f] = "none"
    BY DEF Begun
  <2>5. step \in Steps /\ "none" \notin Outcomes
    BY DEF Steps, Outcomes
  <2> QED
    BY <2>1, <2>2, <2>3, <2>4, <2>5, ContinueStep
<1> QED
  BY <1>1, <1>2
-----------------------------------------------------------------------------
(***************************************************************************)
(* The steps that write to the ledger.                                     *)
(***************************************************************************)

\* A write that is refused or fails leaves both sides as they are.
LEMMA RefusedSides ==
    ASSUME Delivered, NEW c \in Callers, UNCHANGED begun, UNCHANGED ledger,
           UNCHANGED destination
    PROVE /\ Sides(c)
          /\ effects' = effects /\ outcomes' = outcomes
<1>1. ReadsOnly
  BY DEF ReadsOnly
<1> QED
  BY <1>1, ReadingFacts

\* An operation on one effect is a step of the ledger.
LEMMA EffectStepIsNext ==
    ASSUME TypeOK, NEW g \in Generations, NEW e \in Effects, EffectStep(g, e)
    PROVE [Next]_vars
<1>1. authority \in Epochs /\ HoldsAuthority(authority)
  BY DEF TypeOK, HoldsAuthority
<1> QED
  BY <1>1 DEF Next

\* An operation on effect e that keeps the destination: e may be told or stopped, and
\* nothing else moves.
LEMMA WritingSides ==
    ASSUME TypeOK, Delivered, NEW c \in Callers, NEW e \in Effects,
           UNCHANGED begun, UNCHANGED destination, [Next]_vars,
           NEW status, NEW outcome \in Outcomes \cup {"none"},
           effects'[e].status = status, outcomes'[e] = outcome,
           \A f \in Effects \ {e} :
              effects'[f].status = effects[f].status /\ outcomes'[f] = outcomes[f],
           outcomes' \in [Effects -> Outcomes \cup {"none"}],
           \/ /\ effects[e].status = "ABSENT" /\ status = "PENDING"
              /\ outcome = outcomes[e]
           \/ /\ effects[e].status = "PENDING" /\ status = "STARTED"
              /\ outcome = outcomes[e]
           \/ /\ effects[e].status = "STARTED" /\ status = "UNCERTAIN"
              /\ outcome = outcomes[e]
           \/ /\ effects[e].status \in {"STARTED", "UNCERTAIN"} /\ status = "COMPLETED"
              /\ outcome \in Outcomes /\ disposition[e] = outcome
           \/ /\ effects[e].status = "UNCERTAIN" /\ status = "NOT_APPLIED"
              /\ outcome = outcomes[e] /\ disposition[e] = "not-applied"
    PROVE Sides(c)
<1>1. /\ business' = business /\ disposition' = disposition /\ late' = late
      /\ dispatched' = dispatched
  BY DEF destination
<1>2. /\ business' \in Effects \cup {None}
      /\ disposition' \in [Effects -> Outcomes \cup {"open", "not-applied"}]
      /\ late' \subseteq Effects
      /\ dispatched' \in [Effects -> Nat]
      /\ begun' \in 0..MaxCalls
  BY <1>1 DEF Delivered, DeliveryTypeOK
<1>3. EffectSound(e)' /\ Forward(e)
  BY <1>1 DEF Delivered, EffectSound, Forward, Concluded, Unasked
<1>4. ASSUME NEW f \in Effects, f # e PROVE EffectSound(f)' /\ Forward(f)
  <2>1. effects'[f].status = effects[f].status /\ outcomes'[f] = outcomes[f]
    BY <1>4
  <2> QED
    BY <1>1, <2>1 DEF Delivered, EffectSound, Forward
<1> QED
  BY <1>1, <1>2, <1>3, <1>4 DEF Sides, BothSides

LEMMA RequestStep ==
    ASSUME TypeOK, Delivered, NEW c \in Callers, UNCHANGED begun, Request(c)
    PROVE Progress
<1> DEFINE e == call[c].effect
           g == call[c].generation
<1>1. /\ pc[c] = "request" /\ UNCHANGED destination /\ Goto(c, "confirm")
      /\ "confirm" \in Steps
  BY DEF Request, At, Steps
<1>2. e \in Effects /\ g \in Generations
  BY <1>1 DEF Delivered, CallSound, DeliveryTypeOK, Call
<1>3. CASE RecordManagedEffectRequest(g, e) /\ UNCHANGED outcomes
  <2>1. [Next]_vars
    BY <1>2, <1>3, EffectStepIsNext DEF EffectStep
  <2>2. /\ effects[e].status = "ABSENT" /\ effects'[e].status = "PENDING"
        /\ \A f \in Effects \ {e} : effects'[f] = effects[f]
    BY <1>2, <1>3 DEF RecordManagedEffectRequest, TypeOK
  <2>3. outcomes' = outcomes /\ outcomes \in [Effects -> Outcomes \cup {"none"}]
    BY <1>3 DEF Delivered, DeliveryTypeOK
  <2>4. Sides(c)
    BY <1>1, <1>2, <2>1, <2>2, <2>3, WritingSides
  <2> QED
    BY <1>1, <1>2, <2>4, GotoStep
<1>4. CASE Refused(c)
  BY <1>1, <1>2, <1>4, RefusedSides, GotoStep DEF Refused
<1> QED
  BY <1>3, <1>4 DEF Request

LEMMA StartStep ==
    ASSUME TypeOK, Delivered, NEW c \in Callers, UNCHANGED begun, Start(c)
    PROVE Progress
<1> DEFINE e == call[c].effect
           g == call[c].generation
           k == [call[c] EXCEPT !.version = Version + 1]
<1>1. /\ pc[c] = "start" /\ UNCHANGED destination
      /\ \/ WonStart(c) /\ Continue(c, "execute", k)
         \/ Goto(c, "recheck-start")
      /\ {"execute", "recheck-start"} \subseteq Steps
  BY DEF Start, At, Steps
<1>2. e \in Effects /\ g \in Generations
  BY <1>1 DEF Delivered, CallSound, DeliveryTypeOK, Call
<1>3. Sides(c)
  <2>1. CASE MarkManagedEffectStarted(g, e) /\ UNCHANGED outcomes
    <3>1. [Next]_vars
      BY <1>2, <2>1, EffectStepIsNext DEF EffectStep
    <3>2. /\ effects[e].status = "PENDING" /\ effects'[e].status = "STARTED"
          /\ \A f \in Effects \ {e} : effects'[f] = effects[f]
      BY <1>2, <2>1 DEF MarkManagedEffectStarted, TypeOK, Effect
    <3>3. outcomes' = outcomes /\ outcomes \in [Effects -> Outcomes \cup {"none"}]
      BY <2>1 DEF Delivered, DeliveryTypeOK
    <3> QED
      BY <1>1, <1>2, <3>1, <3>2, <3>3, WritingSides
  <2>2. CASE Refused(c)
    BY <1>1, <2>2, RefusedSides DEF Refused
  <2> QED
    BY <2>1, <2>2 DEF Start
<1>4. CASE Goto(c, "recheck-start")
  BY <1>1, <1>2, <1>3, <1>4, GotoStep
<1>5. CASE WonStart(c) /\ Continue(c, "execute", k)
  <2>1. effects[e].status = "PENDING" /\ effects'[e].status = "STARTED"
    BY <1>5 DEF WonStart, Status
  <2>2. dispatched'[e] = 0
    BY <1>1, <1>2, <2>1 DEF Delivered, EffectSound, Unasked, destination
  <2>3. /\ k \in Call /\ k.effect = e /\ k.answer = call[c].answer
        /\ k.probes = call[c].probes /\ k.result = call[c].result
    <3>1. Version + 1 \in Nat
      BY LenProperties DEF Version, TypeOK
    <3> QED
      BY <3>1 DEF Delivered, DeliveryTypeOK, Call
  <2>4. /\ call[c].answer # "none" => disposition[e] = call[c].answer
        /\ \A f \in Effects :
              call[c].probes[f] \in Outcomes => disposition[f] = call[c].probes[f]
        /\ call[c].result = "none"
    BY <1>1 DEF Delivered, CallSound, HeldAnswersAreTrue, HeldResultIsTrue
  <2>5. disposition' = disposition
    BY <1>1 DEF destination
  <2> HIDE DEF k
  <2> QED
    BY <1>1, <1>2, <1>3, <1>5, <2>1, <2>2, <2>3, <2>4, <2>5, ContinueStep DEF Unasked
<1> QED
  BY <1>1, <1>4, <1>5

LEMMA CommitStep ==
    ASSUME TypeOK, Delivered, NEW c \in Callers, UNCHANGED begun, CommitOutcome(c)
    PROVE Progress
<1> DEFINE e == call[c].effect
           g == call[c].generation
<1>1. /\ pc[c] = "commit" /\ UNCHANGED destination
      /\ Goto(c, "read") \/ TryAgain(c)
      /\ "read" \in Steps
  BY DEF CommitOutcome, At, Steps
<1>2. /\ e \in Effects /\ g \in Generations
      /\ call[c].answer \in Outcomes /\ disposition[e] = call[c].answer
  BY <1>1 DEF Delivered, CallSound, HeldAnswersAreTrue, DeliveryTypeOK, Call, Outcomes
<1>3. CASE CommitsNow(c)
  <2>1. CommitManagedEffectOutcome(g, e, "COMPLETED")
    BY <1>3 DEF CommitsNow
  <2>2. [Next]_vars
    BY <1>2, <2>1, EffectStepIsNext DEF EffectStep, Succeeded
  <2>3. /\ effects[e].status = "STARTED" /\ effects'[e].status = "COMPLETED"
        /\ \A f \in Effects \ {e} : effects'[f] = effects[f]
    BY <1>2, <2>1 DEF CommitManagedEffectOutcome, TypeOK, Effect
  <2>4. /\ outcomes'[e] = call[c].answer
        /\ \A f \in Effects \ {e} : outcomes'[f] = outcomes[f]
        /\ outcomes' \in [Effects -> Outcomes \cup {"none"}]
    BY <1>2, <1>3 DEF CommitsNow, Retain, Delivered, DeliveryTypeOK
  <2>5. Sides(c)
    BY <1>1, <1>2, <2>2, <2>3, <2>4, WritingSides
  <2> QED
    BY <1>1, <1>2, <2>5, GotoStep, TryAgainStep
<1>4. CASE UNCHANGED ledger
  BY <1>1, <1>2, <1>4, RefusedSides, GotoStep, TryAgainStep
<1> QED
  BY <1>3, <1>4 DEF CommitOutcome, Refused

LEMMA MarkStep ==
    ASSUME TypeOK, Delivered, NEW c \in Callers, UNCHANGED begun, MarkUncertain(c)
    PROVE Progress
<1> DEFINE e == call[c].effect
           g == call[c].generation
<1>1. pc[c] = "mark" /\ UNCHANGED destination /\ "after-mark" \in Steps
  BY DEF MarkUncertain, At, Steps
<1>2. e \in Effects /\ g \in Generations
  BY <1>1 DEF Delivered, CallSound, DeliveryTypeOK, Call
<1>3. CASE /\ MarkManagedEffectUncertain(g, e) /\ UNCHANGED outcomes
           /\ Return(c, "uncertain") \/ Goto(c, "after-mark")
  <2>1. [Next]_vars
    BY <1>2, <1>3, EffectStepIsNext DEF EffectStep
  <2>2. /\ effects[e].status = "STARTED" /\ effects'[e].status = "UNCERTAIN"
        /\ \A f \in Effects \ {e} : effects'[f] = effects[f]
    BY <1>2, <1>3 DEF MarkManagedEffectUncertain, TypeOK, Effect
  <2>3. outcomes' = outcomes /\ outcomes \in [Effects -> Outcomes \cup {"none"}]
    BY <1>3 DEF Delivered, DeliveryTypeOK
  <2>4. Sides(c)
    BY <1>1, <1>2, <2>1, <2>2, <2>3, WritingSides
  <2>5. "uncertain" \in Results /\ "uncertain" \notin Outcomes
    BY DEF Results, Outcomes
  <2> QED
    BY <1>1, <1>2, <1>3, <2>2, <2>4, <2>5, GotoStep, ReturnStep DEF Concluded
<1>4. CASE Refused(c) /\ Goto(c, "after-mark")
  BY <1>1, <1>2, <1>4, RefusedSides, GotoStep DEF Refused
<1> QED
  BY <1>3, <1>4 DEF MarkUncertain

\* What the settlement decides of an effect, of which it holds a probe.
LEMMA SettleStep ==
    ASSUME TypeOK, Delivered, NEW c \in Callers, UNCHANGED begun, Settle(c)
    PROVE Progress
<1> DEFINE g == call[c].generation
           settled == UnresolvedEffects(effects, g)
           decision == [e \in settled |-> DecisionOf(c, e)]
<1>1. /\ pc[c] = "settle" /\ UNCHANGED destination /\ End(c) /\ g \in Generations
      /\ SettleStoppedAttemptManagedEffects(g, decision)
      /\ outcomes' = [e \in Effects |->
            IF effects'[e].status = "COMPLETED" /\ effects[e].status # "COMPLETED"
            THEN call[c].probes[e] ELSE outcomes[e]]
  BY DEF Settle, At, Delivered, DeliveryTypeOK, Call
<1>2. [Next]_vars
  <2>1. decision \in [settled -> Succeeded \cup {"UNCERTAIN", "CANCELLED"}]
    BY DEF DecisionOf, Succeeded
  <2>2. AttemptStep(g)
    <3> HIDE DEF decision
    <3>1. IsLive(g)
      BY <1>1 DEF SettleStoppedAttemptManagedEffects
    <3> QED
      BY <1>1, <2>1, <3>1 DEF AttemptStep
  <2>3. authority \in Epochs /\ HoldsAuthority(authority)
    BY DEF TypeOK, HoldsAuthority
  <2> QED
    BY <1>1, <2>2, <2>3 DEF Next
<1>3. ASSUME NEW e \in Effects
      PROVE \/ /\ effects'[e].status = effects[e].status
               /\ effects[e].status \notin Unresolved \/ e \notin settled
            \/ effects[e].status = "PENDING" /\ effects'[e].status = "CANCELLED"
            \/ /\ effects[e].status = "STARTED" /\ effects'[e].status = "UNCERTAIN"
            \/ /\ effects[e].status = "STARTED" /\ effects'[e].status = "COMPLETED"
               /\ call[c].probes[e] \in Outcomes
  <2>1. effects' = [f \in Effects |->
           IF f \in settled THEN [effects[f] EXCEPT !.status = decision[f]]
           ELSE effects[f]]
    BY <1>1 DEF SettleStoppedAttemptManagedEffects
  <2>2. e \in settled => effects[e].status \in Unresolved
    BY DEF UnresolvedEffects
  <2>3. e \in settled => effects'[e].status = DecisionOf(c, e)
    BY <2>1 DEF TypeOK, Effect
  <2> QED
    BY <2>1, <2>2, <2>3 DEF DecisionOf, Unresolved
<1>4. /\ disposition' = disposition /\ late' = late /\ dispatched' = dispatched
      /\ business' = business
  BY <1>1 DEF destination
<1>5. \A e \in Effects :
         call[c].probes[e] \in Outcomes => disposition[e] = call[c].probes[e]
  BY DEF Delivered, CallSound, HeldAnswersAreTrue
<1>6. ASSUME NEW e \in Effects PROVE EffectSound(e)' /\ Forward(e)
  <2>1. EffectSound(e) /\ outcomes'[e] =
           IF effects'[e].status = "COMPLETED" /\ effects[e].status # "COMPLETED"
           THEN call[c].probes[e] ELSE outcomes[e]
    BY <1>1 DEF Delivered
  <2>2. CASE effects'[e].status = effects[e].status
    BY <1>4, <2>1, <2>2 DEF EffectSound, Forward
  <2>3. CASE effects[e].status = "PENDING" /\ effects'[e].status = "CANCELLED"
    BY <1>4, <2>1, <2>3 DEF EffectSound, Forward, Unasked, Concluded
  <2>4. CASE effects[e].status = "STARTED" /\ effects'[e].status = "UNCERTAIN"
    BY <1>4, <2>1, <2>4 DEF EffectSound, Forward, Unasked, Concluded
  <2>5. CASE /\ effects[e].status = "STARTED" /\ effects'[e].status = "COMPLETED"
             /\ call[c].probes[e] \in Outcomes
    BY <1>4, <1>5, <2>1, <2>5 DEF EffectSound, Forward, Unasked, Concluded
  <2> QED
    BY <1>3, <2>2, <2>3, <2>4, <2>5
<1>7. outcomes' \in [Effects -> Outcomes \cup {"none"}]
  <2>1. ASSUME NEW e \in Effects PROVE outcomes'[e] \in Outcomes \cup {"none"}
    BY <1>1, <1>3 DEF Delivered, DeliveryTypeOK
  <2> QED
    BY <1>1, <2>1
<1>8. Sides(c)
  BY <1>2, <1>4, <1>6, <1>7 DEF Sides, BothSides, Delivered, DeliveryTypeOK
<1> QED
  BY <1>1, <1>8, EndStep

LEMMA AppendStep ==
    ASSUME TypeOK, Delivered, NEW c \in Callers, UNCHANGED begun, AppendReconciliation(c)
    PROVE Progress
<1> DEFINE e == call[c].effect
           g == call[c].generation
           answer == call[c].answer
           status == IF answer \in Outcomes THEN "COMPLETED" ELSE "NOT_APPLIED"
<1>1. /\ pc[c] = "append" /\ UNCHANGED destination
      /\ Return(c, answer) \/ End(c)
      /\ IF answer \in Outcomes THEN Retain(e, answer) ELSE UNCHANGED outcomes
  BY DEF AppendReconciliation, At
<1>2. PICK u \in DOMAIN events : ReconcileUncertainManagedEffect(g, e, u, status)
  BY DEF AppendReconciliation
<1>3. /\ e \in Effects /\ g \in Generations
      /\ answer \in Outcomes \cup {"not-applied"} /\ disposition[e] = answer
  BY <1>1 DEF Delivered, CallSound, HeldAnswersAreTrue, DeliveryTypeOK, Call, Answers
<1>4. /\ effects[e].status = "UNCERTAIN" /\ effects'[e].status = status
      /\ \A f \in Effects \ {e} : effects'[f] = effects[f]
  BY <1>2, <1>3 DEF ReconcileUncertainManagedEffect, TypeOK, Effect
<1>5. [Next]_vars
  <2>1. status \in Succeeded \cup {"NOT_APPLIED"}
    BY DEF Succeeded
  <2>2. EffectStep(g, e)
    <3> HIDE DEF status
    <3>1. IsBlocked(g)
      BY <1>2 DEF ReconcileUncertainManagedEffect
    <3> QED
      BY <1>2, <2>1, <3>1 DEF EffectStep
  <2> QED
    BY <1>3, <2>2, EffectStepIsNext
<1>6. /\ outcomes' \in [Effects -> Outcomes \cup {"none"}]
      /\ \A f \in Effects \ {e} : outcomes'[f] = outcomes[f]
      /\ outcomes'[e] = IF answer \in Outcomes THEN answer ELSE outcomes[e]
  BY <1>1, <1>3 DEF Retain, Delivered, DeliveryTypeOK
<1>7. Sides(c)
  <2>1. CASE answer \in Outcomes
    BY <1>1, <1>3, <1>4, <1>5, <1>6, <2>1, WritingSides
  <2>2. CASE answer = "not-applied"
    <3>1. "not-applied" \notin Outcomes /\ outcomes[e] \in Outcomes \cup {"none"}
      BY <1>3 DEF Outcomes, Delivered, DeliveryTypeOK
    <3> QED
      BY <1>1, <1>3, <1>4, <1>5, <1>6, <2>2, <3>1, WritingSides
  <2> QED
    BY <1>3, <2>1, <2>2
<1>8. CASE Return(c, answer)
  <2>1. answer \in Results /\ answer # "uncertain" /\ "not-applied" \notin Outcomes
    BY <1>3 DEF Results, Outcomes
  <2> QED
    BY <1>3, <1>4, <1>6, <1>7, <1>8, <2>1, ReturnStep
<1> QED
  BY <1>1, <1>7, <1>8, EndStep
-----------------------------------------------------------------------------
(***************************************************************************)
(* The steps at the destination.                                           *)
(***************************************************************************)

\* A put or a resolution decides its effect once, and no other.
LEMMA Deciding ==
    ASSUME DeliveryTypeOK, NEW e \in Effects, Put(e) \/ Resolve(e)
    PROVE /\ business' \in Effects \cup {None}
          /\ disposition' \in [Effects -> Outcomes \cup {"open", "not-applied"}]
          /\ \A f \in Effects : disposition[f] # "open" \/ f # e =>
                disposition'[f] = disposition[f]
          /\ disposition'[e] # "open"
          /\ disposition[e] # "open" => UNCHANGED <<business, disposition>>
<1>1. CASE disposition[e] # "open" /\ UNCHANGED <<business, disposition>>
  BY <1>1 DEF DeliveryTypeOK
<1>2. ASSUME NEW d \in Outcomes \cup {"not-applied"}, Destination!Decide(e, d)
      PROVE /\ disposition' \in [Effects -> Outcomes \cup {"open", "not-applied"}]
            /\ \A f \in Effects \ {e} : disposition'[f] = disposition[f]
            /\ disposition[e] = "open" /\ disposition'[e] # "open"
  BY <1>2 DEF Destination!Decide, DeliveryTypeOK, Outcomes
<1>3. CASE Destination!Insert(e)
  BY <1>2, <1>3 DEF Destination!Insert, Outcomes
<1>4. CASE Destination!FindPresent(e)
  BY <1>2, <1>4 DEF Destination!FindPresent, DeliveryTypeOK, Outcomes
<1>5. CASE Destination!Close(e)
  BY <1>2, <1>5 DEF Destination!Close, DeliveryTypeOK
<1> QED
  BY <1>1, <1>3, <1>4, <1>5 DEF Put, Resolve

\* The destination acts on effects whose start is durable, the ledger untouched.
LEMMA ActingSides ==
    ASSUME Delivered, NEW e \in Effects, effects[e].status \notin Unasked,
           UNCHANGED ledger, UNCHANGED begun,
           \/ Put(e) \/ Resolve(e)
           \/ UNCHANGED <<business, disposition>>,
           late' \subseteq late \cup {e},
           dispatched' = [dispatched EXCEPT ![e] = @ + 1] \/ UNCHANGED dispatched,
           dispatched'[e] <= 1
    PROVE BothSides
<1>1. /\ [Next]_vars
      /\ effects' = effects /\ outcomes' = outcomes
  BY DEF ledger, vars
<1>2. /\ business' \in Effects \cup {None}
      /\ disposition' \in [Effects -> Outcomes \cup {"open", "not-applied"}]
      /\ \A f \in Effects : disposition[f] # "open" \/ f # e =>
            disposition'[f] = disposition[f]
  BY Deciding DEF Delivered, DeliveryTypeOK
<1>3. /\ late' \subseteq Effects /\ dispatched' \in [Effects -> Nat]
      /\ outcomes' \in [Effects -> Outcomes \cup {"none"}]
      /\ begun' \in 0..MaxCalls
      /\ \A f \in Effects \ {e} : dispatched'[f] = dispatched[f]
  BY <1>1 DEF Delivered, DeliveryTypeOK
<1>4. ASSUME NEW f \in Effects PROVE EffectSound(f)' /\ Forward(f)
  <2>1. EffectSound(f)
    BY DEF Delivered
  <2>2. effects[f].status \in {"COMPLETED", "NOT_APPLIED"} => disposition[f] # "open"
    BY <2>1 DEF EffectSound, Outcomes
  <2>3. Forward(f)
    BY <1>1, <1>2 DEF Forward
  <2> QED
    BY <1>1, <1>2, <1>3, <2>1, <2>2 , <2>3 DEF EffectSound, Unasked
<1> QED
  BY <1>1, <1>2, <1>3, <1>4 DEF BothSides

LEMMA ExecuteStep ==
    ASSUME TypeOK, Delivered, NEW c \in Callers, UNCHANGED begun, Execute(c)
    PROVE Progress
<1> DEFINE e == call[c].effect
<1>1. /\ pc[c] = "execute" /\ UNCHANGED ledger
      /\ dispatched' = [dispatched EXCEPT ![e] = @ + 1]
      /\ {"block", "commit"} \subseteq Steps
  BY DEF Execute, At, Steps
<1>2. /\ e \in Effects /\ effects[e].status \notin Unasked
      /\ dispatched[e] = 0
  BY <1>1 DEF Delivered, CallSound, Status
<1>3. dispatched'[e] <= 1
  BY <1>1, <1>2 DEF Delivered, DeliveryTypeOK
<1>4. CASE /\ Put(e) /\ UNCHANGED late
           /\ \/ /\ Receipted(e)
                 /\ Continue(c, "commit", [call[c] EXCEPT !.answer = disposition'[e]])
              \/ Goto(c, "block")
  <2>1. BothSides
    <3>1. late' \subseteq late \cup {e}
      BY <1>4
    <3> QED
      BY <1>1, <1>2, <1>3, <1>4, <3>1, ActingSides
  <2>2. Sides(c)
    BY <1>1, <2>1 DEF Sides, Delivered, DeliveryTypeOK
  <2>3. CASE Goto(c, "block")
    BY <1>1, <1>2, <2>2, <2>3, GotoStep
  <2> DEFINE answer == disposition'[e]
             k == [call[c] EXCEPT !.answer = answer]
  <2>4. CASE Receipted(e) /\ Continue(c, "commit", k)
    <3>1. answer \in Outcomes
      BY <2>4 DEF Receipted
    <3>2. disposition'[e] = answer
      OBVIOUS
    <3> HIDE DEF answer
    <3>3. /\ k \in Call /\ k.effect = e /\ k.answer = answer
          /\ k.probes = call[c].probes /\ k.result = call[c].result
      BY <3>1 DEF Delivered, DeliveryTypeOK, Call, Answers
    <3>4. /\ \A f \in Effects :
                call[c].probes[f] \in Outcomes => disposition[f] = call[c].probes[f]
          /\ call[c].result = "none"
      BY <1>1 DEF Delivered, CallSound, HeldAnswersAreTrue, HeldResultIsTrue
    <3>5. \A f \in Effects : disposition[f] # "open" => disposition'[f] = disposition[f]
      BY <2>1 DEF BothSides, Forward
    <3>6. \A f \in Effects :
             call[c].probes[f] \in Outcomes => disposition'[f] = call[c].probes[f]
      BY <3>4, <3>5 DEF Outcomes
    <3> HIDE DEF k
    <3> QED
      BY <1>1, <1>2, <2>2, <2>4, <3>1, <3>2, <3>3, <3>4, <3>6, ContinueStep
  <2> QED
    BY <1>4, <2>3, <2>4
<1>5. CASE /\ UNCHANGED <<business, disposition>>
           /\ late' = late \cup {e} /\ Goto(c, "block")
  <2>1. BothSides
    <3>1. late' \subseteq late \cup {e}
      BY <1>5
    <3> QED
      BY <1>1, <1>2, <1>3, <1>5, <3>1, ActingSides
  <2>2. Sides(c)
    BY <1>1, <2>1 DEF Sides, Delivered, DeliveryTypeOK
  <2> QED
    BY <1>1, <1>2, <1>5, <2>2, GotoStep
<1> QED
  BY <1>4, <1>5 DEF Execute

LEMMA CloseStep ==
    ASSUME TypeOK, Delivered, NEW c \in Callers, UNCHANGED begun, CloseEffect(c)
    PROVE Progress
<1> DEFINE e == call[c].effect
           answer == disposition'[e]
           k == [call[c] EXCEPT !.answer = answer]
<1>1. /\ pc[c] = "close" /\ Resolve(e)
      /\ Continue(c, "append", k) \/ End(c)
      /\ UNCHANGED ledger /\ late' = late /\ dispatched' = dispatched
      /\ "append" \in Steps
  BY DEF CloseEffect, At, Steps
<1>2. /\ e \in Effects /\ effects[e].status \in Concluded
      /\ dispatched[e] <= 1 /\ effects' = effects
  BY <1>1 DEF Delivered, CallSound, EffectSound, Status, ledger, vars
<1>3. effects[e].status \notin Unasked
  BY <1>2 DEF Concluded, Unasked
<1>4. BothSides
  <2>1. late' \subseteq late \cup {e} /\ dispatched'[e] <= 1
    BY <1>1, <1>2
  <2> QED
    BY <1>1, <1>2, <1>3, <2>1, ActingSides
<1>5. Sides(c)
  BY <1>1, <1>4 DEF Sides
<1>6. CASE Continue(c, "append", k)
  <2>1. answer \in Outcomes \cup {"not-applied"} /\ disposition'[e] = answer
    BY <1>1, <1>2, Deciding DEF Delivered
  <2> HIDE DEF answer
  <2>2. call[c] \in Call /\ answer \in Answers /\ answer # "none"
    BY <2>1 DEF Delivered, DeliveryTypeOK, Answers, Outcomes
  <2> HIDE DEF e
  <2>3. /\ k \in Call /\ k.effect = call[c].effect /\ k.answer = answer
        /\ k.probes = call[c].probes /\ k.result = call[c].result
    BY <2>2 DEF Call
  <2>4. /\ \A f \in Effects :
              call[c].probes[f] \in Outcomes => disposition[f] = call[c].probes[f]
        /\ call[c].result = "none"
    BY <1>1 DEF Delivered, CallSound, HeldAnswersAreTrue, HeldResultIsTrue
  <2>5. \A f \in Effects :
           call[c].probes[f] \in Outcomes => disposition'[f] = call[c].probes[f]
    BY <1>4, <2>4 DEF BothSides, Forward, Outcomes
  <2> HIDE DEF k
  <2>6. k.effect = e
    BY <2>3 DEF e
  <2> QED
    BY <1>1, <1>2, <1>5, <1>6, <2>1, <2>2, <2>4, <2>5, <2>3, <2>6, ContinueStep
<1> QED
  BY <1>1, <1>5, <1>6, EndStep

\* A step that is not a caller's changes what no call holds.
LEMMA QuietStep ==
    ASSUME Delivered, BothSides, UNCHANGED dispatched, UNCHANGED locals
    PROVE Progress
<1>1. pc' = pc /\ call' = call
  BY DEF locals
<1>2. DeliveryTypeOK'
  BY <1>1 DEF BothSides, Delivered, DeliveryTypeOK
<1>3. \A e \in Effects : EffectSound(e) /\ EffectSound(e)' /\ Forward(e)
  BY DEF Delivered, BothSides
<1>4. ASSUME NEW d \in Callers PROVE CallSound(d)'
  BY <1>1, <1>3, CallStaysSound DEF Delivered
<1>5. ExecutorsApart'
  BY <1>1 DEF Delivered, ExecutorsApart
<1> QED
  BY <1>2, <1>3, <1>4, <1>5 DEF Delivered, Progress

LEMMA ArriveStep ==
    ASSUME TypeOK, Delivered, NEW e \in Effects, ArriveLate(e)
    PROVE Progress
<1>1. /\ e \in late /\ Put(e) /\ late' \subseteq late \cup {e}
      /\ UNCHANGED ledger /\ dispatched' = dispatched /\ UNCHANGED locals
      /\ UNCHANGED begun
  BY DEF ArriveLate, locals
<1>2. effects[e].status \notin Unasked /\ dispatched'[e] <= 1
  BY <1>1 DEF Delivered, EffectSound
<1>3. BothSides
  BY <1>1, <1>2, ActingSides
<1> QED
  BY <1>1, <1>3, QuietStep

LEMMA LifecycleStep ==
    ASSUME TypeOK, Delivered, Lifecycle
    PROVE Progress
<1>1. authority \in Epochs /\ HoldsAuthority(authority)
  BY DEF TypeOK, HoldsAuthority
<1>2. ASSUME NEW g \in Generations,
             \/ MarkAttemptStarted(g)
             \/ AbandonUnstartedAttempt(g)
             \/ MarkAttemptUncertain(g)
             \/ /\ IsLive(g)
                /\ \E v \in Transcripts(g) : CommitVerifiedAttemptTerminal(g, v)
             \/ IsBlocked(g) /\ \E u \in DOMAIN events :
                   /\ AttemptUncertainBy(u, g)
                   /\ \E v \in Transcripts(g) : ReconcileUncertainManualAttempt(g, u, v)
      PROVE Next /\ effects' = effects
  <2>1. AttemptStep(g)
    BY <1>2 DEF AttemptStep
  <2>2. effects' = effects
    BY <1>2 DEF MarkAttemptStarted, AbandonUnstartedAttempt, MarkAttemptUncertain,
       CommitVerifiedAttemptTerminal, ReconcileUncertainManualAttempt
  <2> QED
    BY <1>1, <2>1, <2>2 DEF Next
<1>3. ASSUME \/ CreateManualRun \/ ClaimInvocation(authority)
             \/ RequestManualRunCancellation
      PROVE Next /\ effects' = effects
  <2>1. Next
    BY <1>1, <1>3 DEF Next
  <2>2. effects' = effects
    BY <1>3 DEF CreateManualRun, ClaimInvocation, RequestManualRunCancellation,
       CancelBeforeClaim, CancelAttempt, RequestedAt
  <2> QED
    BY <2>1, <2>2
<1>4. Next /\ effects' = effects
  BY <1>2, <1>3 DEF Lifecycle
<1>5. /\ outcomes' = outcomes /\ business' = business /\ disposition' = disposition
      /\ late' = late /\ dispatched' = dispatched /\ begun' = begun /\ UNCHANGED locals
  BY DEF Lifecycle, destination, locals
<1>6. \A e \in Effects : EffectSound(e)' /\ Forward(e)
  BY <1>4, <1>5 DEF Delivered, EffectSound, Forward
<1>7. BothSides
  BY <1>4, <1>5, <1>6 DEF BothSides, Delivered, DeliveryTypeOK
<1> QED
  BY <1>5, <1>7, QuietStep
-----------------------------------------------------------------------------
(***************************************************************************)
(* The theorems.                                                           *)
(***************************************************************************)

LEMMA DeliveredInit ==
    ASSUME DeliveryInit PROVE Delivered
<1>1. Begun(None, 1) \in Call
  BY BegunTyped
<1>2. DeliveryTypeOK
  BY <1>1, CallsAreBounded
  DEF DeliveryInit, Destination!Init, DeliveryTypeOK, Steps
<1>3. ASSUME NEW e \in Effects PROVE EffectSound(e)
  BY DEF DeliveryInit, Destination!Init, Init, NoEffect, EffectSound, Outcomes
<1>4. ASSUME NEW c \in Callers PROVE CallSound(c) /\ pc[c] # "execute"
  <2>1. /\ pc[c] = "idle" /\ call[c].answer = "none" /\ call[c].result = "none"
        /\ \A f \in Effects : call[c].probes[f] = "none"
    BY DEF DeliveryInit, Begun
  <2> QED
    BY <2>1 DEF CallSound, HeldAnswersAreTrue, HeldResultIsTrue, Outcomes
<1> QED
  BY <1>2, <1>3, <1>4 DEF Delivered, ExecutorsApart

LEMMA DeliveryStep ==
    ASSUME TypeOK, Delivered, DeliveryNext
    PROVE Progress
<1>1. ASSUME NEW c \in Callers, UNCHANGED begun, Deliver(c) PROVE Progress
  BY <1>1, ReadingSteps, RequestStep, StartStep, ExecuteStep, CommitStep, MarkStep
  DEF Deliver
<1>2. ASSUME NEW c \in Callers, UNCHANGED begun, Recover(c) PROVE Progress
  BY <1>2, RecoveryReads, SettleStep DEF Recover
<1>3. ASSUME NEW c \in Callers, UNCHANGED begun, Reconcile(c) PROVE Progress
  BY <1>3, OperatorReads, CloseStep, AppendStep DEF Reconcile
<1> QED
  BY <1>1, <1>2, <1>3, LifecycleStep, ArriveStep, EndsAndBeginnings DEF DeliveryNext

LEMMA DeliveryStepOrStutter ==
    ASSUME TypeOK, Delivered, [DeliveryNext]_deliveryVars
    PROVE /\ [Next]_vars /\ Delivered'
<1>1. CASE DeliveryNext
  BY <1>1, DeliveryStep DEF Progress, BothSides
<1>2. CASE UNCHANGED deliveryVars
  <2>1. /\ UNCHANGED vars /\ effects' = effects /\ outcomes' = outcomes
        /\ business' = business /\ disposition' = disposition /\ late' = late
        /\ dispatched' = dispatched /\ begun' = begun /\ UNCHANGED locals
    BY <1>2 DEF deliveryVars, ledger, destination, locals, vars
  <2>2. BothSides
    BY <2>1 DEF BothSides, Delivered, DeliveryTypeOK, EffectSound, Forward
  <2> QED
    BY <2>1, <2>2, QuietStep DEF Progress
<1> QED
  BY <1>1, <1>2

(***************************************************************************)
(* A delivery keeps its ledger a ledger: whatever calls of hosts, recovery   *)
(* and operators do at whatever step they fail, the run is changed only as   *)
(* ExecutionLedger allows, and the invariant of ledger, destination and calls *)
(* holds.                                                                  *)
(***************************************************************************)
THEOREM DeliveryIsALedger == DeliverySpec => Spec /\ []Delivered
<1>1. DeliveryInit => Init /\ TypeOK /\ Delivered
  BY DeliveredInit, NothingIsTyped, EmptySeq DEF DeliveryInit, Init, TypeOK
<1>2. TypeOK /\ Delivered /\ [DeliveryNext]_deliveryVars =>
         [Next]_vars /\ TypeOK' /\ Delivered'
  BY DeliveryStepOrStutter, TypeStep
<1> QED
  BY <1>1, <1>2, PTL DEF DeliverySpec, Spec

(***************************************************************************)
(* LedgerTellsDestination: whatever a late put, a host presumed stopped, a   *)
(* recovery and an operator do at once, a retained outcome is the decision of *)
(* the destination, a NOT_APPLIED effect is closed there, and an unstarted or *)
(* CANCELLED one was never sent.                                            *)
(***************************************************************************)
THEOREM LedgerAndDestinationAgree == DeliverySpec => []LedgerTellsDestination
<1>1. Delivered => LedgerTellsDestination
  BY DEF Delivered, EffectSound, LedgerTellsDestination, Unasked
<1> QED
  BY <1>1, DeliveryIsALedger, PTL

(***************************************************************************)
(* AdapterRunsOnce: executeManagedEffect invokes the adapter at most once for *)
(* an effect, for only the caller whose own transaction started it does.     *)
(***************************************************************************)
THEOREM AdapterIsInvokedOnce == DeliverySpec => []AdapterRunsOnce
<1>1. Delivered => AdapterRunsOnce
  BY DEF Delivered, EffectSound, AdapterRunsOnce
<1> QED
  BY <1>1, DeliveryIsALedger, PTL

(***************************************************************************)
(* ReturnedResultIsDurable: what executeManagedEffect and the operator's     *)
(* reconciliation return is what the ledger retains, then and ever after.    *)
(***************************************************************************)
THEOREM ResultsAreDurable == DeliverySpec => []ReturnedResultIsDurable
<1>1. Delivered => ReturnedResultIsDurable
  BY DEF Delivered, CallSound, HeldResultIsTrue, ReturnedResultIsDurable, Concluded,
     Succeeded
<1> QED
  BY <1>1, DeliveryIsALedger, PTL

(***************************************************************************)
(* EndedRunIsQuiet: once a run has ended, neither a late put nor a call still *)
(* under way changes the business record or decides an effect.               *)
(***************************************************************************)
THEOREM DestinationIsQuiet == DeliverySpec => EndedRunIsQuiet
<1>1. ASSUME Delivered, EffectsAreAccountedFor, run.status \in FinalRun,
             [DeliveryNext]_deliveryVars
      PROVE UNCHANGED <<business, disposition>>
  <2>1. ASSUME NEW e \in Effects, effects[e].status \notin Unasked
        PROVE disposition[e] # "open"
    <3>1. effects[e].status \in {"COMPLETED", "NOT_APPLIED"}
      BY <1>1, <2>1 DEF EffectsAreAccountedFor, EndedRunIsSettled, Delivered,
         EffectSound, Resolved, Succeeded, Unasked
    <3> QED
      BY <1>1, <3>1 DEF Delivered, EffectSound, Outcomes
  <2>2. ASSUME NEW e \in Effects, effects[e].status \notin Unasked, Put(e) \/ Resolve(e)
        PROVE UNCHANGED <<business, disposition>>
    BY <1>1, <2>1, <2>2, Deciding DEF Delivered
  <2>3. CASE \E e \in Effects : ArriveLate(e)
    <3>1. PICK e \in Effects : e \in late /\ Put(e)
      BY <2>3 DEF ArriveLate
    <3> QED
      BY <1>1, <2>2, <3>1 DEF Delivered, EffectSound
  <2>4. CASE \E c \in Callers : Execute(c)
    <3>1. PICK c \in Callers : Execute(c)
      BY <2>4
    <3>2. call[c].effect \in Effects /\ effects[call[c].effect].status \notin Unasked
      BY <1>1, <3>1 DEF Execute, At, Delivered, CallSound, Status
    <3> QED
      BY <2>2, <3>1, <3>2 DEF Execute
  <2>5. CASE \E c \in Callers : CloseEffect(c)
    <3>1. PICK c \in Callers : CloseEffect(c)
      BY <2>5
    <3>2. call[c].effect \in Effects /\ effects[call[c].effect].status \notin Unasked
      BY <1>1, <3>1 DEF CloseEffect, At, Delivered, CallSound, Status, Concluded, Unasked
    <3> QED
      BY <2>2, <3>1, <3>2 DEF CloseEffect
  <2>6. CASE UNCHANGED destination \/ ReadsOnly \/ UNCHANGED deliveryVars
    BY <2>6 DEF destination, ReadsOnly, deliveryVars
  <2>7. ASSUME NEW c \in Callers, Deliver(c) \/ Recover(c) \/ Reconcile(c)
        PROVE UNCHANGED destination \/ ReadsOnly \/ Execute(c) \/ CloseEffect(c)
    BY <2>7 DEF Deliver, Recover, Reconcile, Lookup, Fold, Request, Confirm, Start,
       RecheckStart, CommitOutcome, ReadOutcome, Block, MarkUncertain, AfterMark,
       Survey, Probe, Recheck, Settle, Target, Finalize, AppendReconciliation
  <2>8. ASSUME NEW c \in Callers, Begin(c) \/ Fail(c) PROVE ReadsOnly
    BY <2>8 DEF Begin, Fail
  <2>9. Lifecycle => UNCHANGED destination
    BY DEF Lifecycle
  <2> QED
    BY <1>1, <2>3, <2>4, <2>5, <2>6, <2>7, <2>8, <2>9 DEF DeliveryNext
<1>2. []Delivered /\ []EffectsAreAccountedFor /\ [][DeliveryNext]_deliveryVars
         => EndedRunIsQuiet
  BY <1>1, PTL DEF EndedRunIsQuiet
<1> QED
  BY <1>2, DeliveryIsALedger, LifecycleCorrect, PTL DEF DeliverySpec
=============================================================================
