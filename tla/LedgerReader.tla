---------------------------- MODULE LedgerReader ----------------------------
(***************************************************************************)
(* Every read of the ledger folds the whole history again and refuses the   *)
(* run if one event is not a legal successor of the state before it, or if  *)
(* the stored projections are not the result of the fold (applyEvent and    *)
(* foldAndVerifyRun in src/core/lib/db/tables/execution-ledger.js).  The     *)
(* checks of the fold are written a second time there, independently of the *)
(* guards of the operations in ExecutionLedger: an event that a writer      *)
(* commits and the fold refuses would make the run unreadable for ever.     *)
(*                                                                         *)
(* folded is the fold of all events so far.  A fold goes from left to right *)
(* over a history that is only appended to, so it is kept up to date one    *)
(* event at a time.                                                        *)
(***************************************************************************)
EXTENDS ExecutionLedger

VARIABLE folded

\* Nothing read yet.
EmptyFold == [accepted   |-> TRUE,
              run        |-> NoRun,
              invocation |-> NoInvocation,
              attempts   |-> [g \in Generations |-> NoAttempt],
              effects    |-> [e \in Effects |-> NoEffect]]

EffectIds(ev) == {e \in Effects : ev.effects[e].status # "ABSENT"}

\* Statuses of run, invocation and attempt before and after an event.
Statuses(ev) == <<ev.run.status, ev.invocation.status, ev.attempt.status>>

StatusesIn(s, g) == <<s.run.status, s.invocation.status, s.attempts[g].status>>

Live == <<"RUNNING", "RUNNING", "STARTED">>
Stopped == <<"BLOCKED", "UNCERTAIN", "ABANDONED">>

\* assertAttemptAdvance: the identity and the fence of an attempt never change.
AttemptAdvances(s, ev) ==
    /\ ev.attempt.epoch = s.attempts[ev.generation].epoch
    /\ ev.epoch = ev.attempt.epoch

\* Only the decision event of a cancellation changes a request.
SameRequests(s, ev) ==
    /\ ev.run.request = s.run.request
    /\ ev.invocation.request = s.invocation.request
    /\ ev.attempt # NoAttempt =>
          ev.attempt.request = s.attempts[ev.generation].request

SameGeneration(s, ev) == ev.invocation.generation = s.invocation.generation

AcceptsCreation(s, ev) ==
    /\ ev.type = "manual-run-created"
    /\ s.run.status = "ABSENT"
    /\ ev.run.status = "RUNNING"
    /\ ev.invocation.status = "RUNNABLE"
    /\ ev.invocation.generation = 0
    /\ ev.epoch = 0 /\ ev.generation = 0 /\ ev.attempt = NoAttempt

AcceptsClaim(s, ev) ==
    LET g == ev.generation IN
    /\ ev.type = "attempt-claimed"
    /\ g # 0
    /\ SameRequests(s, ev)
    /\ s.run.status = "RUNNING"
    /\ s.invocation.status = "RUNNABLE"
    /\ s.attempts[g].status = "ABSENT"
    /\ g = s.invocation.generation + 1
    /\ Statuses(ev) = <<"RUNNING", "RUNNING", "CLAIMED">>
    /\ ev.invocation.generation = g
    /\ ev.epoch = ev.attempt.epoch
    /\ ~ev.attempt.started

AcceptsStart(s, ev) ==
    LET g == ev.generation IN
    /\ ev.type = "attempt-started"
    /\ g # 0
    /\ SameRequests(s, ev)
    /\ g = s.invocation.generation
    /\ StatusesIn(s, g) = <<"RUNNING", "RUNNING", "CLAIMED">>
    /\ Statuses(ev) = Live
    /\ ~s.attempts[g].started /\ ev.attempt.started
    /\ SameGeneration(s, ev)
    /\ AttemptAdvances(s, ev)

AcceptsAbandonment(s, ev) ==
    LET g == ev.generation IN
    /\ ev.type = "attempt-abandoned-before-start"
    /\ g # 0
    /\ SameRequests(s, ev)
    /\ g = s.invocation.generation
    /\ StatusesIn(s, g) = <<"RUNNING", "RUNNING", "CLAIMED">>
    /\ Statuses(ev) = <<"RUNNING", "RUNNABLE", "ABANDONED">>
    /\ ~s.attempts[g].started /\ ~ev.attempt.started
    /\ SameGeneration(s, ev)
    /\ AttemptAdvances(s, ev)

\* The evidence is verified again on every read, against the folded effects.
AcceptsTerminal(s, ev) ==
    LET g == ev.generation
        status == StatusFor(ev.evidence.terminal) IN
    /\ ev.type = "attempt-terminal"
    /\ g # 0
    /\ SameRequests(s, ev)
    /\ g = s.invocation.generation
    /\ EvidenceMatches(ev.evidence, s.effects, g)
    /\ TerminalIsSupported(ev.evidence, ev.run.request)
    /\ StatusesIn(s, g) = Live
    /\ Statuses(ev) = <<status, status, status>>
    /\ ev.attempt.started = s.attempts[g].started
    /\ SameGeneration(s, ev)
    /\ AttemptAdvances(s, ev)

\* Which status one event may give an effect that had a status before.
EffectAdvance(type) ==
    CASE type = "effect-started"   -> <<"PENDING", "STARTED">>
      [] type = "effect-completed" -> <<"STARTED", "COMPLETED">>
      [] type = "effect-failed"    -> <<"STARTED", "FAILED">>
      [] OTHER                     -> <<"STARTED", "UNCERTAIN">>

AcceptsEffectRequest(s, ev) ==
    LET g == ev.generation IN
    /\ ev.type = "effect-requested"
    /\ g # 0
    /\ SameRequests(s, ev)
    /\ Cardinality(UnresolvedEffects(s.effects, g)) < MaxUnresolved
    /\ g = s.invocation.generation
    /\ StatusesIn(s, g) = Live /\ Statuses(ev) = Live
    /\ \E e \in Effects :
          /\ EffectIds(ev) = {e}
          /\ s.effects[e].status = "ABSENT"
          /\ ev.effects[e] =
                [status |-> "PENDING", generation |-> g, started |-> FALSE]
    /\ ev.attempt.started = s.attempts[g].started
    /\ SameGeneration(s, ev)
    /\ AttemptAdvances(s, ev)

AcceptsEffectAdvance(s, ev) ==
    LET g == ev.generation IN
    /\ ev.type \in {"effect-started", "effect-completed", "effect-failed",
                    "effect-became-uncertain"}
    /\ g # 0
    /\ SameRequests(s, ev)
    /\ g = s.invocation.generation
    /\ StatusesIn(s, g) = Live
    /\ Statuses(ev) = IF ev.type = "effect-became-uncertain" THEN Stopped ELSE Live
    /\ \E e \in Effects :
          /\ EffectIds(ev) = {e}
          /\ s.effects[e].generation = g /\ ev.effects[e].generation = g
          /\ <<s.effects[e].status, ev.effects[e].status>> = EffectAdvance(ev.type)
          /\ ev.effects[e].started
          /\ ev.type = "effect-became-uncertain" => UnresolvedEffects(s.effects, g) = {e}
    /\ ev.attempt.started = s.attempts[g].started
    /\ SameGeneration(s, ev)
    /\ AttemptAdvances(s, ev)

\* The settlement of a stopped attempt covers its exact unresolved set.
AcceptsStopped(s, ev) ==
    LET g == ev.generation IN
    /\ ev.type = "attempt-became-uncertain"
    /\ g # 0
    /\ SameRequests(s, ev)
    /\ g = s.invocation.generation
    /\ StatusesIn(s, g) = Live /\ Statuses(ev) = Stopped
    /\ Cardinality(UnresolvedEffects(s.effects, g)) <= MaxUnresolved
    /\ EffectIds(ev) = UnresolvedEffects(s.effects, g)
    /\ \A e \in EffectIds(ev) :
          /\ ev.effects[e].generation = g
          /\ ev.effects[e].started = s.effects[e].started
          /\ ev.effects[e].status \in
                IF s.effects[e].status = "PENDING" THEN {"CANCELLED"}
                ELSE Succeeded \cup {"UNCERTAIN"}
          /\ s.effects[e].status = "STARTED" => ev.effects[e].started
    /\ ev.attempt.started = s.attempts[g].started
    /\ SameGeneration(s, ev)
    /\ AttemptAdvances(s, ev)

\* The event a reconciliation cites: it stopped the attempt, unchanged since.
CitesStop(s, ev, cited) ==
    LET g == ev.generation IN
    /\ ev.link # 0
    /\ cited.epoch = s.attempts[g].epoch /\ cited.generation = g
    /\ ev.epoch = s.attempts[g].epoch
    /\ Statuses(cited) = Stopped
    /\ cited.attempt = s.attempts[g]

AcceptsEffectReconciliation(s, ev, cited) ==
    LET g == ev.generation IN
    /\ ev.type = "uncertain-effect-reconciled"
    /\ g # 0
    /\ SameRequests(s, ev)
    /\ CitesStop(s, ev, cited)
    /\ cited.type \in {"effect-became-uncertain", "attempt-became-uncertain"}
    /\ StatusesIn(s, g) = Stopped
    /\ Statuses(ev) = <<"BLOCKED", "UNCERTAIN", "ABSENT">>
    /\ \E e \in Effects :
          /\ EffectIds(ev) = {e}
          /\ s.effects[e].status = "UNCERTAIN"
          /\ cited.effects[e] = s.effects[e]
          /\ ev.effects[e].status \in Succeeded \cup {"NOT_APPLIED"}
          /\ ev.effects[e].started = s.effects[e].started
    /\ SameGeneration(s, ev)

AcceptsAttemptReconciliation(s, ev, cited) ==
    LET g == ev.generation
        status == StatusFor(ev.evidence.terminal) IN
    /\ ev.type = "uncertain-attempt-reconciled"
    /\ g # 0
    /\ SameRequests(s, ev)
    /\ g = s.invocation.generation
    /\ CitesStop(s, ev, cited)
    /\ cited.type = "attempt-became-uncertain"
    /\ cited.run.request = s.run.request
    /\ cited.invocation.request = s.invocation.request
    /\ EvidenceMatches(ev.evidence, s.effects, g)
    /\ TerminalIsSupported(ev.evidence, s.run.request)
    /\ StatusesIn(s, g) = Stopped
    /\ Statuses(ev) = <<status, status, "ABSENT">>
    /\ SameGeneration(s, ev)

\* A cancellation that finds no attempt, an attempt given up, a claim that
\* has not begun, or begun code.
CancelsUnclaimed(s, ev) ==
    /\ s.invocation.generation = 0
    /\ ev.attempt = NoAttempt /\ ev.epoch = 0
    /\ s.run.status = "RUNNING" /\ s.invocation.status = "RUNNABLE"
    /\ ev.run.status = "CANCELLED" /\ ev.invocation.status = "CANCELLED"

CancelsAttempt(s, ev) ==
    LET g == ev.generation IN
    /\ g # 0
    /\ <<StatusesIn(s, g), Statuses(ev)>> \in
          {<<<<"RUNNING", "RUNNABLE", "ABANDONED">>,
             <<"CANCELLED", "CANCELLED", "ABANDONED">>>>,
           <<<<"RUNNING", "RUNNING", "CLAIMED">>,
             <<"CANCELLED", "CANCELLED", "CANCELLED">>>>,
           <<Live, Live>>}
    /\ s.attempts[g].request = 0
    /\ ev.attempt.request = ev.run.request
    /\ ev.attempt.started = s.attempts[g].started
    /\ AttemptAdvances(s, ev)

AcceptsCancellation(s, ev, sequence) ==
    /\ ev.type = "manual-cancellation-requested"
    /\ s.run.request = 0 /\ s.invocation.request = 0
    /\ ev.run.request = sequence /\ ev.invocation.request = sequence
    /\ ev.generation = s.invocation.generation
    /\ SameGeneration(s, ev)
    /\ CancelsUnclaimed(s, ev) \/ CancelsAttempt(s, ev)

Accepts(s, ev, sequence, cited) ==
    \/ AcceptsCreation(s, ev)
    \/ AcceptsClaim(s, ev)
    \/ AcceptsStart(s, ev)
    \/ AcceptsAbandonment(s, ev)
    \/ AcceptsTerminal(s, ev)
    \/ AcceptsEffectRequest(s, ev)
    \/ AcceptsEffectAdvance(s, ev)
    \/ AcceptsStopped(s, ev)
    \/ AcceptsEffectReconciliation(s, ev, cited)
    \/ AcceptsAttemptReconciliation(s, ev, cited)
    \/ AcceptsCancellation(s, ev, sequence)

\* applyEvent: the snapshots of an accepted event replace the folded state.
Folded(s, ev, sequence, cited) ==
    IF ~(s.accepted /\ Accepts(s, ev, sequence, cited))
    THEN [s EXCEPT !.accepted = FALSE]
    ELSE [accepted   |-> TRUE,
          run        |-> ev.run,
          invocation |-> ev.invocation,
          attempts   |-> [g \in Generations |->
              IF g = ev.generation /\ ev.attempt # NoAttempt THEN ev.attempt
              ELSE s.attempts[g]],
          effects    |-> [e \in Effects |->
              IF e \in EffectIds(ev) THEN ev.effects[e] ELSE s.effects[e]]]

ReaderInit == Init /\ folded = EmptyFold

\* A reader may cite only an event that precedes the one it folds.
Read ==
    IF events' = events THEN folded' = folded
    ELSE LET ev == events'[Len(events')] IN
         folded' = Folded(folded, ev, Len(events'),
                          IF ev.link \in DOMAIN events THEN events[ev.link] ELSE ev)

ReaderNext == Next /\ Read

ReaderSpec == ReaderInit /\ [][ReaderNext]_<<vars, folded>>
-----------------------------------------------------------------------------
(***************************************************************************)
(* Every reachable run can be read: the fold accepts each event the         *)
(* operations commit, and its result is exactly the stored projections.     *)
(***************************************************************************)
EveryRunIsReadable ==
    /\ folded.accepted
    /\ folded.run = run
    /\ folded.invocation = invocation
    /\ folded.attempts = attempts
    /\ folded.effects = effects
=============================================================================
