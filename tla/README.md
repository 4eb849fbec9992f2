# A TLA+ model of the Wharfie core

Wharfie runs application code on machines that may stop at any moment and keeps
the truth about that code in database tables: what was asked for, what began,
what is known to have happened and what is not known. This directory holds TLA+
modules for those tables and the protocols around them, TLC configurations that
check small instances of them, and TLAPS proofs that hold for every value of
the constants. Paths below are relative to the repository root; `tables/`
stands for `src/core/lib/db/tables/`.

## 1. The system

### 1.1 Components

`PROJECT.json` lists all components with their files. Those with logic of their
own are, from the bottom up:

| component | state it keeps | operations | correct when |
|---|---|---|---|
| Database adapters (`src/core/lib/db/adapters`) | tables of records | get, query, put, update, `transactionWrite` with conditions | a transaction is atomic and all its conditions hold when it commits; reads are consistent |
| Coordinator authority (`tables/coordinator-authority.js`) | one record naming owner and epoch, one receipt per request | acquire, heartbeat, renew, release, takeover | an epoch has one owner; a reported success is durable; a repeated request is answered from its receipt |
| Execution ledger (`tables/execution-ledger.js`) | per run: events, run head, projections, receipts, ready-work rows | some thirty transitions on manual runs, workflows, attempts, effects, timers, signals | code begins at most once unless it is known not to have begun; nothing decided is decided again; every committed event can be read back |
| Quiescence barrier (`tables/coordinator-quiescence-barrier.js`) | OPEN or CLOSED generation, receipts | close, adopt, reopen, admission fence | a resident reopens it over a history it knows in full; no run is admitted past a close |
| Workflow execution (`tables/execution-ledger.js`, `src/core/runtime/workflow-ledger-run.js`) | cursor over a linear plan, decisions on signals, ready-work row | claim, start, release, settle, fire, deliver, cancel, reconcile | no step runs twice; a wait is met once; the worker always finds the run |
| Schedule control (`tables/schedule-control.js`) | activation, cursor, materialized occurrences | activate, advance, pause, admission | each occurrence is materialized at most once and never under a replaced activation |
| Application state (`tables/application-state.js`) | business records, permanent receipts and resolutions, adopted authority, retirement | putIfAbsent, resolve, recover, adopt, retire, reactivate | an effect is decided once, for ever; a retired store does not change |
| Application-state readiness (`tables/application-state-readiness.js`) | readiness record of a store | prepare, mark adopted, advance | the recorded authority is never ahead of the adopted one |
| Service lifecycle (`tables/ledger-service-lifecycle.js`) | status of a service, owner of its session | start, drain, stop, claim and release of ownership | one owner; no session in a stopped service |
| Local activation (`tables/local-application-activation.js`) | phase of an installation or change | install, change, quiescent, selected, activating, complete | a crash in any phase is resumed by the next command |
| Managed effects (`src/core/runtime/managed-effect.js`) | none of its own | execute, recover after a stop | the ledger's word about an effect is what its destination did |
| Hosts and drivers (`src/core/runtime/*host*.js`, `*-run.js`, `activity-*.js`) | a child process and its transcript | run an attempt, relay effects, commit the terminal | calls the ledger in an order it accepts |
| Residents (`src/core/runtime/services`) | timers and loops | keep the authority, take it over, rebuild a predecessor's work, claim ready work, observe schedules | only the authority's holder works; work left by a predecessor is settled |
| Single-node deployment (`src/core/runtime/single-node-deployment-*.js`, `runtime/providers/hetzner`) | a journal of records on the operator's machine | apply, update, recover, destroy | nothing is created twice or forgotten; the server runs what the journal says; a destruction can be finished |
| Deployment control (`src/core/runtime/deployment-*.js`) | deployment head | prepare, apply, record, resume | a resumed deployment repeats no finished step |
| Snapshots, payload and input stores | immutable content-addressed objects | put, get, replicate | a name that was handed out can be read |

The command line, operator commands, cloud providers, systemd units and the
packaging of builds are wrappers and input/output around these.

### 1.2 How they interact

A *resident* acquires the coordinator authority and gets an epoch. Every table it
writes afterwards carries that epoch as a condition of the transaction: the
execution ledger compares the authority record itself, which is in the same
table; application state compares the authority it has *adopted*, because it may
be in another database. A takeover makes the next epoch current, after which a
delayed write of the old holder fails.

A *driver* moves a run through the ledger: it creates the run, claims its
invocation (a new *attempt*, numbered by its generation), marks the attempt
started just before it starts code, records every effect the code asks for
before and after the effect is dispatched, and commits the terminal the host
reports. When a host is gone, whoever notices settles the effects of the attempt
(PENDING cancelled, STARTED recovered from the destination or uncertain) and
marks the attempt uncertain. From there an operator supplies evidence.

A *resident* becomes the local owner of the ledger, closes and adopts the barrier,
reads the whole history twice, reopens the barrier, adopts the application state
and its readiness record, and then publishes READY. From then on it works on
ready workflow runs, observes schedules and serves commands of callers, until it
drains, dies or is taken over. A *release* is installed, updated or rolled back by a
command around that service: it waits until no run of the old release is left,
stops the service, selects the new one and proves it.

From the operator's machine, a *deployment* creates a server with a firewall and an
address at a provider, records each effect in its journal before and after it is
asked for, has the server install and prove a release, and takes everything down
again. The journal is the only memory of it.

An effect on *application state* has an identity of its own, so that a put can
be repeated, recovered (did it happen?) and resolved (make it never happen).

### 1.3 What is hard

* Any database call can fail with or without its effect, and a transaction whose
  sender gave up can still arrive. A caller therefore decides what happened from
  further reads, and those reads interleave with everybody else's writes.
* Two coordinators run at the same time whenever the old one does not know yet
  that it was replaced.
* A process can stop between any two steps. What it did is known only from what
  it wrote before and after.
* The ledger's reader folds the events again with checks written apart from the
  writers'; both must agree about every order of events.
* A paged DynamoDB query is not a snapshot.
* Several retry identities (transition, request, effect) must each be bound to
  one meaning for ever.

* A change of the installed release, the handoff of a store and the start of a
  service are several durable steps around things no transaction covers: a
  service manager, a second database, a socket. Each step may be the last one of
  its process.
* Several loops must get somewhere in the end: the observer of schedules, the
  resident that starts, the command that is repeated.

`PROJECT.json` lists the hazards line by line, with the properties that would
catch each; the one no run covers is covered by a theorem.

## 2. Modules

| module | models | main state |
|---|---|---|
| `AuthorityRegister` | abstract: an authority record that changes owner in one step | `holder`, `epoch`, `grant`, `active`, `version`, `settled` |
| `CoordinatorAuthority` | `tables/coordinator-authority.js`, one database operation per action | `authority`, `receipts`, `delayed`; per client `pc`, `call`, `base`, `result`; history `log` |
| `LedgerHistory` | abstract: a run's history, appended to under increasing epochs | `authority`, `history` |
| `LedgerAppend` | `appendOrReplay`, `appendTransition` and the reads around them, one database operation per action | `authority`, `history`, `receipts`, `delayed`; per caller `pc`, `call`, `paged`, `seen`, `outcome` |
| `ExecutionLedger` | every transition of a manual run, each one atomic step | `run`, `invocation`, `attempts`, `effects`, `events`, `authority` |
| `LedgerReader` | `applyEvent`, `foldAndVerifyRun` over the events of `ExecutionLedger` | the same, and `folded` |
| `QuiescenceBarrier` | `tables/coordinator-quiescence-barrier.js`, the reconstruction in `resident-execution-reconstruction.js` and the admission and creation race of `createManualRun`, one database operation per action | `authority`, `barrier`, `receipts`, `runs`, `delayed`; per process `pc`, `token`, `seen`, `step`, `unread`, `first`, `second`, `call`, `outcome`; history `refused`, `snapshot` |
| `LinearPlan` | abstract: the steps of a plan give their outputs in order, each starts once | `plan`, `outputs`, `started`, `status`, `stopping` |
| `WorkflowExecution` | the workflow operations of `tables/execution-ledger.js`, the worker of `resident-activity-worker.js` and the driver and port of `workflow-ledger-run.js` | `plan`, `wf`, `ready`, `decisions`, `holder`, `driver`, `call`, `late`; history `started`, `begun`, `ended`; `events` counts commands and faults |
| `LedgerCalls` | `LedgerAppend`, `QuiescenceBarrier` and `WorkflowExecution` over one ledger, for their common runs and proofs | theirs |
| `EffectDestination` | abstract: a table in which each effect is decided once | `business`, `disposition` |
| `ApplicationState` | put, resolve and recover of `tables/application-state.js`, one database operation per action | `business`, `receipts`, `resolutions`, the fence `authority`, `retired`; per caller `pc`, `call`, `stage`, `attempt`, `held`, `outcome` |
| `StoreFence` | abstract: authority and retirement of a store, changed in one step | `authority`, `retired` |
| `ApplicationStateAuthority` | adopt, retire and reactivate of `tables/application-state.js`, one database operation per action | `table`; per caller `pc`, `call`, `unread`, `seen`, `outcome`; history `sealed` |
| `ApplicationStore` | the two sides of the application-state store: `ApplicationState` and `ApplicationStateAuthority` | theirs |
| `EffectDelivery` | `managed-effect.js`, the reconciliation of an effect in `execution-ledger-operator.js` and the built-in adapter; extends `ExecutionLedger`, instantiates `EffectDestination` | theirs, and `late`, `outcomes`, `begun`; per caller `pc`, `call`; history `dispatched` |
| `LocalApplicationActivation` | every operation of `tables/local-application-activation.js`, each one atomic step | `record`; history `succeeded` |
| `SystemdActivation` | `local-application-systemd-activation.js`, `local-application-quiescence.js` and the two fences that read the record; extends `LocalApplicationActivation` | its record, and `wired`, `running`, `runs`, `fences`, `step`, `unread`, `blocked`, `crashes` |
| `ScheduleControl` | `tables/schedule-control.js`, `resident-schedule-observer.js` and the scheduled half of `createWorkflowRun` | `cursor`, `occurrences`, the fences `activation`, `owner`, `holder`, `barrier`; `observer`, `late`, `faults` |
| `ApplicationStateReadiness` | the two `application-state-readiness.js`, the startup in `resident-activity-worker.js` and the dispatch of `durable-activity-host.js` | `authority`, `readiness`, `history`, `ready`, `store`, `put`, `worker`, `spent` |
| `DeploymentJournal` | the operations and coherence checks of `single-node-deployment-journal.js`, each with its commit one step | `journal` |
| `HetznerDeployment` | apply and destroy of `src/core/runtime/providers/hetzner`, update and recover of `single-node-deployment-update.js`, over a provider; extends `DeploymentJournal` | `journal`, `host`, `command`; the provider's `made`, `existing`, `listed`, `asked`, `removing`, `removed`; `spent` |
| `HostReleases` | how a release comes to a host: `SystemdActivation` and `HetznerDeployment` | theirs |
| `LedgerService` | `ledger-service.js` over `tables/ledger-service-lifecycle.js` | `ownership`, `lifecycle`, `listening`, `proc`, `visits`, `errors` |
| `ResidentService` | what a resident does before it serves: `LedgerService` and `ApplicationStateReadiness` | theirs |

`*Proofs` modules hold the theorems. The `MC*` modules add what TLC needs: symmetry
sets, constraints, the plans, commands and due minutes of an instance. The four modules that
put protocols side by side (`LedgerCalls`, `ApplicationStore`, `HostReleases`,
`ResidentService`) give each its own variables, one set of constants and their assumptions; the
theorems are about the specification of each protocol in them. In their `MC` modules, and in
`MCManualRun`, a variable `subject`, fixed in the initial state, says which of
the protocols a behaviour is about, and the others rest. The state space is the
union of theirs, not the product, and nothing is claimed of their interleaving:
each takes from the others only an atomic step that a refinement justifies
(`HistorySpec`, `FenceSpec`), or shares no state with them.

How they fit together: `LedgerAppend` shows that one call of the ledger, with
its failures and races, is one atomic append on the state it read, or nothing.
`ExecutionLedger` and `WorkflowExecution` build on that and take each transition as
one step. `LedgerReader` reads what `ExecutionLedger` writes. `QuiescenceBarrier`
decides which runs come into being. `WorkflowExecution` implements `LinearPlan`.
`ApplicationState` moves its fence by the steps of `StoreFence`, and
`ApplicationStateAuthority` shows that the code of adopt, retire and reactivate
implements those steps, which `ApplicationStateReadiness` takes as one each.
`EffectDelivery` composes `ExecutionLedger` with `EffectDestination`: a host that
delivers, a recovery that settles and an operator who reconciles.
`SystemdActivation` composes the record of `LocalApplicationActivation` with a host,
with runs and with commands that die; `HetznerDeployment` composes the journal of
`DeploymentJournal` with a provider, a server and commands that die. The epochs all of them compare are the
ones `CoordinatorAuthority` grants.

### 2.1 From code to actions

*CoordinatorAuthority.* A call of `acquire`, `heartbeat`, `release`, `takeover`
or `renew` is a walk through `pc`: read the receipt of the request, read the
record, read the receipt again, decide, write record and receipt in one
conditional transaction, and on a failed or lost response read the receipt back.
`delayed` holds transactions whose client gave up; they arrive later or never.
`log` is history only: the accepted records in order.

*LedgerAppend.* The same granularity for a ledger call: read the run (in two
pages where `Paged`), look for the receipt of the transition, send the
transaction, and interpret a refusal with a read of the authority and of the run.
An event is its transition, the version it was computed on and the epoch of its
sender. Only what the append protocol compares is kept.

*ExecutionLedger.* One action per exported operation (`createManualRun`,
`claimInvocation`, `markAttemptStarted`, `recordManagedEffectRequest`,
`markManagedEffectStarted`, `commitManagedEffectOutcome`,
`markManagedEffectUncertain`, `settleStoppedAttemptManagedEffects`,
`commitVerifiedAttemptTerminal`, `markAttemptUncertain`,
`reconcileUncertainManagedEffect`, `reconcileUncertainManualAttempt`,
`abandonUnstartedAttempt`, `requestManualRunCancellation`). Its guard is the
operation's checks against the state it read, which `LedgerAppend` makes the
state it writes to; its effect is the event and the projections written with it.
The authority's epoch grows by an action of its own. An attempt is named by its
generation because its identity is a hash of run, invocation and generation; a
cancellation request by the sequence of its event. A terminal comes with the
*evidence* the operation is given: the effects and results the transcript names,
and whether a cancel frame was sent.

*LedgerReader.* `folded` is the fold over all events so far, advanced with each
event by the reader's own checks, which are translated from `applyEvent`, never
from `ExecutionLedger`.

*ApplicationState.* A put or a resolve reads receipt, resolution and record one
by one, tries its transaction at most `MaxAttempts` times and re-reads after every
error; a recover only reads. A read may fail, a write may fail with or without
its effect, and a caller may stop anywhere. One store, one namespace and one
business key: two effects on different keys never meet.

*ApplicationStateAuthority.* The reads and transactions of the three operations,
with the replay of a repeated request. The history variable `sealed` remembers
the epochs a retirement has closed.

*EffectDelivery.* A call of `executeManagedEffect`, `recoverStoppedManagedEffects` or
`reconcileUncertainManagedEffectAtOperatorBoundary` walks through `pc`, one ledger
or destination operation per step; all of them interleave, with each other and with
the rest of the run (`Lifecycle`). `version` is the head a call read, which the
ledger compares. With `Lossy`, every write may fail with or without its effect, a
put may arrive after its sender gave up (`late`), and a call may stop anywhere
(`Fail`, which needs no loss). A host that is presumed stopped goes on like any
other caller. `dispatched` is history: how often the adapter was invoked.

*QuiescenceBarrier.* A resident walks through `pc`: read the barrier, look for the
receipt of its request, read again, write row and receipt in one conditional
transaction, read back after a lost response, explain a refusal. `close` and
`adopt` lead to the reconstruction, which lists the runs and reads them one by one
into `first` and `second` while they still move (`Advance`); two equal passes lead to
`reopen`, else it begins again. A caller of `createManualRun` reads the run, then the
barrier, and creates on the condition that the barrier is still that row (if its
ledger is bound to an authority) and the run still absent; refused, it reads
whether the run of another caller is the one it asked for. `refused` and
`snapshot` are history.

*WorkflowExecution.* The run is a value, `wf`, and an operation of the ledger a function of
it (`Claimed`, `Started`, `Released`, `Terminated`, `Consumed`, `Cancelled`). A worker scans
the ready-work row, resolves it against the run, repairs a row that does not agree,
claims, starts (in one ledger call that may be lost and commit later: `late`),
executes, and settles the terminal, or fires a timer, all under the version it read
and the authority it believes to hold. It may crash anywhere (`Crash`), be taken over
(`TakeOver`, `Fenced`), start again (`Boot`) and find what it left behind. A caller delivers a signal or asks for cancellation:
it reads, and writes under what it read, in two steps. `Reconcile` is the operator
who settles an uncertain attempt. A workflow operator command opens the ledger as
a local owner does, so it is a holder that serves only calls.

*LocalApplicationActivation* and *SystemdActivation.* The first has one action per
operation of the table. In the second a command, of which there is one at a time
(the operation lock), walks through `step`: begin or converge on what it finds,
inspect the runs one by one before and after the service is stopped, quiesce,
select, activate, complete, restore or abort. `runs` are created in two
steps under the fence the creator read (`fences`) and end when they want; the service is stopped and
started by others too. `Die` drops the command, `Recover` begins it again from
the record alone. Of the host driver only the effect on the selected and the running
release is kept.

*ScheduleControl.* A resident reads the cursor, evaluates a window of at most
`MaxScan` minutes up to its clock, reads the occurrence, the barrier and the activation one by one, and writes cursor,
occurrence and run under the conditions of all four fences. `Activate`, `TakeOver` and
`MoveBarrier` change the fences under it; each stands for any operations on its record
and allows more than they do, which is sound because a fence asks only whether the record is as it was read. Time is an argument of `Observe` and may be
any of `Times`. A cron expression is a constant set of due minutes per definition.

*ApplicationStateReadiness.* A coordinator begins under its authority, reads the record,
takes the inventory of the history, checks the store before it opens it, prepares
the record, adopts, acknowledges, publishes READY and serves; a dispatch binds to the
record, starts its attempt, binds again, and puts. Record and store are in two databases, so
every one of these is a step and a process may end at each. `LoseVolume` removes
the store.

*LedgerService.* A session is a random identity whose endpoint answers while its
process lives. A process looks at the ownership row, probes the endpoint in it, listens on its own,
claims the row, moves the lifecycle row through STARTING, READY, STOPPING and STOPPED, deletes the
ownership and closes. A resident that ended is started again; a manual process
owns the ledger for one visit.

*DeploymentJournal* and *HetznerDeployment.* An operation of the journal makes the next record
from the last, checks it (`Coherent`) and appends it (`Write`), or throws. The evidence of an
activation follows from the deployment, the release and the pinned host, so one that differs, which the code refuses,
cannot arise and has no step. A command walks
through `step`, one effect on the provider, the server or the journal per step, and
may end at each (`Fail`). `Inventory` is the two lists and the read by identity of one role; it
leads to a create behind a recorded fence, to the record of what is found, or to the end of the
command. A create is answered, refused, or unanswered: then it is `asked`, and may land later or never; the
same holds of a removal (`removing`). `listed` is what the lists of the provider show, and lags behind
`existing`. `made` counts the resources ever created of a role. A destruction first looks for every create that is only
fenced, then removes server, address and firewall in this order, fencing each removal
and recording each absence. `Activate` stands for the activation over SSH, of which only the release that the server
runs afterwards is kept; the release may be running although the command learns of a failure, which is `Fail` after it.

## 3. Runs

| run | question | states |
|---|---|---|
| `authority` | two clients, two coordinators, three requests, one late transaction: do grants, answers and refusals agree with the table, and does it all look like one register? | 230,869 |
| `ledger` | all orders of the transitions of a manual run with two effects, two attempts and two epochs, and the reader that folds them; and, in the same bounds, two calls at a time, three in all, that deliver, recover or reconcile two effects, with losses and late puts: does code begin once, is every effect accounted for, is every run readable, are decisions final, do ledger and destination ever contradict each other? | 248,389 |
| `ledger_calls` | appends with paged reads, lost responses, late transactions and a takeover; residents that close, adopt and reopen admission while callers create a run; workers and callers on a workflow run with a timer and a signal | 352,491 |
| `append_torn` | does a projection error mean that the records disagree, with paged reads? Violated, see 3.2 | |
| `application_store` | two effects on one key with the fence moving underneath; callers that adopt, retire and reactivate the store | 547,518 |
| `effect_delivery_cancelled` | without any loss: is an effect uncertain only if its outcome is unknown? Violated, see 3.2 | |
| `releases` | on a host, commands that install, update, roll back, restore and abort two releases and die between steps, with a run and a service that others stop: is the record always readable, no run stranded, the service the selected one, and does a change settle? At a provider, commands that deploy, update, recover and destroy one server and die: is nothing created twice or lost sight of, does the server run what the journal says, and does a destruction settle? | 96,880 |
| `activation_install_retry` | does an install that is retried settle? Violated, see 3.2 | |
| `deployment_reserve` | can a destruction always be recorded? Violated, see 3.2 | |
| `schedules` | two observers, two definitions, moving fences, jumping clocks, late transactions: is each due minute decided once, and does the schedule catch up with the clock? | 274,050 |
| `resident_service` | two residents and a foreground or manual process: one owner, one writer, a record that is never ahead of its store; and does a resident serve in the end? | 89,221 |
| `workflow_wait_cancel` | does a cancellation command cancel a run that waits? Violated, see 3.2 | |

What the properties say, one by one, is at their definitions. Each was also run
against a changed model, in which one definition has a plausible bug, and is
violated there; `PROJECT.json` lists these changes ("mutants"), and their
definitions stand before the ones they change.

### 3.1 Bounds

Every bound is a constant named in its module. The interesting cases need two of
each thing: two calls in a race, two effects of which one meets the other's
record, two epochs of which one is stale, two generations of which one is
abandoned, and three requests so that a third party can move a record twice. The third
party rarely needs to race as well, so a constraint (`Crowd`) bounds how many calls are under way
together, less so as a bound is reached.

* `authority`: `MaxSafe = 3` stands for `Number.MAX_SAFE_INTEGER` and is reached, so that
  the refusal of the last epoch is exercised. `MaxDelayed = 1` lets one transaction
  arrive late. The constraint `Crowd` keeps two calls under way, where a transaction whose caller
  gave up counts as one: two calls race each other, or one races a late write. After two
  requests took effect the third one is under way alone, or races a call that has read already.
* `ledger_calls`: appends have two versions, two epochs and one late transaction; at the last
  version one call at a time starts. For
  admission `MaxSafe = 3` is the last version of the barrier (close, reopen, close),
  `MaxMoves = 2` lets a run move between the two passes; two residents or creators are under way
  at a time, and one when no version is left. For workflows the plans are `<<activity, s1>>` and
  `<<s1, timer, activity>>`, so that a wait follows and precedes code, and
  `MaxEvents = 3` counts commands, crashes, takeovers, lost responses and stops
  together: any three of them, at any points, with two processes or calls on their way.
  Three suffice for a crash, the takeover
  after it and a command in between. The two callers send two signals under one
  identity, one signal under two, and cancellations.
* `application_store`: `MaxAttempts = 2` lets a put fail, read, retry and give up. Two calls are
  under way in the first epoch and one in the last, one of them in its second try; none carries an epoch
  that the store has yet to see. The operands of a call that ended are never read again, and `View` leaves
  them out.
* `ledger` has `MaxUnresolved = 2`, which two effects cannot exceed; in the code the limit is
  `EXECUTION_LEDGER_MAX_UNRESOLVED_MANAGED_EFFECTS`. That it suffices is a theorem.
* Deliveries in `ledger`: two calls in progress and three in all, so that a delivery races a
  recovery and an operator follows, or two deliveries race and a recovery follows; the last call is
  about the effect of the other one and nobody cancels any more. The life
  of the run beside them has no calls and all transitions; of its effects it is then known only what the
  ledger says, so that `LedgerTellsDestination` is a question about the deliveries.
* Activation in `releases`: one run, and commands begin up to record version 10, which is an install, an
  update and a rollback or an abort with their steps; two of them die. `MaxSafe = 24` is
  never reached there; the theorems cover it.
* Deployments in `releases`: `MaxFaults = 1`: one command dies or meets an error, or one create is
  refused, or one resource is removed by others; a late or lost answer is not counted
  against these, because a command whose request is unanswered may just go on.
  28 records with a reserve of 8
  are more than these can use, so that the limit is `deployment_reserve`'s question alone, where a
  create is refused up to 12 times and nothing else goes wrong; in the code it is 4096 and 32.
* `schedules`: clocks 1, 4 and 6 with two ticks to the minute are minutes 0, 2
  and 3, so that a clock jumps over a minute, within one, and back. `MaxScan = 2` makes a window
  end before the clock. `MaxFaults = 2` counts changes of a fence, crashes and lost responses.
  One definition is due every minute, the other at the last. Both residents are bound to the
  authority; the theorems hold for every set `Bound` of those that are.
* `resident_service`: one visit of a host or manual process, one takeover of a live
  coordinator, one error and one lost volume, any two of them in one behaviour (`MaxFaults`), and two
  processes at the ledger at a time (`Pair`). Six epochs and ten
  sessions are more than these allow while the volume is there; after its loss a
  resident is restarted until the epochs are used up.

None of these restrictions is in a specification that a theorem is about: the runs explore the
corners and the theorems leave none.

The theorems of section 4 hold for all values. Deadlock is checked in `authority`
and `application_store`, where there is always a next call. The others stop when
a run has ended and nobody has calls, faults or commands left, which is where the code
stops too, so their configurations say `CHECK_DEADLOCK FALSE`.

### 3.2 Findings

`append_torn`: the comment on `foldAndVerifyRun` and the error it raises say that
a projection error means the projections disagree with the events. With the
DynamoDB adapter a run is read page by page; an append between two pages gives
the reader the old events with the new head and it reports a disagreement that
is not there. LMDB and the vanilla store read a snapshot, and the theorem
`SnapshotReadsAgree` shows that there the claim holds.

`effect_delivery_cancelled`: the comment on `markManagedEffectUncertain` reserves
uncertainty for an outcome that no verifier can establish. `executeManagedEffect`
commits the outcome with the version of the run it started, twice, and does not read
the run in between. A cancellation requested while the adapter acts moves the run, so
both tries conflict; the call then reads the new head, marks the effect uncertain
and blocks the run, while it holds the verified receipt. A sibling effect requested or
started meanwhile does the same. It fails safe: `LedgerTellsDestination` holds, and an
operator can reconcile the effect from its receipt.

`activation_install_retry`: ADR 0020 says that a failed install can be retried and
reconciled. `replaceInstall` keeps the selected release and the generation of the install it
replaces. When release A is selected but unhealthy, an install of B replaces it before B
is selected, and A is installed again, then A is still the selected release, its selection
is skipped, and the generation stays what it was; `completeActivation` asks for the next one and
refuses, however healthy the service is and however often the command is repeated.

`deployment_reserve`: the operational guide says that the journal reserves records for recovery and
destruction, so that an interrupted destruction can still finish. The reserve is checked where an update is
prepared, and nowhere else. An apply that meets a refused create records the fence and then its rejection, and
may be repeated; some two thousand refusals use up the reserve as well, and then no destruction of
what does exist fits. With at most one refusal it does.

`workflow_wait_cancel`: ADR 0019 says that timer waits and signal waits cancel without
authored dispatch. The port that persists a cancellation passes the current
invocation, which a waiting run has not, and never the identity of a timer or a wait, so the
branch of `requestWorkflowRunCancellation` that cancels a wait is never taken and the
call fails with a type error.

### 3.3 Fairness

Most calls end after a bounded number of steps, with an error if need be, and what
happens next is up to their caller; nothing is assumed of them. Liveness is claimed
of the loops, under these assumptions:

* `SystemdActivation` (`ChangesSettle`): a command that runs goes on (weak fairness of
  `Drive`), one that died is repeated (weak fairness of `Recover`: the documentation tells
  the operator to repeat it), and a service that is given the chance again and again
  is healthy once (strong fairness of `Healthy` and `RetainHealthy`), for without it no
  change can end.
* `ScheduleControl` (`ScheduleCatchesUp`): a resident that runs goes on, polls again
  at a later time (its timer) and is started again by its service manager.
* `ApplicationStateReadiness` (`ServiceBecomesReady`): the service manager starts a
  resident again and it goes on; a foreground host that began goes on; the operator
  relieves a coordinator that is gone (ADR 0033 leaves that to the operator) and lets
  go of the authority afterwards. A lost volume is the one thing that keeps a
  resident from serving, and the property says so.
* `LedgerService` (`AResidentServes`): a process goes on, and a resident that ended is
  started again, by `Restart=on-failure` of its unit or by the operator.

* `HetznerDeployment` (`DestroySettles`): the operator runs `destroy` until it is through, and
  it goes on (weak fairness of `BeginDestroy` and `Destroy`); a removal that is sent again and again is answered once (strong
  fairness of `RemoveAnswered`); requests take effect or never do, and the lists of the provider
  catch up. A create that was sent and lost is excepted: no inventory can tell it from
  one that is late, and `destroy` refuses to go on, which is what the code means to do.

Of a workflow run no liveness is claimed: a wait may never be met.

## 4. Proofs

Eight modules are checked by TLAPS to the last leaf: `CoordinatorAuthorityProofs`,
`ExecutionLedgerProofs`, `LedgerCallsProofs`, `ApplicationStateProofs`,
`LocalApplicationActivationProofs`, `HetznerDeploymentProofs`, `ScheduleControlProofs` and
`ResidentServiceProofs`. Every safety invariant and every action property of the passing runs
is a theorem there, and so is every refinement; only liveness stays with TLC.

Nothing is assumed but what the modules name (`ASSUME`): bounds are natural numbers, positive where the
code requires it; sets of effects are finite; "none" and "nobody" are not one of the
things they stand beside; residents, admitters and manual processes are different processes; plans
have steps; due minutes lie within the minutes of the clock. TLC evaluates each of them.

*CoordinatorAuthority.* `TypeCorrect` needs `PreparedInv`: a client about to write
holds a record it read and the successor it computed from that record.
`HistoryCorrect` (one owner per epoch, no lost update) follows from the fact that
the table only changes by `Commit`, whose condition is the whole record the
client read: `log` is then a chain in which epochs never decrease and grow at
every change of owner. `ReceiptsCorrect` is about the same `Commit`.
`AnswersCorrect` takes `AnswerInv`: every receipt names the record its own followed, and every
answer is what a receipt says, or for a renewal the log; as both only grow, an answer stays true. A refusal is true in
the very step that gives it, so `RefusalsCorrect` needs little of the history: that only a grant looks for
its receipt when the record moved on (`RacedInv`). `ImplementsRegister` maps `Commit` to a register operation and all other steps to
stutters.

*ExecutionLedger.* The inductive invariant is `TypeOK /\ Coherent`. `AggregateAgrees`
and `EffectsAreAccountedFor` are not inductive alone: that a terminal leaves no effect behind needs
`OnlyBegunAttemptsOwnEffects` and that unresolved effects belong to the current
attempt, which needs that code begins once. The lemmas take the three shapes of
a transition (of an attempt, of an effect, of a cancellation) one after the
other. `EpochsCorrect` needs that events before the first claim carry epoch 0 and
that the latest attempt has the latest epoch. `CancellationCorrect` uses that a
request names an event that stays. `DecisionsFinal` includes that a blocked run stays
blocked until evidence about its attempt releases it; a run that ends is compared
with what `EffectsAreAccountedFor` says of the next state. `SettlementAlwaysFits` rests on cardinality:
only a request adds an unresolved effect, and it checks the limit.

*LedgerReader.* `EveryRunStaysReadable` compares two texts: for each operation, the event it commits passes
the reader's own check for events of that type, and the snapshots in it are all that the operation
changed. The guards of the operation do not say enough for that. What the reader asks beyond them
follows from `Coherent`, which ties run, invocation and attempt together, and from `RequestsAreBinding`: once a cancellation
is requested nothing more can be claimed or begun. The fold is a variable that each event
advances, so the proof goes over steps and needs no induction over histories.

*EffectDelivery.* `DeliveryIsALedger` shows that a delivery makes only transitions of `ExecutionLedger`, so that all
its theorems hold here too. The rest is about `Delivered`: what the ledger, the destination and the retained outcome
say of one effect (`EffectSound`), what a call may rely on at each of its steps (`CallSound`), and that
no two calls are about to invoke the adapter for one effect (`ExecutorsApart`). Effects move only
forward and a decision of the destination is final, so what a call that is asleep knew stays true.

*LedgerAppend.* The invariant relates each call to the table: the version it holds
is a prefix of the history, and a receipt names an event that has its transition
and base. The condition on the head makes an applied event the successor of what
the caller read. `ConflictMeansNoEffect` depends on the request digest covering the
expected version: a retry has the head condition of its first try, so after a
refusal without a receipt none of its copies can ever commit.

*QuiescenceBarrier.* All rows only grow, and a transaction whose condition once failed can never
commit (`Doomed`). For a resident that reads the history twice, `HistoryAgrees` takes the moment between its two passes:
what the first pass read is in the past of that moment, and the moment is in the past of what the second pass read. Since a run
never returns to a version it had, two equal passes are the history at that moment
(`SnapshotRead`). While the closed generation is current no run appears, because a creation needs the
generation it read, and so none is missing from the second pass (`HistoryComplete`). `AnswersHold` uses that a
refused transition is `Doomed` and that a run, once created, keeps its content (`CreationAgrees`).

*WorkflowExecution.* The invariant joins the cursor with the outputs before it, the start of each step with the worker that has it,
waits with accepted deliveries and each command with the answer it may still get (`CursorAgrees`, `OutputsAgree`, `StartsAgree`,
`WaitsAgree`, `CommandAgrees`). What a driver knows of the cursor holds only while the version it read is the present one (`fresh` in
`DriverAgrees`); but one that executes has the only start of its step, whatever became of the run meanwhile
(`OneExecutes`), and from that `StepsRunOnce` follows. `PlanImplemented` maps the settlement of a step to a step of `LinearPlan`.

*ApplicationState.* The invariant `Store` has a part on rows (`RowsAgree`: no effect has
both a receipt and a resolution, and a business record has the receipt of its creator)
and one per caller (`CallAgrees`): the rows it holds are rows of the store now, for
receipts and resolutions are permanent and a business record is never deleted; a
put whose insert failed because the key is taken finds who took it; and an answer
agrees with the disposition. Every step makes rows grow only, so a caller that
rests is not disturbed (`OthersRest`). `DestinationImplemented` maps decided effects
to `EffectDestination`.

*ApplicationStateAuthority.* `TransferInv`: an epoch that gave the store up is that of the retirement in force or
behind the authority (`TableAgrees`), what a call read is in the past of the table (`SeenAgrees`), what it is
about to send follows from what it read (`Sends`), and what it was told still binds (`AnswerHolds`). Authority
and retirement only move forward, by `Moves`, which is also what maps a step to `StoreFence`
(`FenceImplemented`).

*LocalApplicationActivation.* That a record can be read again (`RecordStaysReadable`) is not inductive:
a generation must be bounded by the version (`GenerationIsCounted`), the source of a change
must differ from its target (`ChangeChanges`), a settled transition must be older than any
that begins (`LastIsOlder`, so that no identity is used twice), and an install must not have counted its
selection before it reaches it (`InstallIsCountedOnce`). `KeptReleasesAreProven` comes with it.

*SystemdActivation.* `CommandsDriveTheRecord` carries these over to a host with commands that die.
`HostInv` adds which runs may be unfinished in each phase of the record (`WorkInv`), what the service
manager has wired and runs (`ServiceInv`), and what a command may rely on at each of its steps
(`CommandInv`). For `WorkIsDrained`: a run comes into being only while the record is the one its creator read, and
that one admitted it; so when the command closed the record and then counted the runs, no run of the old release is left and none follows.

*HetznerDeployment.* `IInv` is `Typed`, `Accounting` and `Running`. That nothing is
created twice (`AccountingCorrect`) needs `Accounted`, which relates the state of a role in the journal to what was made, asked for and
listed of it (a role without a fence was never asked for, what the lists show was made), and
`Positioned`: a command about to create holds a fence, and nothing was made or asked for behind it. `ProviderCorrect` adds the order of
the roles (`Ordered`: a role is created only where those below it are held, and those below the server are held as long as it may
exist), from which an existing server has its firewall and its address. That the server runs a known release
(`HostCorrect`) needs `Running`: the release that is being activated is current or the target of the
journal until the record of it, and an open update has another target than the current release. One
lemma per action says what it does to each part; the operations of the
journal come first, in lemmas that say which fields they keep.

*ScheduleControl.* `EveryDueMinuteIsAccountedOnce` is about the store alone, and only transactions change the store, each
under the condition that the cursor is still the one it was computed from. So it is enough to know what
a request says of its own two cursors when it is computed (`Accords`): an admission holds the latest due minute of the
window between them and skips the others, an advance has an empty window, an activation starts where it
ends. That fact is about the request and the constants, hence it stays true while the request passes the
fences, fails, is repeated and is late; `CommitKeepsStore` is the one lemma about the store. That a cursor never goes back,
however clocks jump, needs `GoodCursor`: a cursor covers no more than the time at which it was written,
and an activation takes the later of its clock and that time (`EffectiveTimeIsLate`).

*ApplicationStateReadiness.* No transaction covers the ledger's readiness record and the store. `HandoffInv` says that
stores are numbered, a new one after each loss, and none is fenced ahead of the authority (`StoreInv`), that the effects of the
retained runs name no other store than the record does (`RecordInv`), what a worker holds at each step whether or not it is still the coordinator
(`Claim`), and what it knows of the record while it is (`Known`). `RecordIsCovered` then follows: who writes ADOPTED
has raised the barrier of the store it names, and a barrier never falls.

*LedgerService.* `SessionInv`: a session is one process's own (`Identified`), a process that claims
listens and the session it replaces does not (`Probed`), an owner listens and the ownership row is the one it wrote (`Owner`), and
one that serves or has stopped knows the lifecycle row exactly (`Serving`). `OwnersCorrect` and `LifecycleHasOneWriter` follow.

Some facts are stated only as theorems, because they say more than any instance would: `TypeOK` of the
modules, `NoLostUpdate`, `OneOwnerPerEpoch`, `ReceiptsAreImmutable`, `EpochsNeverGoBack`, `AggregateAgrees`,
`CancellationHasAuthority`,
`SettlementFits`, `ReturnedResultIsDurable`, and `ProjectionErrorMeansDisagreement` for snapshot reads.

What only TLC checks is liveness: `ChangesSettle`, `DestroySettles`, `ScheduleCatchesUp`, `ServiceBecomesReady` and
`AResidentServes`. Fairness and `ENABLED` are out of the prover's reach.

## 5. Observations

* The condition that no receipt exists, and the second read of the receipt in
  `acquire`, are not needed for safety: the exact record is compared as well.
* `heartbeat` and `release` do not read the receipt again before they report a stale
  authority, as `acquire` and `takeover` do. A duplicate in flight can therefore be
  told `stale` although its twin committed. Nothing documented says otherwise.
* A run blocked by an uncertain *effect* cannot be ended by
  `reconcileUncertainManualAttempt`, which looks for an uncertain *attempt*. This
  agrees with ADR 0014 and ADR 0017.
* The writers never compare the generation of an attempt with that of its
  invocation; the reader does. `AggregateAgrees` and `EveryRunIsReadable` show that they
  cannot differ.
* In application state an error or a `stale` or `retired` answer does not mean that
  the effect was not applied, and a `recover` that finds nothing claims nothing.
* The lifecycle row of a service is never compared with its ownership in one transaction.
  That only the owner moves it follows from the order of claim, endpoint and release alone.
* Two equal passes over a moving history are a snapshot only because a run never returns to a
  version it had.
* A creation whose ledger is bound to no authority is held up by the barrier as well: it must find
  the generation it read.

## 6. Not modelled, and why

* The driver of a manual run (`manual-ledger-run.js`), which follows the pattern of the
  workflow driver with one step; worker threads and the framing of their messages.
* Managed effects of workflow activities, the evaluation of input and output bindings,
  successors of effects, replacement attempts. The second classification a cancellation makes after a conflict.
* Ledgers not bound to a coordinator, except at the barrier.
* The loop in which a resident supervises its authority by heartbeats; a coordinator that is gone is relieved
  by the operator.
* The digests, encodings and size limits of records, except where a comparison
  depends on them. Identities are opaque, and an identity drawn at random is new. The parsing of cron expressions.
* In `EffectDelivery`, the expected attempt and effect set an operator may name for a recovery,
  which only refuse more; and destinations other than the built-in application state.
* Snapshots and their distribution, payload stores, the deployment head and its controller: see the plan.
* Of a single-node deployment: AWS, whose roles, batches of mutations and evidence differ; the rollback slot of the journal,
  which decides nothing in the modelled commands; the directory and files of the journal; previews and status, which only read.
  The commands hold the operation lock, a local port, so two of them are never in one model.
* Adapters' encodings; the modules rely on what the adapters promise.
* Unit files, release directories, the clients of the providers, builds and packaging, the command line: input and output.
* Operator commands, other than the reconciliation at a destination: they call the modelled operations.

## 7. Plan

Done: the authority; the manual run with its append protocol and reader; the barrier with admission and
reconstruction; workflows with waits, signals and ready work; application state with its fence, readiness and
delivery of effects; schedules; activation of releases; ownership and lifecycle of the service; single-node
deployments on Hetzner.

Next to model:

1. The control record of application-state snapshots.
2. The deployment head and its controller; single-node deployments on AWS.
3. The write order of the replicated payload store.
4. Managed effects inside a workflow activity: `EffectDelivery` over the cursor.

Next to prove: the safety of those modules. Of the present ones, only liveness is without a proof.
