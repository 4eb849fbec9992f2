---------------------- MODULE ApplicationStateReadiness ----------------------
(***************************************************************************)
(* How a coordinator takes over the application state of one application     *)
(* before it serves, and how dispatch binds to what was taken over           *)
(* (src/core/runtime/application-state-readiness.js, the readiness record in *)
(* src/core/lib/db/tables/application-state-readiness.js, and its callers    *)
(* resident-activity-worker.js and durable-activity-host.js).                *)
(*                                                                         *)
(* Authority, readiness record and run history are in the control database,  *)
(* identity and barrier in another one: no transaction covers both.          *)
(* Adoption of the barrier is one step here (ApplicationStateAuthority shows *)
(* that it is one to everybody else).  A check that only reads the authority *)
(* is no guard: what it saw may be gone when the next operation runs.        *)
(***************************************************************************)
EXTENDS Naturals, FiniteSets

CONSTANTS
    Residents,     \* processes that run the resident service
    Hosts,         \* processes that run an activity in the foreground
    MaxEpoch,      \* bound: coordinator authority epochs
    MaxVisits,     \* bound: foreground activities
    MaxTakeovers,  \* bound: takeovers by the operator of a live coordinator
    MaxErrors,     \* bound: crashes, interrupts and unanswered transactions
    MaxLosses      \* bound: losses of the application-state volume

Coordinators == Residents \cup Hosts

ASSUME ProcessesAreSorted == Residents \cap Hosts = {}
ASSUME BoundsAreNatural == {MaxEpoch, MaxVisits, MaxTakeovers, MaxErrors, MaxLosses} \subseteq Nat

VARIABLES
    authority,  \* control: epoch and holder of the coordinator authority
    readiness,  \* control: the readiness record
    history,    \* control: the stores that effects of retained runs name
    ready,      \* control: epoch of the last published READY
    store,      \* destination: identity, authority barrier, identities made
    put,        \* destination: epoch and store of the last value written
    worker,     \* what each coordinator process knows
    spent       \* visits, takeovers, errors and losses so far

control == <<authority, readiness, history, ready>>
destination == <<store, put>>
vars == <<control, destination, worker, spent>>
-----------------------------------------------------------------------------
Epochs == 0..MaxEpoch

NoStore == 0

Stores == 0..(MaxLosses + 1)

NoRecord == [status |-> "NONE", store |-> NoStore, epoch |-> 0]

Record == [status : {"PREPARING", "ADOPTED"}, store : Stores, epoch : Epochs]
            \cup {NoRecord}

Steps == {"off", "begin", "inventory", "preflight", "open", "prepare", "adopt",
          "acknowledge", "write", "confirm", "publish", "serve", "bind",
          "start", "rebind", "request", "put", "leave"}

Off == [pc |-> "off", job |-> "handoff", epoch |-> 0, record |-> NoRecord,
        store |-> NoStore, next |-> NoRecord]

Worker == [pc : Steps, job : {"handoff", "dispatch"}, epoch : Epochs,
           record : Record, store : Stores, next : Record]

Nobody == "nobody"
Operator == "operator"

ASSUME ProcessesAreNamed == {Nobody, Operator} \cap Coordinators = {}

Init ==
    /\ authority = [epoch |-> 0, holder |-> Nobody]
    /\ readiness = NoRecord
    /\ history = {}
    /\ ready = 0
    /\ store = [identity |-> NoStore, barrier |-> 0, made |-> 0]
    /\ put = [epoch |-> 0, store |-> NoStore]
    /\ worker = [c \in Coordinators |-> Off]
    /\ spent = [visits |-> 0, takeovers |-> 0, errors |-> 0, losses |-> 0]

At(c, pc) == worker[c].pc = pc

Become(c, w) == worker' = [worker EXCEPT ![c] = w]

Step(c, pc) == [worker[c] EXCEPT !.pc = pc]

\* An error, or the signal of the service: the authority is released next.
Leave(c) == Become(c, Step(c, "leave")) /\ UNCHANGED <<control, destination, spent>>

Current(c) == authority = [epoch |-> worker[c].epoch, holder |-> c]

\* An error in the attempt: a resident that can still record it goes on.
Fails(c) ==
    /\ \/ Become(c, Step(c, "leave"))
       \/ worker[c].job = "dispatch" /\ c \in Residents /\ Current(c)
             /\ Become(c, Step(c, "serve"))
    /\ UNCHANGED <<control, destination, spent>>

Goto(c, w) == Become(c, w) /\ UNCHANGED <<control, destination, spent>>

Adopted(record) == record.status = "ADOPTED"
-----------------------------------------------------------------------------
(***************************************************************************)
(* The authority: withExecutionLedgerCoordinatorAuthority, and the operator's *)
(* takeover-and-release.                                                   *)
(***************************************************************************)
Acquire(c) ==
    /\ At(c, "off")
    /\ authority.holder = Nobody
    /\ authority.epoch < MaxEpoch
    /\ IF c \in Residents THEN UNCHANGED spent
       ELSE /\ spent.visits < MaxVisits
            /\ spent' = [spent EXCEPT !.visits = @ + 1]
    /\ authority' = [epoch |-> authority.epoch + 1, holder |-> c]
    /\ Become(c, [Off EXCEPT !.pc = "begin", !.epoch = authority'.epoch,
                             !.job = IF c \in Residents THEN "handoff" ELSE "dispatch"])
    /\ UNCHANGED <<readiness, history, ready, destination>>

Release(c) ==
    /\ At(c, "leave")
    /\ authority' = IF Current(c) THEN [authority EXCEPT !.holder = Nobody] ELSE authority
    /\ Become(c, Off)
    /\ UNCHANGED <<readiness, history, ready, destination, spent>>

Dead(c) == c \in Coordinators /\ worker[c].epoch # authority.epoch

\* The operator confirms the record that was inspected, whether or not its
\* holder still runs.
TakeOver ==
    /\ authority.holder \in Coordinators
    /\ authority.epoch < MaxEpoch
    /\ IF Dead(authority.holder) THEN UNCHANGED spent
       ELSE /\ spent.takeovers < MaxTakeovers
            /\ spent' = [spent EXCEPT !.takeovers = @ + 1]
    /\ authority' = [epoch |-> authority.epoch + 1, holder |-> Operator]
    /\ UNCHANGED <<readiness, history, ready, destination, worker>>

ReleaseTakeover ==
    /\ authority.holder = Operator
    /\ authority' = [authority EXCEPT !.holder = Nobody]
    /\ UNCHANGED <<readiness, history, ready, destination, worker, spent>>

\* The process ends, or the service is interrupted and leaves in order.
Interrupt(c) ==
    /\ worker[c].pc \notin {"off", "leave"}
    /\ spent.errors < MaxErrors
    /\ spent' = [spent EXCEPT !.errors = @ + 1]
    /\ Become(c, Off) \/ Become(c, Step(c, "leave"))
    /\ UNCHANGED <<control, destination>>

LoseVolume ==
    /\ store.identity # NoStore
    /\ spent.losses < MaxLosses
    /\ spent' = [spent EXCEPT !.losses = @ + 1]
    /\ store' = [store EXCEPT !.identity = NoStore, !.barrier = 0]
    /\ UNCHANGED <<control, put, worker>>
-----------------------------------------------------------------------------
(***************************************************************************)
(* The destination.                                                        *)
(***************************************************************************)
\* assertDestinationAuthorityFloor: the retained barrier or a higher one.
FloorHolds(record) == Adopted(record) => store.barrier >= record.epoch

\* readCoordinatorAdoptionPrecondition
MayAdopt(c) ==
    /\ store.identity = worker[c].store
    /\ FloorHolds(worker[c].record)
    /\ store.barrier <= worker[c].epoch

Preflight(c) ==
    /\ At(c, "preflight")
    /\ IF \/ worker[c].store = NoStore
          \/ /\ store.identity = worker[c].store
             /\ Adopted(worker[c].record) => MayAdopt(c)
       THEN Goto(c, Step(c, IF worker[c].job = "handoff" THEN "open" ELSE "start"))
       ELSE Leave(c)

\* Mutant of AfterOpen: the record advances before the destination.
AcknowledgeFirst(w) ==
    IF w.job = "handoff" /\ ~Adopted(w.record) THEN "prepare" ELSE "acknowledge"

AfterOpen(w) ==
    IF w.job = "handoff" /\ ~Adopted(w.record) THEN "prepare" ELSE "adopt"

Opened(c, s) == [Step(c, AfterOpen(worker[c])) EXCEPT !.store = s]

\* A store that is known must be there; only where none is known and none is
\* there is one made, with its first barrier (ensureStoreIdentity).
Open(c) ==
    /\ At(c, "open")
    /\ \/ worker[c].store \notin {NoStore, store.identity} /\ Fails(c)
       \/ /\ worker[c].store \in {NoStore, store.identity}
          /\ store.identity # NoStore
          /\ Goto(c, Opened(c, store.identity))
       \/ /\ worker[c].store = NoStore
          /\ store.identity = NoStore
          /\ store' = [identity |-> store.made + 1, barrier |-> worker[c].epoch,
                       made |-> store.made + 1]
          /\ Become(c, Opened(c, store'.identity))
          /\ UNCHANGED <<control, put, spent>>

\* adoptCoordinatorAuthority
Adopt(c) ==
    /\ At(c, "adopt")
    /\ IF MayAdopt(c)
       THEN /\ store' = [store EXCEPT !.barrier = worker[c].epoch]
            /\ Become(c, Step(c, IF worker[c].job = "handoff" THEN "acknowledge"
                                 ELSE "request"))
            /\ UNCHANGED <<control, put, spent>>
       ELSE Fails(c)
-----------------------------------------------------------------------------
(***************************************************************************)
(* prepareApplicationStateReadiness.                                       *)
(***************************************************************************)
ReadRetained(c) ==
    /\ At(c, "begin")
    /\ worker[c].job = "handoff"
    /\ Goto(c, [Step(c, "inventory") EXCEPT !.record = readiness])

Named(c) == (history \cup {worker[c].record.store}) \ {NoStore}

\* collectApplicationStateReadinessDestination
Inventory(c) ==
    /\ At(c, "inventory")
    /\ \/ Cardinality(Named(c)) > 1 /\ Leave(c)
       \/ /\ Named(c) = {}
          /\ Goto(c, Step(c, "preflight"))
       \/ \E s \in Named(c) :
             /\ Named(c) = {s}
             /\ Goto(c, [Step(c, "preflight") EXCEPT !.store = s])

Candidate(c, status) ==
    [status |-> status, store |-> worker[c].store, epoch |-> worker[c].epoch]

\* Mutant of MayPrepare: an interrupted handoff is not resumed.
MayPrepareOnce(c) == readiness = NoRecord

MayPrepare(c) ==
    /\ ~Adopted(readiness)
    /\ readiness.epoch < worker[c].epoch

\* prepare.  The record of this very authority is returned as it is.
Prepare(c) ==
    LET w == worker[c] IN
    /\ At(c, "prepare")
    /\ CASE readiness.store \notin {NoStore, w.store} -> Leave(c)
         [] readiness.store = w.store /\ readiness.epoch = w.epoch ->
              Goto(c, [Step(c, "adopt") EXCEPT !.record = readiness])
         [] readiness.store \in {NoStore, w.store} /\ readiness.epoch # w.epoch /\ MayPrepare(c) ->
              Goto(c, [Step(c, "write") EXCEPT !.record = readiness,
                                               !.next = Candidate(c, "PREPARING")])
         [] OTHER -> Leave(c)

\* markAdopted and advanceAdopted.
Acknowledge(c) ==
    LET w == worker[c] IN
    /\ At(c, "acknowledge")
    /\ CASE readiness = Candidate(c, "ADOPTED") ->
              Goto(c, [Step(c, "publish") EXCEPT !.record = readiness])
         [] /\ readiness # Candidate(c, "ADOPTED")
            /\ readiness = w.record
            /\ Adopted(w.record) => w.epoch > w.record.epoch ->
              Goto(c, [Step(c, "write") EXCEPT !.next = Candidate(c, "ADOPTED")])
         [] OTHER -> Leave(c)

TransitionHolds(c) == Current(c) /\ readiness = worker[c].record

\* writeTransition.  Whether it was answered or not, the record is read next.
WriteTransition(c) ==
    /\ At(c, "write")
    /\ \/ TransitionHolds(c) /\ readiness' = worker[c].next /\ UNCHANGED spent
       \/ ~TransitionHolds(c) /\ UNCHANGED <<readiness, spent>>
       \/ /\ spent.errors < MaxErrors
          /\ spent' = [spent EXCEPT !.errors = @ + 1]
          /\ UNCHANGED readiness
    /\ Become(c, Step(c, "confirm"))
    /\ UNCHANGED <<authority, history, ready, destination>>

ConfirmTransition(c) ==
    LET w == worker[c] IN
    /\ At(c, "confirm")
    /\ IF readiness = w.next /\ Current(c)
       THEN Goto(c, [w EXCEPT !.pc = IF Adopted(w.next) THEN "publish" ELSE "adopt",
                              !.record = w.next])
       ELSE Leave(c)

\* markReady of the service, with the readiness and the authority fence.  A
\* service whose READY is not answered stops.
MayPublish(c) == TransitionHolds(c)

Publish(c) ==
    /\ At(c, "publish")
    /\ IF MayPublish(c)
       THEN /\ ready' = worker[c].epoch
            /\ \/ Become(c, Step(c, "serve")) /\ UNCHANGED spent
               \/ /\ spent.errors < MaxErrors
                  /\ spent' = [spent EXCEPT !.errors = @ + 1]
                  /\ Become(c, Step(c, "leave"))
            /\ UNCHANGED <<authority, readiness, history, destination>>
       ELSE Leave(c)
-----------------------------------------------------------------------------
(***************************************************************************)
(* Dispatch of an activity with one effect.                                *)
(***************************************************************************)
\* resolveApplicationStateWriteBinding before the dispatch is prepared.
Bind(c) ==
    /\ At(c, "serve") \/ (At(c, "begin") /\ worker[c].job = "dispatch")
    /\ IF readiness.status = "PREPARING" THEN Leave(c)
       ELSE Goto(c, [worker[c] EXCEPT !.pc = "preflight", !.job = "dispatch",
                                      !.record = readiness, !.store = readiness.store])

\* The ledger records that the attempt started.
Start(c) ==
    /\ At(c, "start")
    /\ IF Current(c) THEN Goto(c, Step(c, "rebind")) ELSE Leave(c)

\* The binding is resolved again after the dispatch was authorised.
Rebind(c) ==
    LET w == worker[c] IN
    /\ At(c, "rebind")
    /\ \/ /\ \/ readiness.status = "PREPARING"
             \/ NoStore \notin {readiness.store, w.store} /\ readiness.store # w.store
          /\ Fails(c)
       \/ /\ readiness = NoRecord
          /\ Goto(c, Step(c, "open"))
       \/ /\ Adopted(readiness)
          /\ w.store \in {NoStore, readiness.store}
          /\ Goto(c, [Step(c, "open") EXCEPT !.record = readiness,
                                             !.store = readiness.store])

\* The effect is recorded with its destination before it is dispatched.
RequestEffect(c) ==
    /\ At(c, "request")
    /\ IF Current(c)
       THEN /\ history' = history \cup {worker[c].store}
            /\ Become(c, Step(c, "put"))
            /\ UNCHANGED <<authority, readiness, ready, destination, spent>>
       ELSE Leave(c)

\* Mutant of Fenced: the write compares the identity of the store only.
FencedByIdentity(c) == store.identity = worker[c].store

Fenced(c) ==
    /\ store.identity = worker[c].store
    /\ store.barrier = worker[c].epoch

Put(c) ==
    /\ At(c, "put")
    /\ IF Fenced(c)
       THEN /\ put' = [epoch |-> worker[c].epoch, store |-> worker[c].store]
            /\ Become(c, Step(c, IF c \in Residents THEN "serve" ELSE "leave"))
            /\ UNCHANGED <<control, store, spent>>
       ELSE Fails(c)
-----------------------------------------------------------------------------
Work(c) ==
    \/ Acquire(c) \/ Release(c)
    \/ ReadRetained(c) \/ Inventory(c) \/ Preflight(c) \/ Open(c)
    \/ Prepare(c) \/ Adopt(c) \/ Acknowledge(c)
    \/ WriteTransition(c) \/ ConfirmTransition(c) \/ Publish(c)
    \/ Bind(c) \/ Start(c) \/ Rebind(c) \/ RequestEffect(c) \/ Put(c)

Next ==
    \/ \E c \in Coordinators : Work(c) \/ Interrupt(c)
    \/ TakeOver \/ ReleaseTakeover \/ LoseVolume

Spec == Init /\ [][Next]_vars

\* The service manager starts a resident again, a process that began goes on
\* with what it does, and the operator relieves a coordinator that is gone.
Fairness ==
    /\ \A c \in Residents : WF_vars(Work(c))
    /\ \A c \in Hosts : WF_vars(~At(c, "off") /\ Work(c))
    /\ WF_vars(TakeOver /\ Dead(authority.holder))
    /\ WF_vars(ReleaseTakeover)

FairSpec == Spec /\ Fairness
-----------------------------------------------------------------------------
TypeOK ==
    /\ authority \in [epoch : Epochs, holder : Coordinators \cup {Nobody, Operator}]
    /\ readiness \in Record
    /\ history \subseteq Stores
    /\ ready \in Epochs
    /\ store \in [identity : Stores, barrier : Epochs, made : Stores]
    /\ put \in [epoch : Epochs, store : Stores]
    /\ worker \in [Coordinators -> Worker]
    /\ spent \in [visits : 0..MaxVisits, takeovers : 0..MaxTakeovers, errors : 0..MaxErrors,
                  losses : 0..MaxLosses]

(***************************************************************************)
(* The record never runs ahead of the store, although they are in two        *)
(* databases: while the store it names is there, ADOPTED under an epoch means *)
(* that the store accepts no writer of a lower one.                          *)
(***************************************************************************)
AdoptedIsFloor ==
    Adopted(readiness) /\ store.identity = readiness.store
        => store.barrier >= readiness.epoch

\* READY is published under the epoch in force, which is the barrier of the
\* pinned store at that moment (unless the volume was lost).
ReadyIsAlone ==
    ready' # ready =>
        /\ ready' = authority.epoch
        /\ store.identity = readiness.store => store.barrier = ready'

\* A value is written to the store the record names, under no older epoch.
WriterIsCurrent ==
    put' # put /\ Adopted(readiness) =>
        put'.epoch >= readiness.epoch /\ put'.store = readiness.store

\* "neither a missing root nor a missing identity may be bootstrapped"
PinIsKept ==
    /\ readiness # NoRecord => readiness'.store = readiness.store
    /\ Adopted(readiness) => Adopted(readiness')
    /\ store'.made > store.made =>
          \A c \in Coordinators : Current(c) /\ worker'[c] # worker[c] =>
              /\ readiness = NoRecord
              /\ worker[c].job = "handoff" => history = {}

(***************************************************************************)
(* The store has one server.  READY is published only by a coordinator that  *)
(* alone can write to it, so no predecessor writes any more; a value is      *)
(* never written by a coordinator older than the one that adopted the store, *)
(* neither by a foreground host nor by a resident that was taken over in the *)
(* middle of a dispatch; and the coordinator in authority never puts another *)
(* store in the place of the one the record names.                          *)
(***************************************************************************)
StoreHasOneServer == [][ReadyIsAlone /\ WriterIsCurrent /\ PinIsKept]_vars

(***************************************************************************)
(* Whatever is interrupted where, a resident that is started again completes  *)
(* the handoff and becomes READY under the authority it then holds.  Only a   *)
(* lost volume keeps it from serving.                                       *)
(***************************************************************************)
ServiceBecomesReady == <>[](ready = authority.epoch \/ spent.losses > 0)
=============================================================================
