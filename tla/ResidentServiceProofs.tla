------------------------ MODULE ResidentServiceProofs ------------------------
(***************************************************************************)
(* Proofs about the handoff of the application state, for every set of        *)
(* residents and hosts and every bound on epochs, visits, takeovers, errors   *)
(* and lost volumes.                                                        *)
(*                                                                         *)
(* That the record never runs ahead of the store is not inductive.  Two       *)
(* things it rests on: what a coordinator between its reads and its writes    *)
(* knows of the store, which other coordinators may only strengthen (Claim),  *)
(* and what the coordinator in authority knows of the record and of the run   *)
(* history, which nobody else may change before it loses the authority        *)
(* (Known).                                                                 *)
(***************************************************************************)
EXTENDS ResidentService, TLAPS

\* Identities are never made twice, and what was made before is never made again.
StoreInv ==
    /\ store.made = spent.losses + (IF store.identity = NoStore THEN 0 ELSE 1)
    /\ store.identity \in {NoStore, store.made}
    /\ store.barrier <= authority.epoch

\* The record names the only store the run history names.
RecordInv ==
    /\ history \subseteq 1..store.made
    /\ readiness # NoRecord =>
          /\ readiness.store \in 1..store.made
          /\ history \subseteq {readiness.store}

Opening == {"prepare", "adopt", "acknowledge", "write", "confirm", "publish",
            "request", "put"}

\* The barrier of the store that c adopted, as long as the store is there.
AdoptedBy(c) ==
    store.identity = worker[c].store => store.barrier >= worker[c].epoch

\* What c holds, in authority or not.
Claim(c) ==
    LET w == worker[c] IN
    /\ w.epoch <= authority.epoch
    /\ {w.store, w.record.store} \subseteq 0..store.made
    /\ w.record = NoRecord \/ w.record.store # NoStore
    /\ w.pc \in {"begin", "inventory"} => w.store = NoStore
    /\ w.pc \in {"inventory", "prepare", "acknowledge", "write", "confirm", "publish"} =>
          w.job = "handoff"
    /\ w.pc \in {"start", "rebind", "request", "put"} => w.job = "dispatch"
    /\ w.pc \in Opening => w.store # NoStore
    /\ w.pc \in Opening \cup {"preflight", "open"} /\ w.job = "handoff" =>
          w.record = NoRecord \/ w.record.store = w.store
    /\ w.pc = "acknowledge" => AdoptedBy(c)
    /\ w.pc \in {"write", "confirm"} =>
          \/ w.next = Candidate(c, "PREPARING") /\ ~Adopted(w.record)
          \/ w.next = Candidate(c, "ADOPTED") /\ AdoptedBy(c)
    /\ w.pc = "publish" => w.record = Candidate(c, "ADOPTED")
    /\ w.pc = "put" => w.store \in history

\* What c knows while it is in authority.
Known(c) ==
    LET w == worker[c] IN
    Current(c) =>
    /\ w.job = "handoff" =>
          /\ w.pc \in {"inventory", "preflight", "open"} => w.record = readiness
          /\ w.pc \in {"preflight", "open"} =>
                history \subseteq {w.store} /\ (w.record # NoRecord => w.store # NoStore)
          /\ w.pc \in Opening => history \subseteq {w.store}
    /\ w.job = "dispatch" /\ w.pc \in {"open", "adopt", "request"} =>
          readiness = NoRecord \/ (Adopted(readiness) /\ w.store = readiness.store)

HandoffInv ==
    /\ TypeOK
    /\ AdoptedIsFloor
    /\ StoreInv
    /\ RecordInv
    /\ \A c \in Coordinators : Claim(c) /\ Known(c)
-----------------------------------------------------------------------------
USE BoundsAreNatural DEF NoStore, Coordinators

LEMMA BoundsType ==
    /\ MaxEpoch \in Nat /\ MaxVisits \in Nat /\ MaxTakeovers \in Nat
    /\ MaxErrors \in Nat /\ MaxLosses \in Nat
OBVIOUS

LEMMA RecordFields ==
    /\ NoRecord \in Record /\ ~Adopted(NoRecord) /\ NoRecord.store = NoStore
    /\ \A r \in Record : r.store \in Stores /\ r.epoch \in Epochs
    /\ \A s \in Stores, e \in Epochs, status \in {"PREPARING", "ADOPTED"} :
          [status |-> status, store |-> s, epoch |-> e] \in Record
BY BoundsType DEF NoRecord, Record, Stores, Epochs, Adopted

LEMMA OffType == Off \in Worker /\ Off.pc = "off" /\ Off.epoch = 0
                 /\ Off.record = NoRecord /\ Off.store = NoStore
BY RecordFields, BoundsType DEF Off, Worker, Steps, Stores, Epochs

\* What everybody but c may rely on when c takes a step.
StoreAdvances ==
    /\ store'.made >= store.made
    /\ \A s \in 1..store.made :
          store'.identity = s => store.identity = s /\ store'.barrier >= store.barrier

AuthorityAdvances == authority'.epoch >= authority.epoch

LEMMA OthersKeep ==
    ASSUME HandoffInv, TypeOK', StoreAdvances, AuthorityAdvances,
           NEW d \in Coordinators, worker'[d] = worker[d],
           Current(d)' => Current(d),
           history \subseteq history',
           Current(d) => readiness' = readiness /\ history' = history
    PROVE  Claim(d)' /\ Known(d)'
<1> DEFINE w == worker[d]
<1>1. /\ Claim(d) /\ Known(d) /\ w \in Worker
      /\ store.made \in Nat /\ store'.made \in Nat
      /\ authority.epoch \in Nat /\ authority'.epoch \in Nat
      /\ store.barrier \in Nat /\ store'.barrier \in Nat
  BY BoundsType DEF HandoffInv, TypeOK, Stores, Epochs
<1>2. w.epoch \in Nat
  BY <1>1, BoundsType DEF Worker, Epochs
<1>3. w.epoch <= authority'.epoch /\ {w.store, w.record.store} \subseteq 0..store'.made
  BY <1>1, <1>2 DEF Claim, StoreAdvances, AuthorityAdvances
<1>4. w.store # NoStore /\ AdoptedBy(d) => AdoptedBy(d)'
  BY <1>1, <1>2 DEF Claim, AdoptedBy, StoreAdvances
<1>5. Claim(d)'
  BY <1>1, <1>3, <1>4 DEF Claim, Candidate, Opening
<1>6. Known(d)'
  BY <1>1 DEF Known
<1> QED BY <1>5, <1>6
-----------------------------------------------------------------------------
\* A coordinator that starts, serves or leaves holds nothing.
LEMMA RestingHolds ==
    ASSUME HandoffInv, NEW c \in Coordinators,
           worker'[c].pc \in {"off", "begin", "serve", "leave"},
           worker'[c].pc = "begin" => worker'[c].store = NoStore,
           worker'[c].epoch <= authority'.epoch,
           worker'[c].record = NoRecord \/ worker'[c].record.store # NoStore,
           {worker'[c].store, worker'[c].record.store} \subseteq 0..store'.made
    PROVE  Claim(c)' /\ Known(c)'
BY DEF Claim, Known, Opening

\* The types of what c holds, for the steps below.
LEMMA HeldTypes ==
    ASSUME HandoffInv, NEW c \in Coordinators
    PROVE  /\ worker[c] \in Worker /\ worker[c].epoch \in Epochs
           /\ worker[c].store \in Stores /\ worker[c].record \in Record
           /\ worker[c].next \in Record /\ worker[c].job \in {"handoff", "dispatch"}
           /\ worker[c].epoch \in Nat /\ worker[c].store \in Nat
           /\ worker[c].record.store \in Nat /\ readiness.store \in Nat
           /\ readiness \in Record /\ authority.epoch \in Nat
           /\ store.made \in Nat /\ store.barrier \in Nat
           /\ store.identity \in Stores /\ store.made \in Stores /\ store.barrier \in Epochs
           /\ Claim(c) /\ Known(c)
<1>1. worker[c] \in Worker /\ readiness \in Record
  BY DEF HandoffInv, TypeOK
<1>2. /\ worker[c].epoch \in Epochs /\ worker[c].store \in Stores
      /\ worker[c].record \in Record /\ worker[c].next \in Record
      /\ worker[c].job \in {"handoff", "dispatch"}
  BY <1>1 DEF Worker
<1>3. /\ authority.epoch \in Epochs /\ store.made \in Stores /\ store.barrier \in Epochs
      /\ store.identity \in Stores
  BY DEF HandoffInv, TypeOK
<1>4. Claim(c) /\ Known(c)
  BY DEF HandoffInv
<1> QED BY <1>1, <1>2, <1>3, <1>4, RecordFields, BoundsType DEF Epochs, Stores

LEMMA LoneTypes ==
    ASSUME HandoffInv
    PROVE  /\ authority.epoch \in Nat /\ store.made \in Nat /\ store.barrier \in Nat
           /\ readiness \in Record
BY BoundsType DEF HandoffInv, TypeOK, Stores, Epochs

\* The step of one coordinator, and what it leaves alone: nothing but what the
\* coordinator holds.
LEMMA GotoKeeps ==
    ASSUME HandoffInv, NEW c \in Coordinators, NEW w \in Worker, Goto(c, w),
           Claim(c)', Known(c)'
    PROVE  HandoffInv'
<1>1. /\ worker' = [worker EXCEPT ![c] = w]
      /\ UNCHANGED <<authority, readiness, history, ready, store, put, spent>>
  BY DEF Goto, Become, control, destination
<1>2. TypeOK'
  BY <1>1 DEF HandoffInv, TypeOK
<1>3. StoreAdvances /\ AuthorityAdvances
  BY <1>1, HeldTypes DEF StoreAdvances, AuthorityAdvances
<1>4. ASSUME NEW d \in Coordinators, d # c PROVE Claim(d)' /\ Known(d)'
  <2>1. worker'[d] = worker[d]
    BY <1>1, <1>4 DEF HandoffInv, TypeOK
  <2>2. Current(d)' => Current(d)
    BY <1>1, <2>1 DEF Current
  <2> QED BY <1>1, <1>2, <1>3, <2>1, <2>2, OthersKeep
<1>5. AdoptedIsFloor' /\ StoreInv' /\ RecordInv'
  BY <1>1 DEF HandoffInv, AdoptedIsFloor, StoreInv, RecordInv
<1> QED BY <1>2, <1>4, <1>5 DEF HandoffInv

\* What c holds after such a step.
LEMMA GotoHolds ==
    ASSUME HandoffInv, NEW c \in Coordinators, NEW w, Goto(c, w)
    PROVE  /\ worker'[c] = w
           /\ UNCHANGED <<authority, readiness, history, ready, store, put, spent>>
BY DEF Goto, Become, control, destination, HandoffInv, TypeOK

LEMMA LeavingKeeps ==
    ASSUME HandoffInv, NEW c \in Coordinators, Leave(c) \/ Fails(c)
    PROVE  HandoffInv'
<1>1. PICK pc \in {"leave", "serve"} : Goto(c, Step(c, pc))
  BY DEF Leave, Fails, Goto
<1>2. Step(c, pc) \in Worker
  BY HeldTypes DEF Step, Worker, Steps
<1>3. /\ worker'[c] = Step(c, pc) /\ UNCHANGED <<authority, store>>
  BY <1>1, GotoHolds
<1>4. Claim(c)' /\ Known(c)'
  <2>1. /\ worker'[c].pc = pc /\ worker'[c].epoch = worker[c].epoch
        /\ worker'[c].record = worker[c].record /\ worker'[c].store = worker[c].store
    BY <1>3, HeldTypes DEF Step, Worker
  <2>2. /\ worker[c].epoch <= authority.epoch
        /\ {worker[c].store, worker[c].record.store} \subseteq 0..store.made
        /\ worker[c].record = NoRecord \/ worker[c].record.store # NoStore
    BY HeldTypes DEF Claim
  <2> QED BY <1>3, <2>1, <2>2, RestingHolds
<1> QED BY <1>1, <1>2, <1>4, GotoKeeps

LEMMA ReadRetainedKeeps ==
    ASSUME HandoffInv, NEW c \in Coordinators, ReadRetained(c)
    PROVE  HandoffInv'
<1> DEFINE v == [Step(c, "inventory") EXCEPT !.record = readiness]
<1>1. Goto(c, v) /\ worker[c].job = "handoff" /\ worker[c].pc = "begin"
  BY DEF ReadRetained, At
<1>2. v \in Worker /\ v.pc = "inventory" /\ v.job = "handoff" /\ v.record = readiness
      /\ v.epoch = worker[c].epoch /\ v.store = worker[c].store
  BY <1>1, HeldTypes DEF Step, Worker, Steps
<1>3. /\ readiness.store \in 0..store.made
      /\ readiness = NoRecord \/ readiness.store # NoStore
  BY RecordFields, HeldTypes DEF HandoffInv, RecordInv
<1>4. worker'[c] = v /\ UNCHANGED <<authority, readiness, history, store>>
  BY <1>1, GotoHolds
<1> HIDE DEF v
<1>5. Claim(c)'
  BY <1>1, <1>2, <1>3, <1>4, HeldTypes DEF Claim, Opening
<1>6. Known(c)'
  BY <1>2, <1>4 DEF Known, Opening
<1> QED BY <1>1, <1>2, <1>5, <1>6, GotoKeeps

LEMMA InventoryKeeps ==
    ASSUME HandoffInv, NEW c \in Coordinators, Inventory(c)
    PROVE  HandoffInv'
<1>1. worker[c].pc = "inventory" /\ worker[c].store = NoStore /\ worker[c].job = "handoff"
  BY HeldTypes DEF Inventory, At, Claim
<1>2. CASE Leave(c)
  BY <1>2, LeavingKeeps
<1>3. ASSUME NEW s \in 0..store.made, history \cup {worker[c].record.store} \subseteq {s, NoStore},
             Goto(c, [Step(c, "preflight") EXCEPT !.store = s]),
             s = NoStore => worker[c].record.store = NoStore
      PROVE  HandoffInv'
  <2> DEFINE v == [Step(c, "preflight") EXCEPT !.store = s]
  <2>1. s \in Stores
    BY <1>3, HeldTypes DEF Stores
  <2>2. v \in Worker /\ v.pc = "preflight" /\ v.job = "handoff" /\ v.store = s
        /\ v.record = worker[c].record /\ v.epoch = worker[c].epoch
    BY <1>1, <2>1, HeldTypes DEF Step, Worker, Steps
  <2>3. worker'[c] = v /\ UNCHANGED <<authority, readiness, history, store>>
    BY <1>3, GotoHolds
  <2> HIDE DEF v
  <2>4. history \subseteq {s}
    BY <1>3, HeldTypes DEF HandoffInv, RecordInv
  <2>5. worker[c].record = NoRecord \/ (worker[c].record.store = s /\ s # NoStore)
    BY <1>3, HeldTypes DEF Claim
  <2>6. Claim(c)'
    BY <2>2, <2>3, <2>5, <1>3, HeldTypes DEF Claim, Opening
  <2>7. Known(c)'
    <3>1. Current(c)' => Current(c)
      BY <2>2, <2>3 DEF Current
    <3> QED BY <1>1, <2>2, <2>3, <2>4, <2>5, <3>1, HeldTypes, SMTT(30) DEF Known, Opening
  <2> QED BY <1>3, <2>2, <2>6, <2>7, GotoKeeps DEF v
<1>4. CASE Named(c) = {} /\ Goto(c, Step(c, "preflight"))
  <2>1. Step(c, "preflight") = [Step(c, "preflight") EXCEPT !.store = NoStore]
    BY <1>1, HeldTypes DEF Step, Worker
  <2>2. history \cup {worker[c].record.store} \subseteq {NoStore}
    BY <1>4 DEF Named
  <2> QED BY <1>3, <1>4, <2>1, <2>2, HeldTypes
<1>5. CASE \E s \in Named(c) : /\ Named(c) = {s}
                               /\ Goto(c, [Step(c, "preflight") EXCEPT !.store = s])
  <2>1. PICK s \in Named(c) : /\ Named(c) = {s}
                              /\ Goto(c, [Step(c, "preflight") EXCEPT !.store = s])
    BY <1>5
  <2>2. s \in 0..store.made /\ s # NoStore
    BY <2>1, HeldTypes DEF Named, HandoffInv, RecordInv, Claim
  <2>3. history \cup {worker[c].record.store} \subseteq {s, NoStore}
    BY <2>1 DEF Named
  <2> QED BY <1>3, <2>1, <2>2, <2>3
<1> QED BY <1>2, <1>4, <1>5 DEF Inventory

LEMMA PreflightKeeps ==
    ASSUME HandoffInv, NEW c \in Coordinators, Preflight(c)
    PROVE  HandoffInv'
<1> DEFINE pc == IF worker[c].job = "handoff" THEN "open" ELSE "start"
           v == Step(c, pc)
<1>1. CASE Goto(c, v)
  <2>1. worker[c].pc = "preflight"
    BY DEF Preflight, At
  <2>2. v \in Worker /\ v.pc = pc /\ v.job = worker[c].job /\ v.store = worker[c].store
        /\ v.record = worker[c].record /\ v.epoch = worker[c].epoch
    BY HeldTypes DEF Step, Worker, Steps
  <2>3. worker'[c] = v /\ UNCHANGED <<authority, readiness, history, store>>
    BY <1>1, GotoHolds
  <2> HIDE DEF v
  <2>4. Claim(c)'
    BY <2>1, <2>2, <2>3, HeldTypes DEF Claim, Opening
  <2>5. Known(c)'
    <3>1. Current(c)' => Current(c)
      BY <2>2, <2>3 DEF Current
    <3> QED BY <2>1, <2>2, <2>3, <3>1, HeldTypes DEF Known, Opening
  <2> QED BY <1>1, <2>2, <2>4, <2>5, GotoKeeps
<1>2. CASE Leave(c)
  BY <1>2, LeavingKeeps
<1> QED BY <1>1, <1>2 DEF Preflight

LEMMA PrepareKeeps ==
    ASSUME HandoffInv, NEW c \in Coordinators, Prepare(c)
    PROVE  HandoffInv'
<1> DEFINE w == worker[c]
<1>1. /\ w.pc = "prepare" /\ w.job = "handoff" /\ w.store # NoStore
      /\ w.store \in 0..store.made /\ w.epoch <= authority.epoch
      /\ Current(c) => history \subseteq {w.store}
  BY HeldTypes DEF Prepare, At, Claim, Known, Opening
<1>2. CASE Leave(c)
  BY <1>2, LeavingKeeps
<1>3. ASSUME NEW v \in Worker, Goto(c, v), v.pc \in {"adopt", "write"}, v.job = "handoff",
             v.store = w.store, v.epoch = w.epoch, v.record = readiness,
             readiness.store \in {NoStore, w.store},
             v.pc = "write" => v.next = Candidate(c, "PREPARING") /\ ~Adopted(readiness)
      PROVE  HandoffInv'
  <2>1. worker'[c] = v /\ UNCHANGED <<authority, readiness, history, store>>
    BY <1>3, GotoHolds
  <2>2. readiness = NoRecord \/ (readiness.store = w.store /\ readiness.store # NoStore)
    BY <1>1, <1>3, HeldTypes DEF HandoffInv, RecordInv
  <2>3. v.pc = "write" => v.next = Candidate(c, "PREPARING")'
    BY <1>3, <2>1 DEF Candidate
  <2>4. Claim(c)'
    BY <1>1, <1>3, <2>1, <2>2, <2>3, RecordFields, HeldTypes DEF Claim, Opening
  <2>5. Known(c)'
    <3>1. Current(c)' => Current(c)
      BY <1>3, <2>1 DEF Current
    <3> QED BY <1>1, <1>3, <2>1, <3>1 DEF Known, Opening
  <2> QED BY <1>3, <2>4, <2>5, GotoKeeps
<1>4. CASE /\ readiness.store = w.store
           /\ Goto(c, [Step(c, "adopt") EXCEPT !.record = readiness])
  <2> DEFINE v == [Step(c, "adopt") EXCEPT !.record = readiness]
  <2>1. /\ v \in Worker /\ v.pc = "adopt" /\ v.job = w.job /\ v.store = w.store
        /\ v.epoch = w.epoch /\ v.record = readiness
    BY HeldTypes DEF Step, Worker, Steps
  <2> HIDE DEF v
  <2> QED BY <1>1, <1>3, <1>4, <2>1 DEF v
<1>5. CASE /\ readiness.store \in {NoStore, w.store} /\ MayPrepare(c)
           /\ Goto(c, [Step(c, "write") EXCEPT !.record = readiness,
                                               !.next = Candidate(c, "PREPARING")])
  <2> DEFINE n == Candidate(c, "PREPARING")
             v == [Step(c, "write") EXCEPT !.record = readiness, !.next = n]
  <2>1. n \in Record
    BY RecordFields, HeldTypes DEF Candidate
  <2> HIDE DEF n
  <2>2. /\ v \in Worker /\ v.pc = "write" /\ v.job = w.job /\ v.store = w.store
        /\ v.epoch = w.epoch /\ v.record = readiness /\ v.next = n
    BY <2>1, HeldTypes DEF Step, Worker, Steps
  <2>3. Goto(c, v) /\ n = Candidate(c, "PREPARING")
    BY <1>5 DEF n
  <2> HIDE DEF v
  <2> QED BY <1>1, <1>3, <1>5, <2>2, <2>3 DEF MayPrepare
<1> QED BY <1>2, <1>4, <1>5 DEF Prepare

LEMMA AcknowledgeKeeps ==
    ASSUME HandoffInv, NEW c \in Coordinators, Acknowledge(c)
    PROVE  HandoffInv'
<1> DEFINE w == worker[c]
           n == Candidate(c, "ADOPTED")
<1>1. /\ w.pc = "acknowledge" /\ w.job = "handoff" /\ w.store # NoStore /\ AdoptedBy(c)
      /\ w.store \in 0..store.made /\ w.epoch <= authority.epoch
      /\ w.record = NoRecord \/ w.record.store = w.store
      /\ {w.record.store} \subseteq 0..store.made
      /\ Current(c) => history \subseteq {w.store}
  BY HeldTypes DEF Acknowledge, At, Claim, Known, Opening
<1>2. CASE Leave(c)
  BY <1>2, LeavingKeeps
<1>3. n \in Record /\ n.store = w.store /\ Adopted(n)
  BY RecordFields, HeldTypes DEF Candidate, Adopted
<1>4. ASSUME NEW v \in Worker, Goto(c, v), v.job = "handoff", v.store = w.store,
             v.epoch = w.epoch,
             \/ v.pc = "write" /\ v.record = w.record /\ v.next = n
             \/ v.pc = "publish" /\ v.record = n
      PROVE  HandoffInv'
  <2>1. worker'[c] = v /\ UNCHANGED <<authority, readiness, history, store>>
    BY <1>4, GotoHolds
  <2>2. n = Candidate(c, "ADOPTED")' /\ AdoptedBy(c)'
    BY <1>1, <1>4, <2>1 DEF Candidate, AdoptedBy
  <2> HIDE DEF n
  <2>3. Claim(c)'
    BY <1>1, <1>3, <1>4, <2>1, <2>2, RecordFields, HeldTypes DEF Claim, Opening
  <2>4. Known(c)'
    <3>1. Current(c)' => Current(c)
      BY <1>4, <2>1 DEF Current
    <3> QED BY <1>1, <1>4, <2>1, <3>1 DEF Known, Opening
  <2> QED BY <1>4, <2>3, <2>4, GotoKeeps
<1>5. CASE readiness = n /\ Goto(c, [Step(c, "publish") EXCEPT !.record = readiness])
  <2> DEFINE v == [Step(c, "publish") EXCEPT !.record = readiness]
  <2>1. /\ v \in Worker /\ v.pc = "publish" /\ v.job = w.job /\ v.store = w.store
        /\ v.epoch = w.epoch /\ v.record = readiness
    BY HeldTypes DEF Step, Worker, Steps
  <2> HIDE DEF v
  <2> QED BY <1>1, <1>4, <1>5, <2>1 DEF v
<1>6. CASE Goto(c, [Step(c, "write") EXCEPT !.next = n])
  <2> HIDE DEF n
  <2> DEFINE v == [Step(c, "write") EXCEPT !.next = n]
  <2>1. /\ v \in Worker /\ v.pc = "write" /\ v.job = w.job /\ v.store = w.store
        /\ v.epoch = w.epoch /\ v.record = w.record /\ v.next = n
    BY <1>3, HeldTypes DEF Step, Worker, Steps
  <2>2. Goto(c, v)
    BY <1>6
  <2> HIDE DEF v
  <2> QED BY <1>1, <1>4, <2>1, <2>2
<1> QED BY <1>2, <1>5, <1>6 DEF Acknowledge

LEMMA ConfirmKeeps ==
    ASSUME HandoffInv, NEW c \in Coordinators, ConfirmTransition(c)
    PROVE  HandoffInv'
<1> DEFINE w == worker[c]
           pc == IF Adopted(w.next) THEN "publish" ELSE "adopt"
           v == [w EXCEPT !.pc = pc, !.record = w.next]
<1>1. /\ w.pc = "confirm" /\ w.job = "handoff" /\ w.store # NoStore
      /\ w.store \in 0..store.made /\ w.epoch <= authority.epoch
      /\ \/ w.next = Candidate(c, "PREPARING")
         \/ w.next = Candidate(c, "ADOPTED")
      /\ Current(c) => history \subseteq {w.store}
  BY HeldTypes DEF ConfirmTransition, At, Claim, Known, Opening
<1>2. CASE Leave(c)
  BY <1>2, LeavingKeeps
<1>3. CASE Goto(c, v)
  <2>1. /\ v \in Worker /\ v.pc = pc /\ v.job = w.job /\ v.store = w.store
        /\ v.epoch = w.epoch /\ v.record = w.next
    BY HeldTypes DEF Worker, Steps
  <2>2. worker'[c] = v /\ UNCHANGED <<authority, readiness, history, store>>
    BY <1>3, GotoHolds
  <2> HIDE DEF v
  <2>3. w.next.store = w.store /\ (Adopted(w.next) => w.next = Candidate(c, "ADOPTED")')
    BY <1>1, <2>1, <2>2 DEF Candidate, Adopted
  <2>4. Claim(c)'
    BY <1>1, <2>1, <2>2, <2>3, RecordFields, HeldTypes DEF Claim, Opening
  <2>5. Known(c)'
    <3>1. Current(c)' => Current(c)
      BY <2>1, <2>2 DEF Current
    <3> QED BY <1>1, <2>1, <2>2, <3>1 DEF Known, Opening
  <2> QED BY <1>3, <2>1, <2>4, <2>5, GotoKeeps
<1> QED BY <1>2, <1>3 DEF ConfirmTransition

LEMMA BindKeeps ==
    ASSUME HandoffInv, NEW c \in Coordinators, Bind(c)
    PROVE  HandoffInv'
<1> DEFINE v == [worker[c] EXCEPT !.pc = "preflight", !.job = "dispatch",
                                  !.record = readiness, !.store = readiness.store]
<1>1. CASE Leave(c)
  BY <1>1, LeavingKeeps
<1>2. CASE Goto(c, v)
  <2>1. /\ v \in Worker /\ v.pc = "preflight" /\ v.job = "dispatch" /\ v.record = readiness
        /\ v.store = readiness.store /\ v.epoch = worker[c].epoch
    BY HeldTypes, RecordFields DEF Worker, Steps
  <2>2. worker'[c] = v /\ UNCHANGED <<authority, readiness, history, store>>
    BY <1>2, GotoHolds
  <2> HIDE DEF v
  <2>3. /\ readiness.store \in 0..store.made
        /\ readiness = NoRecord \/ readiness.store # NoStore
    BY RecordFields, HeldTypes DEF HandoffInv, RecordInv
  <2>4. Claim(c)'
    BY <2>1, <2>2, <2>3, HeldTypes DEF Claim, Opening
  <2>5. Known(c)'
    BY <2>1, <2>2 DEF Known, Opening
  <2> QED BY <1>2, <2>1, <2>4, <2>5, GotoKeeps
<1> QED BY <1>1, <1>2 DEF Bind

LEMMA StartKeeps ==
    ASSUME HandoffInv, NEW c \in Coordinators, Start(c)
    PROVE  HandoffInv'
<1> DEFINE v == Step(c, "rebind")
<1>1. CASE Leave(c)
  BY <1>1, LeavingKeeps
<1>2. CASE Goto(c, v)
  <2>1. worker[c].pc = "start"
    BY DEF Start, At
  <2>2. /\ v \in Worker /\ v.pc = "rebind" /\ v.job = worker[c].job
        /\ v.record = worker[c].record /\ v.store = worker[c].store
        /\ v.epoch = worker[c].epoch
    BY HeldTypes DEF Step, Worker, Steps
  <2>3. worker'[c] = v /\ UNCHANGED <<authority, readiness, history, store>>
    BY <1>2, GotoHolds
  <2> HIDE DEF v
  <2>4. Claim(c)'
    BY <2>1, <2>2, <2>3, HeldTypes DEF Claim, Opening
  <2>5. Known(c)'
    BY <2>1, <2>2, <2>3, HeldTypes DEF Claim, Known, Opening
  <2> QED BY <1>2, <2>2, <2>4, <2>5, GotoKeeps
<1> QED BY <1>1, <1>2 DEF Start

LEMMA RebindKeeps ==
    ASSUME HandoffInv, NEW c \in Coordinators, Rebind(c)
    PROVE  HandoffInv'
<1> DEFINE w == worker[c]
           u == Step(c, "open")
           v == [Step(c, "open") EXCEPT !.record = readiness, !.store = readiness.store]
<1>1. /\ w.pc = "rebind" /\ w.job = "dispatch" /\ w.epoch <= authority.epoch
      /\ {w.store, w.record.store} \subseteq 0..store.made
      /\ w.record = NoRecord \/ w.record.store # NoStore
  BY HeldTypes DEF Rebind, At, Claim
<1>2. CASE Fails(c)
  BY <1>2, LeavingKeeps
<1>3. ASSUME NEW n \in Worker, Goto(c, n), n.pc = "open", n.job = "dispatch",
             n.epoch = w.epoch, n.record = NoRecord \/ n.record.store # NoStore,
             {n.store, n.record.store} \subseteq 0..store.made,
             readiness = NoRecord \/ (Adopted(readiness) /\ n.store = readiness.store)
      PROVE  HandoffInv'
  <2>1. worker'[c] = n /\ UNCHANGED <<authority, readiness, history, store>>
    BY <1>3, GotoHolds
  <2>2. Claim(c)'
    BY <1>1, <1>3, <2>1 DEF Claim, Opening
  <2>3. Known(c)'
    BY <1>3, <2>1 DEF Known, Opening
  <2> QED BY <1>3, <2>2, <2>3, GotoKeeps
<1>4. CASE readiness = NoRecord /\ Goto(c, u)
  <2>1. /\ u \in Worker /\ u.pc = "open" /\ u.job = w.job /\ u.record = w.record
        /\ u.store = w.store /\ u.epoch = w.epoch
    BY HeldTypes DEF Step, Worker, Steps
  <2> HIDE DEF u
  <2> QED BY <1>1, <1>3, <1>4, <2>1
<1>5. CASE Adopted(readiness) /\ Goto(c, v)
  <2>1. /\ v \in Worker /\ v.pc = "open" /\ v.job = w.job /\ v.record = readiness
        /\ v.store = readiness.store /\ v.epoch = w.epoch
    BY HeldTypes, RecordFields DEF Step, Worker, Steps
  <2>2. /\ readiness.store \in 0..store.made
        /\ readiness = NoRecord \/ readiness.store # NoStore
    BY RecordFields, HeldTypes DEF HandoffInv, RecordInv
  <2> HIDE DEF v
  <2> QED BY <1>1, <1>3, <1>5, <2>1, <2>2
<1> QED BY <1>2, <1>4, <1>5 DEF Rebind
-----------------------------------------------------------------------------
\* The steps that change more than what a coordinator holds.
LEMMA StepKeeps ==
    ASSUME HandoffInv, NEW c \in Coordinators, NEW w \in Worker, Become(c, w),
           TypeOK', AdoptedIsFloor', StoreInv', RecordInv', Claim(c)', Known(c)',
           StoreAdvances, AuthorityAdvances, history \subseteq history',
           authority' # authority => authority'.holder \in {c, Nobody, Operator},
           <<readiness, history>>' # <<readiness, history>> => Current(c)
    PROVE  HandoffInv'
<1>1. ASSUME NEW d \in Coordinators, d # c PROVE Claim(d)' /\ Known(d)'
  <2>1. worker'[d] = worker[d]
    BY <1>1 DEF HandoffInv, TypeOK, Become
  <2>2. Current(d)' => Current(d)
    BY <1>1, <2>1, ProcessesAreNamed DEF Current
  <2>3. Current(d) => readiness' = readiness /\ history' = history
    BY <1>1 DEF Current
  <2> QED BY <2>1, <2>2, <2>3, OthersKeep
<1> QED BY <1>1 DEF HandoffInv

LEMMA StoreStands ==
    ASSUME HandoffInv, UNCHANGED store
    PROVE  StoreAdvances
BY LoneTypes DEF StoreAdvances

LEMMA AcquireKeeps ==
    ASSUME HandoffInv, NEW c \in Coordinators, Acquire(c)
    PROVE  HandoffInv'
<1> DEFINE e == authority.epoch + 1
           job == IF c \in Residents THEN "handoff" ELSE "dispatch"
           v == [Off EXCEPT !.pc = "begin", !.epoch = e, !.job = job]
<1>1. /\ authority' = [epoch |-> e, holder |-> c] /\ authority.epoch < MaxEpoch
      /\ Become(c, v) /\ UNCHANGED <<readiness, history, ready, store, put>>
  BY DEF Acquire, destination
<1>2. e \in Epochs /\ authority.epoch \in Nat
  BY <1>1, HeldTypes, BoundsType DEF Epochs
<1>3. /\ v \in Worker /\ v.pc = "begin" /\ v.epoch = e /\ v.record = NoRecord
      /\ v.store = NoStore
  BY <1>2, OffType DEF Off, Worker, Steps
<1> HIDE DEF v
<1>4. spent' \in [visits : 0..MaxVisits, takeovers : 0..MaxTakeovers, errors : 0..MaxErrors,
                  losses : 0..MaxLosses] /\ spent'.losses = spent.losses
  BY BoundsType DEF Acquire, HandoffInv, TypeOK
<1>5. TypeOK' /\ worker'[c] = v
  BY <1>1, <1>2, <1>3, <1>4 DEF HandoffInv, TypeOK, Become
<1>6. AdoptedIsFloor' /\ StoreInv' /\ RecordInv'
  BY <1>1, <1>2, <1>4, HeldTypes DEF HandoffInv, AdoptedIsFloor, StoreInv, RecordInv
<1>7. Claim(c)' /\ Known(c)'
  BY <1>1, <1>2, <1>3, <1>5, HeldTypes, RecordFields, RestingHolds
<1>8. StoreAdvances /\ AuthorityAdvances
  BY <1>1, <1>2, StoreStands DEF AuthorityAdvances
<1> QED BY <1>1, <1>3, <1>5, <1>6, <1>7, <1>8, StepKeeps

LEMMA ReleaseKeeps ==
    ASSUME HandoffInv, NEW c \in Coordinators, Release(c)
    PROVE  HandoffInv'
<1>1. /\ authority' = IF Current(c) THEN [authority EXCEPT !.holder = Nobody] ELSE authority
      /\ Become(c, Off) /\ UNCHANGED <<readiness, history, ready, store, put, spent>>
  BY DEF Release, destination
<1>2. TypeOK' /\ worker'[c] = Off /\ authority'.epoch = authority.epoch
      /\ (authority' # authority => authority'.holder = Nobody)
  BY <1>1, OffType DEF HandoffInv, TypeOK, Become
<1>3. AdoptedIsFloor' /\ StoreInv' /\ RecordInv'
  BY <1>1, <1>2 DEF HandoffInv, AdoptedIsFloor, StoreInv, RecordInv
<1>4. Claim(c)' /\ Known(c)'
  BY <1>1, <1>2, OffType, RecordFields, HeldTypes, RestingHolds
<1>5. StoreAdvances /\ AuthorityAdvances
  BY <1>1, <1>2, StoreStands, HeldTypes DEF AuthorityAdvances
<1> QED BY <1>1, <1>2, <1>3, <1>4, <1>5, OffType, StepKeeps

LEMMA InterruptKeeps ==
    ASSUME HandoffInv, NEW c \in Coordinators, Interrupt(c)
    PROVE  HandoffInv'
<1>1. PICK v \in {Off, Step(c, "leave")} : Become(c, v)
  BY DEF Interrupt
<1>2. UNCHANGED <<authority, readiness, history, ready, store, put>>
  BY DEF Interrupt, control, destination
<1>3. /\ v \in Worker /\ v.pc \in {"off", "leave"} /\ v.epoch <= authority.epoch
      /\ v.record = NoRecord \/ v.record.store # NoStore
      /\ {v.store, v.record.store} \subseteq 0..store.made
  <2>1. CASE v = Off
    BY <2>1, OffType, RecordFields, HeldTypes
  <2>2. CASE v = Step(c, "leave")
    <3>1. /\ v \in Worker /\ v.pc = "leave" /\ v.epoch = worker[c].epoch
          /\ v.record = worker[c].record /\ v.store = worker[c].store
      BY <2>2, HeldTypes DEF Step, Worker, Steps
    <3> QED BY <3>1, HeldTypes DEF Claim
  <2> QED BY <1>1, <2>1, <2>2
<1>4. spent' \in [visits : 0..MaxVisits, takeovers : 0..MaxTakeovers, errors : 0..MaxErrors,
                  losses : 0..MaxLosses] /\ spent'.losses = spent.losses
  BY BoundsType DEF Interrupt, HandoffInv, TypeOK
<1>5. TypeOK' /\ worker'[c] = v
  BY <1>1, <1>2, <1>3, <1>4 DEF HandoffInv, TypeOK, Become
<1>6. AdoptedIsFloor' /\ StoreInv' /\ RecordInv'
  BY <1>2, <1>4 DEF HandoffInv, AdoptedIsFloor, StoreInv, RecordInv
<1>7. Claim(c)' /\ Known(c)'
  BY <1>2, <1>3, <1>5, RestingHolds
<1>8. StoreAdvances /\ AuthorityAdvances
  BY <1>2, StoreStands, HeldTypes DEF AuthorityAdvances
<1> QED BY <1>1, <1>2, <1>3, <1>5, <1>6, <1>7, <1>8, StepKeeps

\* A step of the operator, or the loss of the volume: no coordinator takes part.
LEMMA IdleKeeps ==
    ASSUME HandoffInv, TypeOK', StoreInv', AdoptedIsFloor',
           UNCHANGED <<readiness, history, worker>>, StoreAdvances, AuthorityAdvances,
           authority' # authority => authority'.holder \in {Nobody, Operator}
    PROVE  HandoffInv'
<1>1. ASSUME NEW d \in Coordinators PROVE Claim(d)' /\ Known(d)'
  <2>1. Current(d)' => Current(d)
    BY ProcessesAreNamed DEF Current
  <2> QED BY <2>1, OthersKeep
<1>2. RecordInv'
  BY LoneTypes, BoundsType DEF HandoffInv, TypeOK, RecordInv, StoreAdvances, Stores
<1> QED BY <1>1, <1>2 DEF HandoffInv

LEMMA OperatorKeeps ==
    ASSUME HandoffInv, TakeOver \/ ReleaseTakeover
    PROVE  HandoffInv'
<1>1. UNCHANGED <<readiness, history, ready, store, put, worker>>
  BY DEF TakeOver, ReleaseTakeover, destination
<1>2. authority \in [epoch : Epochs, holder : Coordinators \cup {Nobody, Operator}]
  BY DEF HandoffInv, TypeOK
<1>3. /\ authority' \in [epoch : Epochs, holder : Coordinators \cup {Nobody, Operator}]
      /\ authority'.epoch >= authority.epoch
      /\ authority'.holder \in {Nobody, Operator}
  BY <1>2, BoundsType DEF TakeOver, ReleaseTakeover, Epochs
<1>4. spent' \in [visits : 0..MaxVisits, takeovers : 0..MaxTakeovers, errors : 0..MaxErrors,
                  losses : 0..MaxLosses] /\ spent'.losses = spent.losses
  BY BoundsType DEF TakeOver, ReleaseTakeover, HandoffInv, TypeOK
<1>5. TypeOK'
  BY <1>1, <1>3, <1>4 DEF HandoffInv, TypeOK
<1>6. AdoptedIsFloor' /\ StoreInv'
  BY <1>1, <1>2, <1>3, <1>4, HeldTypes, BoundsType
     DEF HandoffInv, TypeOK, AdoptedIsFloor, StoreInv, Epochs
<1>7. StoreAdvances /\ AuthorityAdvances
  BY <1>1, <1>3, StoreStands DEF AuthorityAdvances
<1> QED BY <1>1, <1>3, <1>5, <1>6, <1>7, IdleKeeps

LEMMA LoseVolumeKeeps ==
    ASSUME HandoffInv, LoseVolume
    PROVE  HandoffInv'
<1>1. /\ UNCHANGED <<authority, readiness, history, ready, put, worker>>
      /\ store' = [store EXCEPT !.identity = NoStore, !.barrier = 0]
      /\ spent' = [spent EXCEPT !.losses = @ + 1]
      /\ store.identity # NoStore /\ spent.losses < MaxLosses
  BY DEF LoseVolume, control
<1>2. /\ store' \in [identity : Stores, barrier : Epochs, made : Stores]
      /\ store'.identity = NoStore /\ store'.barrier = 0 /\ store'.made = store.made
  <2>1. 0 \in Stores /\ 0 \in Epochs
    BY BoundsType DEF Stores, Epochs
  <2>2. store \in [identity : Stores, barrier : Epochs, made : Stores]
    BY DEF HandoffInv, TypeOK
  <2> QED BY <1>1, <2>1, <2>2
<1>3. /\ spent' \in [visits : 0..MaxVisits, takeovers : 0..MaxTakeovers, errors : 0..MaxErrors,
                     losses : 0..MaxLosses]
      /\ spent'.losses = spent.losses + 1 /\ spent.losses \in Nat
  BY <1>1, BoundsType DEF HandoffInv, TypeOK
<1>4. TypeOK'
  BY <1>1, <1>2, <1>3 DEF HandoffInv, TypeOK
<1>5. AdoptedIsFloor' /\ StoreInv'
  <2>1. /\ store.made = spent.losses + 1 /\ authority.epoch \in Nat
        /\ store.made \in Nat
    BY <1>1, LoneTypes DEF HandoffInv, StoreInv
  <2>2. Adopted(readiness) => readiness.store # NoStore
    BY RecordFields, LoneTypes DEF HandoffInv, RecordInv
  <2>3. StoreInv'
    BY <1>1, <1>2, <1>3, <2>1 DEF StoreInv
  <2>4. AdoptedIsFloor'
    BY <1>1, <1>2, <2>2 DEF AdoptedIsFloor
  <2> QED BY <2>3, <2>4
<1>6. StoreAdvances /\ AuthorityAdvances
  BY <1>1, <1>2, LoneTypes DEF StoreAdvances, AuthorityAdvances
<1> QED BY <1>1, <1>4, <1>5, <1>6, IdleKeeps

\* What a step of c changes when it leaves the record and the authority alone.
LEMMA StoreStepKeeps ==
    ASSUME HandoffInv, NEW c \in Coordinators, NEW w \in Worker, Become(c, w),
           UNCHANGED <<authority, readiness, history, ready, put, spent>>,
           store' \in [identity : Stores, barrier : Epochs, made : Stores],
           AdoptedIsFloor', StoreInv', RecordInv', StoreAdvances, Claim(c)', Known(c)'
    PROVE  HandoffInv'
<1>1. TypeOK'
  BY DEF HandoffInv, TypeOK, Become
<1> QED BY <1>1, StepKeeps, HeldTypes DEF AuthorityAdvances

LEMMA AdoptKeeps ==
    ASSUME HandoffInv, NEW c \in Coordinators, Adopt(c)
    PROVE  HandoffInv'
<1> DEFINE w == worker[c]
           pc == IF w.job = "handoff" THEN "acknowledge" ELSE "request"
           v == Step(c, pc)
<1>1. /\ w.pc = "adopt" /\ w.store # NoStore /\ w.store \in 0..store.made
      /\ w.epoch <= authority.epoch
      /\ w.record = NoRecord \/ w.record.store # NoStore
      /\ {w.store, w.record.store} \subseteq 0..store.made
      /\ w.job = "handoff" => w.record = NoRecord \/ w.record.store = w.store
      /\ Current(c) => /\ w.job = "handoff" => history \subseteq {w.store}
                       /\ w.job = "dispatch" =>
                             readiness = NoRecord
                             \/ (Adopted(readiness) /\ w.store = readiness.store)
  BY HeldTypes DEF Adopt, At, Claim, Known, Opening
<1>2. CASE Fails(c)
  BY <1>2, LeavingKeeps
<1>3. CASE /\ MayAdopt(c) /\ store' = [store EXCEPT !.barrier = w.epoch]
           /\ Become(c, v) /\ UNCHANGED <<control, put, spent>>
  <2>1. UNCHANGED <<authority, readiness, history, ready, put, spent>>
    BY <1>3 DEF control
  <2>2. /\ v \in Worker /\ v.pc = pc /\ v.job = w.job /\ v.record = w.record
        /\ v.store = w.store /\ v.epoch = w.epoch
    BY HeldTypes DEF Step, Worker, Steps
  <2>3. /\ store' \in [identity : Stores, barrier : Epochs, made : Stores]
        /\ store'.identity = store.identity /\ store'.made = store.made
        /\ store'.barrier = w.epoch /\ store.barrier <= w.epoch
    BY <1>3, HeldTypes DEF HandoffInv, TypeOK, MayAdopt
  <2>4. worker'[c] = v
    BY <1>3 DEF HandoffInv, TypeOK, Become
  <2> HIDE DEF v
  <2>5. AdoptedIsFloor' /\ StoreInv' /\ RecordInv'
    BY <1>1, <2>1, <2>3, HeldTypes, RecordFields, BoundsType
       DEF HandoffInv, AdoptedIsFloor, StoreInv, RecordInv, Epochs
  <2>6. StoreAdvances
    BY <2>3, HeldTypes DEF StoreAdvances
  <2>7. AdoptedBy(c)'
    BY <2>2, <2>3, <2>4, HeldTypes DEF AdoptedBy
  <2>8. Claim(c)'
    BY <1>1, <2>1, <2>2, <2>3, <2>4, <2>7, HeldTypes DEF Claim, Opening
  <2>9. Known(c)'
    <3>1. Current(c)' => Current(c)
      BY <2>1, <2>2, <2>4 DEF Current
    <3> QED BY <1>1, <2>1, <2>2, <2>4, <3>1 DEF Known, Opening
  <2> QED BY <1>3, <2>1, <2>2, <2>3, <2>5, <2>6, <2>8, <2>9, StoreStepKeeps DEF v
<1> QED BY <1>2, <1>3 DEF Adopt

\* Where c goes on after it opened store s.
LEMMA OpenedHolds ==
    ASSUME HandoffInv, NEW c \in Coordinators, At(c, "open"), NEW s \in 1..store'.made,
           s \in Stores, worker[c].store \in {NoStore, s}, worker'[c] = Opened(c, s),
           UNCHANGED <<authority, readiness, history>>, store'.made \in Nat,
           store'.made >= store.made
    PROVE  Opened(c, s) \in Worker /\ Claim(c)' /\ Known(c)'
<1> DEFINE w == worker[c]
           v == Opened(c, s)
<1>1. /\ w.pc = "open" /\ w.epoch <= authority.epoch
      /\ w.record = NoRecord \/ w.record.store # NoStore
      /\ {w.store, w.record.store} \subseteq 0..store.made
      /\ w.job = "handoff" => w.record = NoRecord \/ w.record.store = w.store
  BY HeldTypes DEF At, Claim
<1>2. /\ v \in Worker /\ v.pc = AfterOpen(w) /\ v.job = w.job /\ v.record = w.record
      /\ v.store = s /\ v.epoch = w.epoch
  BY HeldTypes DEF Opened, Step, Worker, Steps, AfterOpen
<1>3. s # NoStore /\ (w.store = NoStore \/ w.store = s)
  BY HeldTypes
<1>4. v.pc \in {"prepare", "adopt"} /\ (v.pc = "prepare" => v.job = "handoff")
  BY <1>2 DEF AfterOpen
<1> HIDE DEF v
<1>5. Claim(c)'
  BY <1>1, <1>2, <1>3, <1>4, HeldTypes DEF Claim, Opening, v
<1>6. Known(c)'
  <2>1. Current(c)' => Current(c)
    BY <1>2 DEF Current, v
  <2>2. ASSUME Current(c), w.job = "handoff" PROVE history \subseteq {s}
    BY <1>1, <1>3, <2>2, HeldTypes DEF HandoffInv, RecordInv, Known
  <2>3. ASSUME Current(c), w.job = "dispatch"
        PROVE  readiness = NoRecord \/ (Adopted(readiness) /\ s = readiness.store)
    <3>1. readiness = NoRecord \/ readiness.store # NoStore
      BY HeldTypes DEF HandoffInv, RecordInv
    <3> QED BY <1>1, <1>3, <2>3, <3>1, HeldTypes DEF Known
  <2> QED BY <1>2, <1>4, <2>1, <2>2, <2>3, HeldTypes DEF Known, Opening, v
<1> QED BY <1>2, <1>5, <1>6 DEF v

LEMMA OpenKeeps ==
    ASSUME HandoffInv, NEW c \in Coordinators, Open(c)
    PROVE  HandoffInv'
<1> DEFINE w == worker[c]
           n == store.made + 1
<1>1. At(c, "open") /\ w.epoch <= authority.epoch
  BY HeldTypes DEF Open, Claim
<1>2. CASE Fails(c)
  BY <1>2, LeavingKeeps
<1>3. CASE /\ w.store \in {NoStore, store.identity} /\ store.identity # NoStore
           /\ Goto(c, Opened(c, store.identity))
  <2>1. store.identity \in 1..store.made /\ store.identity \in Stores
    BY <1>3, HeldTypes DEF HandoffInv, StoreInv, Stores
  <2>2. worker'[c] = Opened(c, store.identity) /\ UNCHANGED <<authority, readiness, history, store>>
    BY <1>3, GotoHolds
  <2>3. Opened(c, store.identity) \in Worker /\ Claim(c)' /\ Known(c)'
    BY <1>1, <1>3, <2>1, <2>2, HeldTypes, OpenedHolds
  <2> QED BY <1>3, <2>3, GotoKeeps
<1>4. CASE /\ w.store = NoStore /\ store.identity = NoStore
           /\ store' = [identity |-> n, barrier |-> w.epoch, made |-> n]
           /\ Become(c, Opened(c, store'.identity)) /\ UNCHANGED <<control, put, spent>>
  <2>1. UNCHANGED <<authority, readiness, history, ready, put, spent>>
    BY <1>4 DEF control
  <2>2. n \in Stores /\ n \in Nat /\ n > store.made /\ spent.losses \in Nat
    BY <1>4, BoundsType DEF HandoffInv, TypeOK, StoreInv, Stores
  <2>3. /\ store' \in [identity : Stores, barrier : Epochs, made : Stores]
        /\ store'.identity = n /\ store'.made = n /\ store'.barrier = w.epoch
    BY <1>4, <2>2, HeldTypes
  <2>4. worker'[c] = Opened(c, n) /\ Become(c, Opened(c, n))
    BY <1>4, <2>3 DEF HandoffInv, TypeOK, Become
  <2>5. Opened(c, n) \in Worker /\ Claim(c)' /\ Known(c)'
    <3>1. n \in 1..store'.made /\ w.store \in {NoStore, n} /\ store'.made \in Nat
          /\ store'.made >= store.made
      BY <1>4, <2>2, <2>3, HeldTypes
    <3> QED BY <1>1, <2>1, <2>2, <2>4, <3>1, OpenedHolds
  <2>6. StoreInv'
    BY <1>1, <1>4, <2>1, <2>2, <2>3 DEF HandoffInv, StoreInv
  <2>7. RecordInv' /\ AdoptedIsFloor'
    <3>1. readiness = NoRecord \/ readiness.store # n
      BY <2>2, HeldTypes DEF HandoffInv, RecordInv
    <3>2. history \subseteq 1..n
      BY <2>2, HeldTypes DEF HandoffInv, RecordInv
    <3>3. readiness # NoRecord => readiness.store \in 1..n /\ history \subseteq {readiness.store}
      BY <2>2, HeldTypes DEF HandoffInv, RecordInv
    <3> QED BY <2>1, <2>3, <3>1, <3>2, <3>3, RecordFields DEF RecordInv, AdoptedIsFloor
  <2>8. StoreAdvances
    BY <2>2, <2>3, HeldTypes DEF StoreAdvances
  <2> QED BY <2>1, <2>3, <2>4, <2>5, <2>6, <2>7, <2>8, StoreStepKeeps
<1> QED BY <1>2, <1>3, <1>4 DEF Open

LEMMA WriteKeeps ==
    ASSUME HandoffInv, NEW c \in Coordinators, WriteTransition(c)
    PROVE  HandoffInv'
<1> DEFINE w == worker[c]
           v == Step(c, "confirm")
<1>1. /\ w.pc = "write" /\ w.job = "handoff" /\ w.store # NoStore
      /\ w.epoch <= authority.epoch
      /\ {w.store, w.record.store} \subseteq 0..store.made
      /\ w.record = NoRecord \/ w.record.store # NoStore
      /\ w.record = NoRecord \/ w.record.store = w.store
      /\ \/ w.next = Candidate(c, "PREPARING") /\ ~Adopted(w.record)
         \/ w.next = Candidate(c, "ADOPTED") /\ AdoptedBy(c)
      /\ Current(c) => history \subseteq {w.store}
  BY HeldTypes DEF WriteTransition, At, Claim, Known, Opening
<1>2. /\ UNCHANGED <<authority, history, ready, store, put>> /\ Become(c, v)
      /\ \/ readiness' = readiness
         \/ readiness' = w.next /\ Current(c) /\ readiness = w.record
  BY DEF WriteTransition, TransitionHolds, destination
<1>3. /\ v \in Worker /\ v.pc = "confirm" /\ v.job = w.job /\ v.record = w.record
      /\ v.store = w.store /\ v.epoch = w.epoch /\ v.next = w.next
  BY HeldTypes DEF Step, Worker, Steps
<1>4. spent' \in [visits : 0..MaxVisits, takeovers : 0..MaxTakeovers, errors : 0..MaxErrors,
                  losses : 0..MaxLosses] /\ spent'.losses = spent.losses
  BY BoundsType DEF WriteTransition, HandoffInv, TypeOK
<1> HIDE DEF v
<1>5. TypeOK' /\ worker'[c] = v
  BY <1>2, <1>3, <1>4, HeldTypes DEF HandoffInv, TypeOK, Become
<1>6. StoreInv'
  BY <1>2, <1>4 DEF HandoffInv, StoreInv
<1>7. AdoptedIsFloor' /\ RecordInv'
  <2>1. CASE readiness' = readiness
    BY <1>2, <2>1 DEF HandoffInv, AdoptedIsFloor, RecordInv
  <2>2. CASE readiness' = w.next /\ Current(c)
    <3>1. w.next.store = w.store /\ w.store \in 1..store.made /\ history \subseteq {w.store}
      BY <1>1, <2>2, HeldTypes DEF Candidate
    <3>2. Adopted(w.next) => w.next.epoch = w.epoch /\ AdoptedBy(c)
      BY <1>1 DEF Candidate, Adopted
    <3>3. RecordInv'
      BY <1>2, <2>2, <3>1 DEF HandoffInv, RecordInv
    <3>4. AdoptedIsFloor'
      BY <1>2, <2>2, <3>1, <3>2 DEF AdoptedIsFloor, AdoptedBy, Adopted
    <3> QED BY <3>3, <3>4
  <2> QED BY <1>2, <2>1, <2>2
<1>8. Claim(c)'
  <2>1. \/ w.next = Candidate(c, "PREPARING")' /\ ~Adopted(w.record)
        \/ w.next = Candidate(c, "ADOPTED")' /\ AdoptedBy(c)'
    BY <1>1, <1>2, <1>3, <1>5 DEF Candidate, AdoptedBy
  <2> QED BY <1>1, <1>2, <1>3, <1>5, <2>1 DEF Claim, Opening
<1>9. Known(c)'
  <2>1. Current(c)' => Current(c)
    BY <1>2, <1>3, <1>5 DEF Current
  <2> QED BY <1>1, <1>2, <1>3, <1>5, <2>1 DEF Known, Opening
<1>10. StoreAdvances /\ AuthorityAdvances
  BY <1>2, StoreStands, LoneTypes DEF AuthorityAdvances
<1>11. history' = history /\ (readiness' # readiness => Current(c)) /\ authority' = authority
  BY <1>2
<1> QED BY <1>2, <1>3, <1>5, <1>6, <1>7, <1>8, <1>9, <1>10, <1>11, StepKeeps

LEMMA PublishKeeps ==
    ASSUME HandoffInv, NEW c \in Coordinators, Publish(c)
    PROVE  HandoffInv'
<1>1. CASE Leave(c)
  BY <1>1, LeavingKeeps
<1>2. CASE ~Leave(c)
  <2>1. PICK pc \in {"serve", "leave"} : Become(c, Step(c, pc))
    BY <1>2 DEF Publish
  <2>2. UNCHANGED <<authority, readiness, history, store, put>> /\ ready' = worker[c].epoch
    BY <1>2 DEF Publish, destination
  <2>3. spent' \in [visits : 0..MaxVisits, takeovers : 0..MaxTakeovers, errors : 0..MaxErrors,
                    losses : 0..MaxLosses] /\ spent'.losses = spent.losses
    BY <1>2, BoundsType DEF Publish, HandoffInv, TypeOK
  <2>4. /\ Step(c, pc) \in Worker /\ Step(c, pc).pc = pc
        /\ Step(c, pc).record = worker[c].record /\ Step(c, pc).store = worker[c].store
        /\ Step(c, pc).epoch = worker[c].epoch
    BY HeldTypes DEF Step, Worker, Steps
  <2>5. TypeOK' /\ worker'[c] = Step(c, pc)
    BY <2>1, <2>2, <2>3, <2>4, HeldTypes DEF HandoffInv, TypeOK, Become
  <2>6. AdoptedIsFloor' /\ StoreInv' /\ RecordInv'
    BY <2>2, <2>3 DEF HandoffInv, AdoptedIsFloor, StoreInv, RecordInv
  <2>7. Claim(c)' /\ Known(c)'
    <3>1. /\ worker[c].epoch <= authority.epoch
          /\ worker[c].record = NoRecord \/ worker[c].record.store # NoStore
          /\ {worker[c].store, worker[c].record.store} \subseteq 0..store.made
      BY HeldTypes DEF Claim
    <3> QED BY <2>2, <2>4, <2>5, <3>1, RestingHolds
  <2>8. StoreAdvances /\ AuthorityAdvances
    BY <2>2, StoreStands, LoneTypes DEF AuthorityAdvances
  <2> QED BY <2>1, <2>2, <2>4, <2>5, <2>6, <2>7, <2>8, StepKeeps
<1> QED BY <1>1, <1>2

LEMMA RequestKeeps ==
    ASSUME HandoffInv, NEW c \in Coordinators, RequestEffect(c)
    PROVE  HandoffInv'
<1> DEFINE w == worker[c]
           v == Step(c, "put")
<1>1. /\ w.pc = "request" /\ w.job = "dispatch" /\ w.store # NoStore
      /\ w.epoch <= authority.epoch
      /\ {w.store, w.record.store} \subseteq 0..store.made
      /\ w.record = NoRecord \/ w.record.store # NoStore
      /\ Current(c) => readiness = NoRecord \/ (Adopted(readiness) /\ w.store = readiness.store)
  BY HeldTypes DEF RequestEffect, At, Claim, Known, Opening
<1>2. CASE Leave(c)
  BY <1>2, LeavingKeeps
<1>3. CASE Current(c) /\ ~Leave(c)
  <2>1. /\ history' = history \cup {w.store} /\ Become(c, v)
        /\ UNCHANGED <<authority, readiness, ready, store, put, spent>>
    BY <1>3 DEF RequestEffect, destination
  <2>2. /\ v \in Worker /\ v.pc = "put" /\ v.job = w.job /\ v.record = w.record
        /\ v.store = w.store /\ v.epoch = w.epoch
    BY HeldTypes DEF Step, Worker, Steps
  <2> HIDE DEF v
  <2>3. TypeOK' /\ worker'[c] = v
    BY <2>1, <2>2, HeldTypes DEF HandoffInv, TypeOK, Become
  <2>4. AdoptedIsFloor' /\ StoreInv' /\ RecordInv'
    <3>1. w.store \in 1..store.made
      BY <1>1, HeldTypes
    <3> QED BY <1>1, <1>3, <2>1, <3>1 DEF HandoffInv, AdoptedIsFloor, StoreInv, RecordInv
  <2>5. Claim(c)' /\ Known(c)'
    BY <1>1, <2>1, <2>2, <2>3 DEF Claim, Known, Opening
  <2>6. StoreAdvances /\ AuthorityAdvances
    BY <2>1, StoreStands, LoneTypes DEF AuthorityAdvances
  <2> QED BY <1>3, <2>1, <2>2, <2>3, <2>4, <2>5, <2>6, StepKeeps
<1> QED BY <1>2, <1>3 DEF RequestEffect

LEMMA PutKeeps ==
    ASSUME HandoffInv, NEW c \in Coordinators, Put(c)
    PROVE  HandoffInv'
<1> DEFINE w == worker[c]
           pc == IF c \in Residents THEN "serve" ELSE "leave"
           v == Step(c, pc)
<1>1. CASE Fails(c)
  BY <1>1, LeavingKeeps
<1>2. CASE ~Fails(c)
  <2>1. /\ put' = [epoch |-> w.epoch, store |-> w.store] /\ Become(c, v)
        /\ UNCHANGED <<authority, readiness, history, ready, store, spent>>
    BY <1>2 DEF Put, control
  <2>2. /\ v \in Worker /\ v.pc = pc /\ v.record = w.record
        /\ v.store = w.store /\ v.epoch = w.epoch
    BY HeldTypes DEF Step, Worker, Steps
  <2> HIDE DEF v
  <2>3. TypeOK' /\ worker'[c] = v
    BY <2>1, <2>2, HeldTypes DEF HandoffInv, TypeOK, Become
  <2>4. AdoptedIsFloor' /\ StoreInv' /\ RecordInv'
    BY <2>1 DEF HandoffInv, AdoptedIsFloor, StoreInv, RecordInv
  <2>5. Claim(c)' /\ Known(c)'
    <3>1. /\ w.epoch <= authority.epoch
          /\ w.record = NoRecord \/ w.record.store # NoStore
          /\ {w.store, w.record.store} \subseteq 0..store.made
      BY HeldTypes DEF Claim
    <3> QED BY <2>1, <2>2, <2>3, <3>1, RestingHolds
  <2>6. StoreAdvances /\ AuthorityAdvances
    BY <2>1, StoreStands, LoneTypes DEF AuthorityAdvances
  <2> QED BY <2>1, <2>2, <2>3, <2>4, <2>5, <2>6, StepKeeps
<1> QED BY <1>1, <1>2 DEF Put

LEMMA StutterKeeps ==
    ASSUME HandoffInv, UNCHANGED vars
    PROVE  HandoffInv'
BY DEF HandoffInv, TypeOK, AdoptedIsFloor, StoreInv, RecordInv, Claim, Known, Candidate,
       AdoptedBy, Current, vars, control, destination

LEMMA HandoffInit == Init => HandoffInv
<1> SUFFICES ASSUME Init PROVE HandoffInv
  OBVIOUS
<1>1. TypeOK
  BY BoundsType, OffType, RecordFields DEF Init, TypeOK, Epochs, Stores
<1>2. AdoptedIsFloor /\ StoreInv /\ RecordInv
  BY RecordFields DEF Init, AdoptedIsFloor, StoreInv, RecordInv
<1>3. ASSUME NEW c \in Coordinators PROVE Claim(c) /\ Known(c)
  BY OffType, RecordFields DEF Init, Claim, Known, Opening
<1> QED BY <1>1, <1>2, <1>3 DEF HandoffInv

LEMMA HandoffNext == HandoffInv /\ [Next]_vars => HandoffInv'
<1> SUFFICES ASSUME HandoffInv, [Next]_vars PROVE HandoffInv'
  OBVIOUS
<1>1. ASSUME NEW c \in Coordinators, Work(c) PROVE HandoffInv'
  BY <1>1, AcquireKeeps, ReleaseKeeps, ReadRetainedKeeps, InventoryKeeps, PreflightKeeps,
     OpenKeeps, PrepareKeeps, AdoptKeeps, AcknowledgeKeeps, WriteKeeps, ConfirmKeeps,
     PublishKeeps, BindKeeps, StartKeeps, RebindKeeps, RequestKeeps, PutKeeps DEF Work
<1>2. ASSUME NEW c \in Coordinators, Interrupt(c) PROVE HandoffInv'
  BY <1>2, InterruptKeeps
<1>3. CASE TakeOver \/ ReleaseTakeover
  BY <1>3, OperatorKeeps
<1>4. CASE LoseVolume
  BY <1>4, LoseVolumeKeeps
<1>5. CASE UNCHANGED vars
  BY <1>5, StutterKeeps
<1> QED BY <1>1, <1>2, <1>3, <1>4, <1>5 DEF Next

LEMMA HandoffHolds == Spec => []HandoffInv
BY HandoffInit, HandoffNext, PTL DEF Spec
-----------------------------------------------------------------------------
(***************************************************************************)
(* Every value stays of its type; in particular the bound on identities,     *)
(* one more than the volumes that may be lost, is never what stops a step    *)
(* (ensureStoreIdentity makes no identity while it finds one).              *)
(***************************************************************************)
THEOREM ReadinessIsTyped == Spec => []TypeOK
BY HandoffHolds, PTL DEF HandoffInv

(***************************************************************************)
(* While the store that the record names is there, a record that says        *)
(* ADOPTED under an epoch is covered by the barrier of the store, whatever    *)
(* coordinators, takeovers, interrupts and unanswered transitions come       *)
(* between the two databases (markAdopted after adoptCoordinatorAuthority).  *)
(***************************************************************************)
THEOREM RecordIsCovered == Spec => []AdoptedIsFloor
BY HandoffHolds, PTL DEF HandoffInv

\* Only the publication publishes READY, and a coordinator that may publish it
\* has the store for itself.
LEMMA ReadyStep ==
    ASSUME HandoffInv, [Next]_vars
    PROVE  ReadyIsAlone
<1> SUFFICES ASSUME ready' # ready
             PROVE  /\ ready' = authority.epoch
                    /\ store.identity = readiness.store => store.barrier = ready'
  BY DEF ReadyIsAlone
<1>1. PICK c \in Coordinators : Publish(c) /\ MayPublish(c) /\ ready' = worker[c].epoch
  <2>1. ~UNCHANGED vars
    BY DEF vars, control
  <2>2. PICK c \in Coordinators : Work(c) \/ Interrupt(c)
    BY <2>1 DEF Next, TakeOver, ReleaseTakeover, LoseVolume, control
  <2>3. Publish(c)
    BY <2>2 DEF Work, Interrupt, Acquire, Release, ReadRetained, Inventory, Preflight, Open,
       Prepare, Adopt, Acknowledge, WriteTransition, ConfirmTransition, Bind, Start, Rebind,
       RequestEffect, Put, Goto, Leave, Fails, control
  <2> QED BY <2>3 DEF Publish, Leave, control
<1>2. /\ authority.epoch = worker[c].epoch /\ readiness = Candidate(c, "ADOPTED")
  BY <1>1, HeldTypes DEF MayPublish, TransitionHolds, Current, Claim, Publish, At
<1>3. Adopted(readiness) /\ readiness.epoch = authority.epoch
  BY <1>2 DEF Candidate, Adopted
<1>4. /\ store.barrier <= authority.epoch
      /\ store.identity = readiness.store => store.barrier >= readiness.epoch
  BY <1>3 DEF HandoffInv, AdoptedIsFloor, StoreInv
<1> QED BY <1>1, <1>2, <1>3, <1>4, LoneTypes

\* A value is written by a coordinator that named the store in the history first.
LEMMA WriterStep ==
    ASSUME HandoffInv, [Next]_vars
    PROVE  WriterIsCurrent
<1> SUFFICES ASSUME put' # put, Adopted(readiness)
             PROVE  put'.epoch >= readiness.epoch /\ put'.store = readiness.store
  BY DEF WriterIsCurrent
<1>1. PICK c \in Coordinators :
         At(c, "put") /\ Fenced(c) /\ put' = [epoch |-> worker[c].epoch, store |-> worker[c].store]
  <2>1. ~UNCHANGED vars
    BY DEF vars, destination
  <2>2. PICK c \in Coordinators : Work(c) \/ Interrupt(c)
    BY <2>1 DEF Next, TakeOver, ReleaseTakeover, LoseVolume, destination
  <2>3. Put(c)
    BY <2>2 DEF Work, Interrupt, Acquire, Release, ReadRetained, Inventory, Preflight, Open,
       Prepare, Adopt, Acknowledge, WriteTransition, ConfirmTransition, Publish, Bind, Start,
       Rebind, RequestEffect, Goto, Leave, Fails, destination
  <2> QED BY <2>3 DEF Put, Fails, destination
<1>2. worker[c].store \in history /\ readiness # NoRecord
  BY <1>1, HeldTypes, RecordFields DEF Claim, At
<1>3. worker[c].store = readiness.store
  BY <1>2 DEF HandoffInv, RecordInv
<1> QED BY <1>1, <1>3 DEF HandoffInv, AdoptedIsFloor, Fenced

\* The record changes by a transition only, and an identity is made by an
\* opening only.
LEMMA PinStep ==
    ASSUME HandoffInv, [Next]_vars
    PROVE  PinIsKept
<1>1. ASSUME readiness' # readiness, readiness # NoRecord
      PROVE  readiness'.store = readiness.store /\ (Adopted(readiness) => Adopted(readiness'))
  <2>1. ~UNCHANGED vars
    BY <1>1 DEF vars, control
  <2>2. PICK c \in Coordinators : Work(c) \/ Interrupt(c)
    BY <1>1, <2>1 DEF Next, TakeOver, ReleaseTakeover, LoseVolume, control
  <2>3. WriteTransition(c)
    BY <1>1, <2>2 DEF Work, Interrupt, Acquire, Release, ReadRetained, Inventory, Preflight,
       Open, Prepare, Adopt, Acknowledge, ConfirmTransition, Publish, Bind, Start, Rebind,
       RequestEffect, Put, Goto, Leave, Fails, control
  <2>4. At(c, "write") /\ readiness' = worker[c].next /\ readiness = worker[c].record
    BY <1>1, <2>3 DEF WriteTransition, TransitionHolds
  <2>5. /\ worker[c].job = "handoff" /\ worker[c].record.store = worker[c].store
        /\ \/ worker[c].next = Candidate(c, "PREPARING") /\ ~Adopted(worker[c].record)
           \/ worker[c].next = Candidate(c, "ADOPTED")
    BY <1>1, <2>4, HeldTypes DEF Claim, At, Opening
  <2> QED BY <2>4, <2>5 DEF Candidate, Adopted
<1>2. ASSUME store'.made > store.made, NEW c \in Coordinators, Current(c),
             worker'[c] # worker[c]
      PROVE  readiness = NoRecord /\ (worker[c].job = "handoff" => history = {})
  <2>1. store' # store
    BY <1>2, LoneTypes
  <2>2. ~UNCHANGED vars
    BY <2>1 DEF vars, destination
  <2>3. ~LoseVolume
    BY <1>2, LoneTypes DEF LoseVolume, HandoffInv, TypeOK
  <2>4. PICK d \in Coordinators : Work(d) \/ Interrupt(d)
    BY <2>1, <2>2, <2>3 DEF Next, TakeOver, ReleaseTakeover, destination
  <2>5. \/ Open(d) /\ worker[d].store = NoStore /\ Become(d, Opened(d, store'.identity))
        \/ Adopt(d) /\ store' = [store EXCEPT !.barrier = worker[d].epoch]
    BY <2>1, <2>4 DEF Work, Interrupt, Acquire, Release, ReadRetained, Inventory, Preflight,
       Open, Adopt, Prepare, WriteTransition, Acknowledge, ConfirmTransition, Publish, Bind,
       Start, Rebind, RequestEffect, Put, Goto, Leave, Fails, destination
  <2>6. Open(d) /\ worker[d].store = NoStore /\ d = c
    <3>1. ~(store' = [store EXCEPT !.barrier = worker[d].epoch])
      BY <1>2, LoneTypes DEF HandoffInv, TypeOK
    <3> QED BY <1>2, <2>5, <3>1 DEF Become, HandoffInv, TypeOK
  <2>7. worker[c].pc = "open" /\ Known(c)
    BY <2>6, HeldTypes DEF Open, At
  <2>8. readiness = NoRecord \/ readiness.store # NoStore
    BY LoneTypes DEF HandoffInv, RecordInv
  <2> QED BY <1>2, <2>6, <2>7, <2>8, LoneTypes, HeldTypes DEF Known, HandoffInv, RecordInv
<1>3. readiness # NoRecord =>
          readiness'.store = readiness.store /\ (Adopted(readiness) => Adopted(readiness'))
  BY <1>1
<1>4. Adopted(readiness) => readiness # NoRecord
  BY RecordFields
<1>5. Adopted(readiness) => Adopted(readiness')
  BY <1>3, <1>4
<1> QED BY <1>2, <1>3, <1>5 DEF PinIsKept

(***************************************************************************)
(* The store has one server (markReady, the fence of a write,                *)
(* writeTransition and ensureStoreIdentity), under every interleaving of any *)
(* number of residents and hosts.                                           *)
(***************************************************************************)
THEOREM OneServer == Spec => StoreHasOneServer
<1>1. HandoffInv /\ [Next]_vars => [ReadyIsAlone /\ WriterIsCurrent /\ PinIsKept]_vars
  BY ReadyStep, WriterStep, PinStep
<1> QED BY <1>1, HandoffHolds, PTL DEF Spec, StoreHasOneServer
-----------------------------------------------------------------------------
(***************************************************************************)
(* The sessions.  A process owns the ledger from the step that found its     *)
(* claim in the row to the step that gives it back.  It is alone because a    *)
(* claim replaces exactly the row that was probed, and the session in that    *)
(* row, once silent, never answers again: an identity is drawn only when      *)
(* nothing mentions it.  That the lifecycle is written by the owner alone     *)
(* then follows, although its transactions do not compare the ownership.      *)
(***************************************************************************)
Processes == Service!Processes

Claiming == {"look", "probe", "listen", "claim", "write"}

Unstarted == Claiming \cup {"reread", "held", "start", "starting"}

\* The identity of a process is its own, and unknown until it is claimed.
Identified(p) ==
    LET w == proc[p] IN
    /\ w.pc # "off" => w.session # 0
    /\ \A q \in Processes :
          /\ q # p /\ w.session = proc[q].session => w.session = 0
          /\ w.pc \in Claiming => w.session # proc[q].prior.session
    /\ w.pc \in Claiming => w.session # ownership.session
    /\ w.pc \in Unstarted => w.session # lifecycle.session

\* What was probed is silent, and whoever claims can be probed.
Probed(p) ==
    LET w == proc[p] IN
    /\ w.pc \in {"listen", "claim", "write"} => w.prior.session \notin listening
    /\ w.pc \in {"claim", "write", "reread"} => w.session \in listening

Owner(p) ==
    LET w == proc[p] IN
    w.pc \in Service!Owning =>
        /\ ownership = w.own
        /\ w.own.session = w.session
        /\ w.session \in listening

\* What an owner holds of the lifecycle.
Serving(p) ==
    LET w == proc[p] IN
    /\ w.pc \in Unstarted => w.life = Service!NoLifecycle
    /\ w.pc \in Service!Owning /\ w.life # Service!NoLifecycle =>
          Service!Mine(p) /\ w.life.session = w.session
    /\ w.pc \in {"started", "ready", "publish", "serve", "stopping", "drain", "stopped", "end"} =>
          w.life # Service!NoLifecycle
    /\ w.pc \in {"serve", "stopped", "end"} => lifecycle = w.life
    /\ w.pc = "publish" => w.seen.status = "STARTING"
    /\ w.pc = "drain" => w.seen.status \in Service!Stoppable
    /\ w.pc = "end" => w.seen.status = "STOPPING"

SessionInv ==
    /\ Service!TypeOK
    /\ \A p \in Processes : Identified(p) /\ Probed(p) /\ Owner(p) /\ Serving(p)

\* The types of what a process holds.
LEMMA SessionTypes ==
    ASSUME SessionInv, NEW p \in Processes
    PROVE  /\ proc[p] \in Service!Proc /\ ownership \in Service!Ownership
           /\ proc[p].session \in Nat /\ proc[p].prior \in Service!Ownership
           /\ proc[p].own \in Service!Ownership /\ proc[p].life \in Service!Lifecycle
           /\ proc[p].seen \in Service!Lifecycle /\ lifecycle \in Service!Lifecycle
           /\ proc[p].session \in Service!Sessions \cup {0} /\ listening \subseteq Service!Sessions
           /\ 0 \notin listening
           /\ Identified(p) /\ Probed(p) /\ Owner(p) /\ Serving(p)
<1>1. /\ proc[p] \in Service!Proc /\ ownership \in Service!Ownership
      /\ lifecycle \in Service!Lifecycle /\ listening \subseteq Service!Sessions
  BY DEF SessionInv, Service!TypeOK, Processes
<1>2. /\ proc[p].prior \in Service!Ownership /\ proc[p].own \in Service!Ownership
      /\ proc[p].life \in Service!Lifecycle /\ proc[p].seen \in Service!Lifecycle
      /\ proc[p].session \in Service!Sessions \cup {0}
  BY <1>1 DEF Service!Proc
<1>3. Service!Sessions \subseteq Nat /\ 0 \notin Service!Sessions
  BY SessionsAreBounded DEF Service!Sessions
<1>4. proc[p].session \in Nat /\ 0 \notin listening
  <2>1. proc[p].session \in Nat
    BY <1>2, SessionsAreBounded DEF Service!Sessions
  <2>2. 0 \notin listening
    BY <1>1, <1>3
  <2> QED BY <2>1, <2>2
<1>5. Identified(p) /\ Probed(p) /\ Owner(p) /\ Serving(p)
  BY DEF SessionInv
<1> QED BY <1>1, <1>2, <1>4, <1>5

LEMMA StepFields ==
    ASSUME SessionInv, NEW p \in Processes, NEW pc \in Service!Steps
    PROVE  /\ Service!Step(p, pc) \in Service!Proc /\ Service!Done(p, pc) \in Service!Proc
           /\ Service!Step(p, pc).pc = pc /\ Service!Done(p, pc).pc = pc
           /\ Service!Step(p, pc).session = proc[p].session
           /\ Service!Done(p, pc).session = proc[p].session
           /\ Service!Step(p, pc).prior = proc[p].prior
           /\ Service!Done(p, pc).prior = Service!NoOwner
           /\ Service!Step(p, pc).own = proc[p].own /\ Service!Done(p, pc).own = proc[p].own
           /\ Service!Step(p, pc).life = proc[p].life /\ Service!Done(p, pc).life = proc[p].life
           /\ Service!Step(p, pc).seen = proc[p].seen
BY SessionTypes DEF Service!Step, Service!Done, Service!Proc, Service!Ownership,
   Service!Lifecycle

LEMMA NobodyFields ==
    /\ Service!NoOwner.session = 0 /\ Service!NoOwner \in Service!Ownership
    /\ Service!NoLifecycle.session = 0 /\ Service!NoLifecycle \in Service!Lifecycle
    /\ Service!Off \in Service!Proc /\ Service!Off.pc = "off" /\ Service!Off.session = 0
    /\ Service!Off.prior = Service!NoOwner
BY DEF Service!NoOwner, Service!Ownership, Service!NoLifecycle, Service!Lifecycle, Service!Off,
   Service!Proc, Service!Steps, Service!Owning

\* Two processes are never owners, and nobody claims what an owner holds.
LEMMA Alone ==
    ASSUME SessionInv, NEW p \in Processes, NEW q \in Processes, q # p,
           proc[q].pc \in Service!Owning,
           proc[p].pc \in Service!Owning \/ (proc[p].pc = "write" /\ ownership = proc[p].prior)
    PROVE  FALSE
<1>1. /\ ownership.session = proc[q].session /\ proc[q].session \in listening
      /\ proc[q].session # 0
  BY SessionTypes DEF Owner
<1>2. CASE proc[p].pc \in Service!Owning
  BY <1>1, <1>2, SessionTypes DEF Owner, Identified
<1>3. CASE proc[p].pc = "write" /\ ownership = proc[p].prior
  BY <1>1, <1>3, SessionTypes DEF Probed
<1> QED BY <1>2, <1>3

\* What a step of p may do to the others.
LEMMA OthersRest ==
    ASSUME SessionInv, NEW p \in Processes, NEW v, Service!Become(p, v), Service!TypeOK',
           v.session \in {0, proc[p].session}
           \/ \A q \in Processes : v.session # proc[q].session,
           v.prior.session \in {0, proc[p].prior.session, ownership.session},
           ownership' = ownership
           \/ /\ ownership'.session \in {0, proc[p].session} /\ proc[p].session # 0
              /\ proc[p].pc \in Service!Owning
                 \/ (proc[p].pc = "write" /\ ownership = proc[p].prior),
           lifecycle' = lifecycle
           \/ /\ proc[p].pc \in Service!Owning
              /\ lifecycle'.session \in {proc[p].session, lifecycle.session},
           listening' \in {listening, listening \ {proc[p].session}}
           \/ (proc[p].pc = "listen" /\ listening' = listening \cup {proc[p].session}),
           NEW q \in Processes, q # p
    PROVE  Identified(q)' /\ Probed(q)' /\ Owner(q)' /\ Serving(q)'
<1>1. proc'[q] = proc[q] /\ proc'[p] = v
  BY DEF Service!Become, SessionInv, Service!TypeOK, Processes
<1>2. \A r \in Processes : r # p => proc'[r] = proc[r]
  BY DEF Service!Become, SessionInv, Service!TypeOK, Processes
<1>3. Identified(q)'
  <2>1. proc[q].session # 0 => proc[q].session # proc[p].session /\ proc[q].session # v.session
    BY SessionTypes DEF Identified
  <2>2. proc[q].pc \in Unstarted => proc[q].session # 0
    BY SessionTypes DEF Identified, Unstarted, Claiming
  <2>3. Claiming \subseteq Unstarted
    BY DEF Unstarted
  <2>4. proc[q].pc \in Claiming => /\ proc[q].session # v.prior.session
                                   /\ proc[q].session # ownership'.session
    BY <2>1, <2>2, <2>3, SessionTypes DEF Identified
  <2>5. proc[q].pc \in Unstarted => proc[q].session # lifecycle'.session
    BY <2>1, <2>2, SessionTypes DEF Identified
  <2>6. \A r \in Processes : r # q /\ proc[q].session = proc'[r].session => proc[q].session = 0
    BY <1>1, <1>2, <2>1, SessionTypes DEF Identified
  <2>7. \A r \in Processes : proc[q].pc \in Claiming => proc[q].session # proc'[r].prior.session
    BY <1>1, <1>2, <2>4, SessionTypes DEF Identified
  <2>8. proc[q].pc # "off" => proc[q].session # 0
    BY SessionTypes DEF Identified
  <2> QED BY <1>1, <2>4, <2>5, <2>6, <2>7, <2>8 DEF Identified
<1>4. proc[q].session \in listening => proc[q].session \in listening'
  <2>1. proc[q].session \in listening => proc[q].session # proc[p].session
    BY SessionTypes DEF Identified
  <2> QED BY <2>1
<1>5. Probed(q)'
  <2>1. proc[p].pc = "listen" => proc[p].session # proc[q].prior.session
    BY SessionTypes DEF Identified, Claiming
  <2> QED BY <1>1, <1>4, <2>1, SessionTypes DEF Probed
<1>6. proc[q].pc \in Service!Owning => ownership' = ownership /\ lifecycle' = lifecycle
  BY Alone
<1>7. Owner(q)'
  BY <1>1, <1>4, <1>6, SessionTypes DEF Owner
<1>8. Serving(q)'
  BY <1>1, <1>6, SessionTypes DEF Serving, Service!Owning, Service!Mine
<1> QED BY <1>3, <1>5, <1>7, <1>8

\* A step of p after it drew its identity.
LEMMA SessionStep ==
    ASSUME SessionInv, NEW p \in Processes, NEW v \in Service!Proc, Service!Become(p, v),
           Service!TypeOK',
           \/ v = Service!Off
           \/ /\ v.session = proc[p].session /\ proc[p].pc # "off"
              /\ v.pc \in Claiming => proc[p].pc \in Claiming /\ ownership' = ownership
              /\ v.pc \in Unstarted => proc[p].pc \in Unstarted /\ lifecycle' = lifecycle,
           v.prior.session \in {0, proc[p].prior.session, ownership.session},
           ownership' = ownership
           \/ /\ ownership'.session \in {0, proc[p].session}
              /\ proc[p].pc \in Service!Owning
                 \/ (proc[p].pc = "write" /\ ownership = proc[p].prior),
           lifecycle' = lifecycle
           \/ /\ proc[p].pc \in Service!Owning
              /\ lifecycle'.session \in {proc[p].session, lifecycle.session},
           listening' \in {listening, listening \ {proc[p].session}}
           \/ (proc[p].pc = "listen" /\ listening' = listening \cup {proc[p].session}),
           Probed(p)', Owner(p)', Serving(p)'
    PROVE  SessionInv'
<1>1. /\ proc'[p] = v /\ \A q \in Processes : q # p => proc'[q] = proc[q]
  BY DEF Service!Become, SessionInv, Service!TypeOK, Processes
<1>2. proc[p].pc = "off" => proc[p].pc \notin Service!Owning \cup {"write"}
  BY DEF Service!Owning
<1>3. ownership' = ownership \/ proc[p].session # 0
  BY <1>2, SessionTypes DEF Identified
<1>4. \A q \in Processes : q # p => Identified(q)' /\ Probed(q)' /\ Owner(q)' /\ Serving(q)'
  BY <1>3, OthersRest, NobodyFields
<1>5. Identified(p)'
  <2>1. CASE v = Service!Off
    BY <1>1, <2>1, NobodyFields, SessionTypes DEF Identified, Unstarted, Claiming
  <2>2. CASE v # Service!Off
    <3>1. v.session = proc[p].session /\ v.session # 0
      BY <2>2, SessionTypes DEF Identified
    <3>2. \A q \in Processes : q # p /\ v.session = proc'[q].session => v.session = 0
      BY <1>1, <3>1, SessionTypes DEF Identified
    <3>3. v.pc \in Claiming => \A q \in Processes : v.session # proc'[q].prior.session
      BY <1>1, <2>2, <3>1, SessionTypes DEF Identified
    <3>4. v.pc \in Claiming => v.session # ownership'.session
      BY <2>2, <3>1, SessionTypes DEF Identified
    <3>5. v.pc \in Unstarted => v.session # lifecycle'.session
      BY <2>2, <3>1, SessionTypes DEF Identified
    <3> QED BY <1>1, <3>1, <3>2, <3>3, <3>4, <3>5 DEF Identified
  <2> QED BY <2>1, <2>2
<1> QED BY <1>4, <1>5 DEF SessionInv

LEMMA SessionGoto ==
    ASSUME SessionInv, NEW p \in Processes, NEW v \in Service!Proc, Service!Goto(p, v),
           \/ v = Service!Off
           \/ /\ v.session = proc[p].session /\ proc[p].pc # "off"
              /\ v.pc \in Claiming => proc[p].pc \in Claiming
              /\ v.pc \in Unstarted => proc[p].pc \in Unstarted,
           v.prior.session \in {0, proc[p].prior.session, ownership.session},
           Probed(p)', Owner(p)', Serving(p)'
    PROVE  SessionInv'
<1>1. Service!Become(p, v) /\ UNCHANGED <<ownership, lifecycle, listening, visits, errors>>
  BY DEF Service!Goto, Service!rows, Service!bounds
<1>2. Service!TypeOK'
  BY <1>1 DEF Service!Become, SessionInv, Service!TypeOK
<1> QED BY <1>1, <1>2, SessionStep

LEMMA GotoIs ==
    ASSUME SessionInv, NEW p \in Processes, NEW v, Service!Goto(p, v)
    PROVE  /\ proc'[p] = v
           /\ UNCHANGED <<ownership, lifecycle, listening, visits, errors>>
BY DEF Service!Goto, Service!Become, Service!rows, Service!bounds, SessionInv,
   Service!TypeOK, Processes

\* Where nothing is held.
LEMMA RestingServes ==
    ASSUME SessionInv, NEW p \in Processes, proc'[p].pc \in {"off", "close"}
    PROVE  Probed(p)' /\ Owner(p)' /\ Serving(p)'
BY DEF Probed, Owner, Serving, Unstarted, Claiming, Service!Owning

LEMMA BeginHolds ==
    ASSUME SessionInv, NEW p \in Processes, Service!Begin(p)
    PROVE  SessionInv'
<1>1. PICK s \in Service!Sessions \ Service!Mentioned :
         Service!Become(p, [Service!Off EXCEPT !.pc = "look", !.session = s])
  BY DEF Service!Begin
<1> DEFINE v == [Service!Off EXCEPT !.pc = "look", !.session = s]
<1>2. UNCHANGED <<ownership, lifecycle, listening, errors>>
  BY DEF Service!Begin, Service!rows
<1>3. /\ v \in Service!Proc /\ v.pc = "look" /\ v.session = s /\ v.prior = Service!NoOwner
      /\ v.life = Service!NoLifecycle
  BY NobodyFields DEF Service!Off, Service!Proc, Service!Steps
<1> HIDE DEF v
<1>4. visits' \in 0..MaxVisits
  BY BoundsType DEF Service!Begin, SessionInv, Service!TypeOK
<1>5. Service!TypeOK' /\ proc'[p] = v
  BY <1>1, <1>2, <1>3, <1>4 DEF v, Service!Become, SessionInv, Service!TypeOK, Processes
<1>6. /\ s # ownership.session /\ s # lifecycle.session /\ s # 0
      /\ \A q \in Processes : s # proc[q].session /\ s # proc[q].prior.session
  <2>1. \A q \in Processes : {proc[q].session, proc[q].prior.session} \subseteq Service!Mentioned
    BY DEF Service!Mentioned, Processes
  <2>2. {ownership.session, lifecycle.session} \subseteq Service!Mentioned
    BY DEF Service!Mentioned
  <2>3. 0 \notin Service!Sessions
    BY SessionsAreBounded DEF Service!Sessions
  <2> QED BY <2>1, <2>2, <2>3
<1>7. \A q \in Processes : q # p => Identified(q)' /\ Probed(q)' /\ Owner(q)' /\ Serving(q)'
  <2>1. Service!Become(p, v)
    BY <1>1 DEF v
  <2> QED BY <1>2, <1>3, <1>5, <1>6, <2>1, OthersRest, NobodyFields
<1>8. Identified(p)'
  <2>1. \A q \in Processes : q # p => proc'[q] = proc[q]
    BY <1>1 DEF Service!Become, SessionInv, Service!TypeOK, Processes
  <2> QED BY <1>2, <1>3, <1>5, <1>6, <2>1, NobodyFields DEF Identified
<1>9. Probed(p)' /\ Owner(p)' /\ Serving(p)'
  BY <1>3, <1>5 DEF Probed, Owner, Serving, Unstarted, Claiming, Service!Owning
<1> QED BY <1>5, <1>7, <1>8, <1>9 DEF SessionInv

LEMMA StepsNamed ==
    /\ Service!Owning \subseteq Service!Steps
    /\ {"look", "probe", "listen", "claim", "write", "reread", "close"} \subseteq Service!Steps
    /\ Service!Owning = {"held", "start", "starting", "started", "ready", "publish", "serve",
                         "stopping", "drain", "stopped", "end", "release", "delete"}
BY DEF Service!Steps, Service!Owning

LEMMA LookHolds ==
    ASSUME SessionInv, NEW p \in Processes, Service!Look(p)
    PROVE  SessionInv'
<1> DEFINE w == proc[p]
           pc == IF ownership = Service!NoOwner THEN "listen" ELSE "probe"
           v == [Service!Step(p, pc) EXCEPT !.prior = ownership]
<1>1. w.pc = "look" /\ Service!Goto(p, v)
  BY DEF Service!Look, Service!At
<1>2. /\ v \in Service!Proc /\ v.pc = pc /\ v.session = w.session /\ v.prior = ownership
      /\ v.life = w.life
  <2>1. pc \in Service!Steps
    BY StepsNamed
  <2> QED BY <2>1, StepFields, SessionTypes DEF Service!Proc
<1> HIDE DEF v
<1>3. proc'[p] = v /\ UNCHANGED <<ownership, lifecycle, listening>>
  BY <1>1, GotoIs
<1>4. Probed(p)'
  BY <1>2, <1>3, NobodyFields, SessionTypes DEF Probed
<1>5. Owner(p)' /\ Serving(p)'
  BY <1>1, <1>2, <1>3, StepsNamed, SessionTypes DEF Owner, Serving, Unstarted, Claiming
<1> QED BY <1>1, <1>2, <1>4, <1>5, SessionGoto DEF Claiming, Unstarted

LEMMA ProbeHolds ==
    ASSUME SessionInv, NEW p \in Processes, Service!Probe(p)
    PROVE  SessionInv'
<1> DEFINE w == proc[p]
           v == Service!Step(p, "listen")
<1>1. w.pc = "probe"
  BY DEF Service!Probe, Service!At
<1>2. CASE Service!Goto(p, Service!Off)
  BY <1>2, GotoIs, NobodyFields, RestingServes, SessionGoto
<1>3. CASE w.prior.session \notin listening /\ Service!Goto(p, v)
  <2>1. /\ v \in Service!Proc /\ v.pc = "listen" /\ v.session = w.session
        /\ v.prior = w.prior /\ v.life = w.life
    BY StepFields, StepsNamed
  <2> HIDE DEF v
  <2>2. proc'[p] = v /\ UNCHANGED <<ownership, lifecycle, listening>>
    BY <1>3, GotoIs
  <2>3. Probed(p)' /\ Owner(p)' /\ Serving(p)'
    BY <1>1, <1>3, <2>1, <2>2, StepsNamed, SessionTypes
       DEF Probed, Owner, Serving, Unstarted, Claiming
  <2> QED BY <1>1, <1>3, <2>1, <2>3, SessionGoto DEF Claiming, Unstarted
<1> QED BY <1>2, <1>3 DEF Service!Probe, Service!ProvenAbsent

LEMMA ListenHolds ==
    ASSUME SessionInv, NEW p \in Processes, Service!Listen(p)
    PROVE  SessionInv'
<1> DEFINE w == proc[p]
           v == Service!Step(p, "claim")
<1>1. /\ w.pc = "listen" /\ listening' = listening \cup {w.session} /\ Service!Become(p, v)
      /\ UNCHANGED <<ownership, lifecycle, visits, errors>>
  BY DEF Service!Listen, Service!At, Service!rows, Service!bounds
<1>2. /\ v \in Service!Proc /\ v.pc = "claim" /\ v.session = w.session
      /\ v.prior = w.prior /\ v.life = w.life
  BY StepFields, StepsNamed
<1> HIDE DEF v
<1>3. w.session \in Service!Sessions /\ w.session # w.prior.session
  BY <1>1, SessionTypes DEF Identified, Claiming
<1>4. Service!TypeOK' /\ proc'[p] = v
  BY <1>1, <1>2, <1>3 DEF Service!Become, SessionInv, Service!TypeOK, Processes
<1>5. Probed(p)'
  BY <1>1, <1>2, <1>3, <1>4, SessionTypes DEF Probed
<1>6. Owner(p)' /\ Serving(p)'
  BY <1>1, <1>2, <1>4, StepsNamed, SessionTypes DEF Owner, Serving, Unstarted, Claiming
<1> QED BY <1>1, <1>2, <1>4, <1>5, <1>6, SessionStep DEF Claiming, Unstarted

LEMMA ClaimHolds ==
    ASSUME SessionInv, NEW p \in Processes, Service!Claim(p)
    PROVE  SessionInv'
<1> DEFINE w == proc[p]
           pc == IF ownership = w.prior THEN "write" ELSE "reread"
           v == Service!Step(p, pc)
<1>1. w.pc = "claim" /\ Service!Goto(p, v)
  BY DEF Service!Claim, Service!At
<1>2. /\ v \in Service!Proc /\ v.pc = pc /\ v.session = w.session
      /\ v.prior = w.prior /\ v.life = w.life
  <2>1. pc \in Service!Steps
    BY StepsNamed
  <2> QED BY <2>1, StepFields
<1> HIDE DEF v
<1>3. proc'[p] = v /\ UNCHANGED <<ownership, lifecycle, listening>>
  BY <1>1, GotoIs
<1>4. Probed(p)' /\ Owner(p)' /\ Serving(p)'
  BY <1>1, <1>2, <1>3, StepsNamed, SessionTypes
     DEF Probed, Owner, Serving, Unstarted, Claiming
<1> QED BY <1>1, <1>2, <1>4, SessionGoto DEF Claiming, Unstarted

LEMMA WriteClaimHolds ==
    ASSUME SessionInv, NEW p \in Processes, Service!WriteClaim(p)
    PROVE  SessionInv'
<1> DEFINE w == proc[p]
           n == Service!Claimed(p)
           h == [Service!Done(p, "held") EXCEPT !.own = n]
           r == Service!Step(p, "reread")
<1>1. w.pc = "write" /\ UNCHANGED <<listening, visits>>
  BY DEF Service!WriteClaim, Service!At
<1>2. /\ UNCHANGED lifecycle /\ errors' \in 0..MaxErrors
      /\ \/ Service!Become(p, h) /\ ownership' = n /\ ownership = w.prior
         \/ Service!Become(p, r) /\ ownership' = n /\ ownership = w.prior
         \/ Service!Become(p, r) /\ ownership' = ownership
  BY BoundsType DEF Service!WriteClaim, Service!Transaction, Service!ClaimHolds, Service!rows,
     Service!Err, SessionInv, Service!TypeOK
<1>3. n \in Service!Ownership /\ n.session = w.session
  <2>1. w.session \in Service!Sessions /\ w.prior.generation + 1 \in Nat \ {0}
    BY <1>1, SessionTypes DEF Identified, Service!Ownership, Service!NoOwner
  <2>2. n = [session |-> w.session, kind |-> Service!Kind(p), generation |-> w.prior.generation + 1]
        /\ Service!Kind(p) \in {"RESIDENT", "MANUAL"}
    BY DEF Service!Claimed, Service!Kind
  <2> QED BY <2>1, <2>2 DEF Service!Ownership
<1> HIDE DEF n
<1>4. /\ h \in Service!Proc /\ h.pc = "held" /\ h.session = w.session /\ h.own = n
      /\ h.prior = Service!NoOwner /\ h.life = w.life
  <2>1. Service!Done(p, "held") \in Service!Proc
    BY StepFields, StepsNamed
  <2> QED BY <1>3, <2>1, StepFields, StepsNamed DEF Service!Proc
<1>5. /\ r \in Service!Proc /\ r.pc = "reread" /\ r.session = w.session
      /\ r.prior = w.prior /\ r.life = w.life
  BY StepFields, StepsNamed
<1> HIDE DEF h, r
<1>6. ASSUME NEW v \in {h, r}, Service!Become(p, v),
             ownership' = ownership \/ (ownership' = n /\ ownership = w.prior),
             v = h => ownership' = n
      PROVE  SessionInv'
  <2>1. Service!TypeOK' /\ proc'[p] = v
    BY <1>1, <1>2, <1>3, <1>4, <1>5, <1>6
       DEF Service!Become, SessionInv, Service!TypeOK, Processes
  <2>2. Probed(p)'
    BY <1>1, <1>4, <1>5, <2>1, SessionTypes DEF Probed
  <2>3. Owner(p)' /\ Serving(p)'
    BY <1>1, <1>3, <1>4, <1>5, <1>6, <2>1, StepsNamed, SessionTypes
       DEF Owner, Serving, Probed, Unstarted, Claiming
  <2> QED BY <1>1, <1>2, <1>3, <1>4, <1>5, <1>6, <2>1, <2>2, <2>3, NobodyFields, SessionStep
          DEF Claiming, Unstarted
<1> QED BY <1>2, <1>4, <1>5, <1>6

LEMMA RereadHolds ==
    ASSUME SessionInv, NEW p \in Processes, Service!Reread(p)
    PROVE  SessionInv'
<1> DEFINE w == proc[p]
           h == [Service!Done(p, "held") EXCEPT !.own = ownership]
           r == Service!Done(p, "close")
<1>1. w.pc = "reread"
  BY DEF Service!Reread, Service!At
<1>2. CASE Service!Goto(p, r)
  <2>1. /\ r \in Service!Proc /\ r.pc = "close" /\ r.session = w.session
        /\ r.prior = Service!NoOwner
    BY StepFields, StepsNamed
  <2> QED BY <1>1, <1>2, <2>1, GotoIs, NobodyFields, RestingServes, SessionGoto
          DEF Unstarted, Claiming
<1>3. CASE ownership.session = w.session /\ Service!Goto(p, h)
  <2>1. Service!Done(p, "held") \in Service!Proc
    BY StepFields, StepsNamed
  <2>2. /\ h \in Service!Proc /\ h.pc = "held" /\ h.session = w.session /\ h.own = ownership
        /\ h.prior = Service!NoOwner /\ h.life = w.life
    BY <2>1, StepFields, StepsNamed, SessionTypes DEF Service!Proc
  <2> HIDE DEF h
  <2>3. proc'[p] = h /\ UNCHANGED <<ownership, lifecycle, listening>>
    BY <1>3, GotoIs
  <2>4. Probed(p)' /\ Owner(p)' /\ Serving(p)'
    BY <1>1, <1>3, <2>2, <2>3, StepsNamed, SessionTypes
       DEF Probed, Owner, Serving, Unstarted, Claiming
  <2> QED BY <1>1, <1>3, <2>2, <2>4, NobodyFields, SessionGoto DEF Claiming, Unstarted
<1> QED BY <1>2, <1>3 DEF Service!Reread

\* The end of a process, in order or not.
LEMMA EndHolds ==
    ASSUME SessionInv, NEW p \in Processes,
           Service!DeleteOwnership(p) \/ Service!Close(p) \/ Service!Crash(p)
    PROVE  SessionInv'
<1> DEFINE w == proc[p]
           c == Service!Step(p, "close")
<1>1. CASE Service!DeleteOwnership(p)
  <2>1. /\ w.pc = "delete" /\ UNCHANGED <<listening, visits, lifecycle>>
        /\ errors' \in 0..MaxErrors /\ Service!Become(p, c)
        /\ ownership' \in {ownership, Service!NoOwner}
    BY <1>1, BoundsType DEF Service!DeleteOwnership, Service!At, Service!Transaction,
       Service!rows, Service!Err, SessionInv, Service!TypeOK
  <2>2. c \in Service!Proc /\ c.pc = "close" /\ c.session = w.session /\ c.prior = w.prior
    BY StepFields, StepsNamed
  <2> HIDE DEF c
  <2>3. Service!TypeOK' /\ proc'[p] = c
    BY <2>1, <2>2, NobodyFields DEF Service!Become, SessionInv, Service!TypeOK, Processes
  <2> QED BY <2>1, <2>2, <2>3, StepsNamed, NobodyFields, RestingServes, SessionStep
          DEF Claiming, Unstarted
<1>2. CASE Service!Close(p) \/ Service!Crash(p)
  <2>1. /\ UNCHANGED <<ownership, lifecycle, visits>> /\ errors' \in 0..MaxErrors
        /\ listening' = listening \ {w.session} /\ Service!Become(p, Service!Off)
    BY <1>2, BoundsType DEF Service!Close, Service!Crash, Service!rows, Service!bounds,
       Service!Err, SessionInv, Service!TypeOK
  <2>2. Service!TypeOK' /\ proc'[p] = Service!Off
    BY <2>1, NobodyFields DEF Service!Become, SessionInv, Service!TypeOK, Processes
  <2> QED BY <2>1, <2>2, NobodyFields, RestingServes, SessionStep
<1> QED BY <1>1, <1>2

\* A step of an owner that keeps the row: it moves on, or changes the lifecycle.
LEMMA OwnerStep ==
    ASSUME SessionInv, NEW p \in Processes, NEW v \in Service!Proc, Service!Become(p, v),
           proc[p].pc \in Service!Owning, v.pc \in Service!Owning \cup {"close"},
           v.session = proc[p].session, v.own = proc[p].own,
           v.prior.session \in {0, proc[p].prior.session},
           UNCHANGED <<ownership, listening, visits>>, errors' \in 0..MaxErrors,
           lifecycle' \in Service!Lifecycle,
           lifecycle' = lifecycle
           \/ lifecycle'.session \in {proc[p].session, lifecycle.session},
           v.pc \in Unstarted => proc[p].pc \in Unstarted /\ lifecycle' = lifecycle,
           Serving(p)'
    PROVE  SessionInv'
<1>1. Service!TypeOK' /\ proc'[p] = v
  BY DEF Service!Become, SessionInv, Service!TypeOK, Processes
<1>2. v.pc \notin Claiming \cup {"reread"} /\ proc[p].pc # "off"
  BY StepsNamed DEF Claiming
<1>3. Probed(p)'
  BY <1>1, <1>2 DEF Probed, Claiming
<1>4. Owner(p)'
  BY <1>1, StepsNamed, SessionTypes DEF Owner
<1> QED BY <1>1, <1>2, <1>3, <1>4, SessionStep

\* An owner that only moves on, to a step before which nothing is recorded.
LEMMA OwnerMoves ==
    ASSUME SessionInv, NEW p \in Processes,
           NEW pc \in {"start", "release", "delete", "close", "stopping", "ready"},
           Service!Become(p, Service!Step(p, pc)) \/ Service!Become(p, Service!Done(p, pc)),
           proc[p].pc \in Service!Owning,
           pc = "start" => proc[p].pc = "held",
           pc \in {"stopping", "ready"} => proc[p].life # Service!NoLifecycle,
           UNCHANGED <<ownership, lifecycle, listening, visits>>, errors' \in 0..MaxErrors
    PROVE  SessionInv'
<1>1. PICK v \in {Service!Step(p, pc), Service!Done(p, pc)} : Service!Become(p, v)
  OBVIOUS
<1>2. /\ v \in Service!Proc /\ v.pc = pc /\ v.session = proc[p].session /\ v.own = proc[p].own
      /\ v.prior.session \in {0, proc[p].prior.session} /\ v.life = proc[p].life
  BY StepFields, StepsNamed, NobodyFields
<1>3. proc'[p] = v
  BY <1>1 DEF Service!Become, SessionInv, Service!TypeOK, Processes
<1>4. Serving(p)'
  BY <1>2, <1>3, StepsNamed, SessionTypes DEF Serving, Unstarted, Claiming, Service!Mine
<1> QED BY <1>1, <1>2, <1>4, StepsNamed, SessionTypes, OwnerStep DEF Unstarted, Claiming

LEMMA MovingHolds ==
    ASSUME SessionInv, NEW p \in Processes,
           \/ Service!Release(p) \/ Service!Visit(p) \/ Service!Prepared(p) \/ Service!Shutdown(p)
    PROVE  SessionInv'
<1>1. /\ UNCHANGED <<ownership, lifecycle, listening, visits>> /\ errors' \in 0..MaxErrors
      /\ proc[p].pc \in {"release", "held", "started", "serve"}
  BY BoundsType DEF Service!Release, Service!Visit, Service!Prepared, Service!Shutdown,
     Service!Goto, Service!rows, Service!bounds, Service!Err, Service!At, SessionInv,
     Service!TypeOK
<1>2. PICK pc \in {"start", "release", "delete", "close", "stopping", "ready"} :
         /\ Service!Become(p, Service!Step(p, pc))
         /\ pc = "start" => proc[p].pc = "held"
         /\ pc \in {"stopping", "ready"} => proc[p].pc \in {"started", "serve"}
  BY DEF Service!Release, Service!Visit, Service!Prepared, Service!Shutdown, Service!Goto,
     Service!At
<1>3. proc[p].pc \in {"started", "serve"} => proc[p].life # Service!NoLifecycle
  BY SessionTypes DEF Serving
<1> QED BY <1>1, <1>2, <1>3, StepsNamed, OwnerMoves

LEMMA ReadForStartHolds ==
    ASSUME SessionInv, NEW p \in Processes, Service!ReadForStart(p)
    PROVE  SessionInv'
<1> DEFINE v == [Service!Step(p, "starting") EXCEPT !.seen = lifecycle]
<1>1. proc[p].pc = "start"
  BY DEF Service!ReadForStart, Service!At
<1>2. CASE Service!Goto(p, v)
  <2>1. Service!Step(p, "starting") \in Service!Proc
    BY StepFields, StepsNamed
  <2>2. /\ v \in Service!Proc /\ v.pc = "starting" /\ v.session = proc[p].session
        /\ v.own = proc[p].own /\ v.prior = proc[p].prior /\ v.life = proc[p].life
    BY <2>1, StepFields, StepsNamed, SessionTypes DEF Service!Proc
  <2>3. Service!Become(p, v)
    BY <1>2 DEF Service!Goto
  <2> HIDE DEF v
  <2>4. proc'[p] = v /\ UNCHANGED <<ownership, lifecycle, listening, visits, errors>>
    BY <1>2, GotoIs
  <2>5. Serving(p)'
    BY <1>1, <2>2, <2>4, SessionTypes DEF Serving, Unstarted, Claiming, Service!Mine
  <2>6. errors' \in 0..MaxErrors /\ lifecycle' \in Service!Lifecycle
    BY <2>4 DEF SessionInv, Service!TypeOK
  <2> QED BY <1>1, <2>2, <2>3, <2>4, <2>5, <2>6, StepsNamed, OwnerStep DEF Unstarted
<1>3. CASE /\ Service!Err /\ Service!Become(p, Service!Step(p, "release"))
           /\ UNCHANGED <<Service!rows, listening, visits>>
  <2>1. UNCHANGED <<ownership, lifecycle, listening, visits>> /\ errors' \in 0..MaxErrors
    BY <1>3, BoundsType DEF Service!Err, Service!rows, SessionInv, Service!TypeOK
  <2> QED BY <1>1, <1>3, <2>1, StepsNamed, OwnerMoves
<1> QED BY <1>2, <1>3 DEF Service!ReadForStart

\* The row as the owner wrote it.
LEMMA LifecycleFields ==
    /\ \A l \in Service!Lifecycle : l.generation \in Nat /\ l.status \in Service!Statuses
    /\ \A s \in Service!Sessions, g \in Nat \ {0}, status \in Service!Statuses :
          [session |-> s, generation |-> g, status |-> status] \in Service!Lifecycle
    /\ \A l \in Service!Lifecycle : l.session # 0 =>
          \A status \in Service!Statuses :
             /\ [l EXCEPT !.status = status] \in Service!Lifecycle
             /\ [l EXCEPT !.status = status].session = l.session
             /\ [l EXCEPT !.status = status].generation = l.generation
             /\ [l EXCEPT !.status = status].status = status
BY DEF Service!Lifecycle, Service!NoLifecycle, Service!Statuses

LEMMA WriteStartHolds ==
    ASSUME SessionInv, NEW p \in Processes, Service!WriteStart(p)
    PROVE  /\ SessionInv'
           /\ lifecycle' # lifecycle =>
                 /\ lifecycle'.session = ownership.session
                 /\ lifecycle'.generation = lifecycle.generation + 1
                 /\ lifecycle'.session # lifecycle.session
                 /\ lifecycle'.status = "STARTING"
<1> DEFINE w == proc[p]
           n == Service!Starting(p)
           v == [Service!Done(p, "started") EXCEPT !.life = n]
           r == Service!Done(p, "release")
<1>1. /\ w.pc = "starting" /\ UNCHANGED <<ownership, listening, visits>>
      /\ errors' \in 0..MaxErrors
      /\ \/ Service!Become(p, v) /\ lifecycle' = n /\ lifecycle = w.seen
         \/ Service!Become(p, r) /\ lifecycle' = n /\ lifecycle = w.seen
         \/ Service!Become(p, r) /\ lifecycle' = lifecycle
  BY BoundsType DEF Service!WriteStart, Service!At, Service!Transaction, Service!Unchanged,
     Service!rows, Service!Err, SessionInv, Service!TypeOK
<1>2. /\ n \in Service!Lifecycle /\ n.session = w.session /\ n.status = "STARTING"
      /\ n.generation = w.seen.generation + 1
  <2>1. w.session \in Service!Sessions /\ w.seen.generation + 1 \in Nat \ {0}
    BY <1>1, SessionTypes, LifecycleFields DEF Identified
  <2> QED BY <2>1, LifecycleFields DEF Service!Starting, Service!Statuses
<1> HIDE DEF n
<1>3. /\ v \in Service!Proc /\ v.pc = "started" /\ v.session = w.session /\ v.own = w.own
      /\ v.prior = Service!NoOwner /\ v.life = n
  <2>1. Service!Done(p, "started") \in Service!Proc
    BY StepFields, StepsNamed
  <2> QED BY <1>2, <2>1, StepFields, StepsNamed DEF Service!Proc
<1>4. /\ w.life = Service!NoLifecycle /\ w.session # 0 /\ w.session # lifecycle.session
      /\ ownership.session = w.session
  BY <1>1, StepsNamed, SessionTypes DEF Serving, Identified, Owner, Unstarted
<1>5. ASSUME Service!Become(p, r), lifecycle' \in {n, lifecycle} PROVE SessionInv'
  <2>1. /\ r \in Service!Proc /\ r.pc = "release" /\ r.session = w.session /\ r.own = w.own
        /\ r.prior = Service!NoOwner /\ r.life = w.life
    BY StepFields, StepsNamed
  <2> HIDE DEF r
  <2>2. proc'[p] = r
    BY <1>5 DEF Service!Become, SessionInv, Service!TypeOK, Processes
  <2>3. Serving(p)'
    BY <1>4, <2>1, <2>2 DEF Serving, Unstarted, Claiming
  <2> QED BY <1>1, <1>2, <1>5, <2>1, <2>3, StepsNamed, NobodyFields, SessionTypes, OwnerStep
          DEF Unstarted, Claiming
<1>6. ASSUME Service!Become(p, v), lifecycle' = n PROVE SessionInv'
  <2> HIDE DEF v
  <2>1. proc'[p] = v
    BY <1>6 DEF Service!Become, SessionInv, Service!TypeOK, Processes
  <2>2. Serving(p)'
    BY <1>2, <1>3, <1>4, <1>6, <2>1, NobodyFields DEF Serving, Unstarted, Claiming, Service!Mine
  <2> QED BY <1>1, <1>2, <1>3, <1>6, <2>2, StepsNamed, NobodyFields, OwnerStep
          DEF Unstarted, Claiming
<1>7. SessionInv'
  BY <1>1, <1>5, <1>6
<1>8. lifecycle' # lifecycle => lifecycle' = n /\ lifecycle = w.seen
  BY <1>1
<1> QED BY <1>2, <1>4, <1>7, <1>8

\* A transition is read, and found done, allowed or lost.
LEMMA ReadForHolds ==
    ASSUME SessionInv, NEW p \in Processes,
           \/ Service!ReadForReady(p) \/ Service!ReadForStopping(p) \/ Service!ReadForStopped(p)
    PROVE  SessionInv'
<1> DEFINE w == proc[p]
<1>1. /\ w.pc \in {"ready", "stopping", "stopped"} /\ w.life # Service!NoLifecycle
      /\ Service!Mine(p) /\ w.life.session = w.session /\ w.session # 0
      /\ w.pc = "stopped" => lifecycle = w.life
  BY StepsNamed, SessionTypes DEF Service!ReadForReady, Service!ReadForStopping,
     Service!ReadForStopped, Service!At, Serving, Identified
<1>2. ASSUME NEW failed \in {"stopping", "release"}, Service!Goto(p, Service!Step(p, failed))
      PROVE  SessionInv'
  <2>1. Service!Become(p, Service!Step(p, failed))
    BY <1>2 DEF Service!Goto
  <2>2. UNCHANGED <<ownership, lifecycle, listening, visits>> /\ errors' \in 0..MaxErrors
    BY <1>2 DEF Service!Goto, Service!rows, Service!bounds, SessionInv, Service!TypeOK
  <2> QED BY <1>1, <2>1, <2>2, StepsNamed, OwnerMoves
<1>3. ASSUME NEW v \in Service!Proc, Service!Goto(p, v), v.session = w.session,
             v.own = w.own, v.prior = w.prior, v.pc \in Service!Owning \ Unstarted, Serving(p)'
      PROVE  SessionInv'
  <2>1. UNCHANGED <<ownership, lifecycle, listening, visits>> /\ Service!Become(p, v)
        /\ errors' \in 0..MaxErrors /\ lifecycle' \in Service!Lifecycle
    BY <1>3 DEF Service!Goto, Service!rows, Service!bounds, SessionInv, Service!TypeOK
  <2> QED BY <1>1, <1>3, <2>1, StepsNamed, OwnerStep
<1>4. ASSUME NEW done \in {"serve", "stopped", "release"},
             Service!Goto(p, [Service!Step(p, done) EXCEPT !.life = lifecycle])
      PROVE  SessionInv'
  <2> DEFINE v == [Service!Step(p, done) EXCEPT !.life = lifecycle]
  <2>1. Service!Step(p, done) \in Service!Proc
    BY StepFields, StepsNamed
  <2>2. /\ v \in Service!Proc /\ v.pc = done /\ v.session = w.session /\ v.own = w.own
        /\ v.prior = w.prior /\ v.life = lifecycle
    BY <2>1, StepFields, StepsNamed, SessionTypes DEF Service!Proc
  <2>3. Service!Goto(p, v)
    BY <1>4
  <2> HIDE DEF v
  <2>4. proc'[p] = v /\ UNCHANGED lifecycle
    BY <2>3, GotoIs
  <2>5. lifecycle.session = w.session
    BY <1>1 DEF Service!Mine
  <2>6. Serving(p)'
    BY <1>1, <2>2, <2>4, <2>5, NobodyFields DEF Serving, Unstarted, Claiming, Service!Mine
  <2>7. done \in Service!Owning \ Unstarted
    BY StepsNamed DEF Unstarted, Claiming
  <2> QED BY <1>3, <2>2, <2>3, <2>6, <2>7
<1>5. ASSUME NEW write \in {"publish", "drain", "end"},
             Service!Goto(p, [Service!Step(p, write) EXCEPT !.seen = lifecycle]),
             write = "publish" => lifecycle.status = "STARTING",
             write = "drain" => lifecycle.status \in Service!Stoppable,
             write = "end" => lifecycle.status = "STOPPING" /\ w.pc = "stopped"
      PROVE  SessionInv'
  <2> DEFINE v == [Service!Step(p, write) EXCEPT !.seen = lifecycle]
  <2>1. Service!Step(p, write) \in Service!Proc
    BY StepFields, StepsNamed
  <2>2. /\ v \in Service!Proc /\ v.pc = write /\ v.session = w.session /\ v.own = w.own
        /\ v.prior = w.prior /\ v.life = w.life /\ v.seen = lifecycle
    BY <2>1, StepFields, StepsNamed, SessionTypes DEF Service!Proc
  <2>3. Service!Goto(p, v)
    BY <1>5
  <2> HIDE DEF v
  <2>4. proc'[p] = v /\ UNCHANGED lifecycle
    BY <2>3, GotoIs
  <2>5. Serving(p)'
    BY <1>1, <1>5, <2>2, <2>4 DEF Serving, Unstarted, Claiming, Service!Mine
  <2>6. write \in Service!Owning \ Unstarted
    BY StepsNamed DEF Unstarted, Claiming
  <2> QED BY <1>3, <2>2, <2>3, <2>5, <2>6
<1>6. CASE Service!ReadForReady(p)
  BY <1>2, <1>4, <1>5, <1>6 DEF Service!ReadForReady, Service!ReadFor
<1>7. CASE Service!ReadForStopping(p)
  BY <1>2, <1>4, <1>5, <1>7 DEF Service!ReadForStopping, Service!ReadFor
<1>8. CASE Service!ReadForStopped(p)
  BY <1>2, <1>4, <1>5, <1>8 DEF Service!ReadForStopped, Service!ReadFor, Service!At
<1> QED BY <1>6, <1>7, <1>8

\* The transitions of the lifecycle within a session.
Advances ==
    /\ lifecycle'.session = lifecycle.session
    /\ lifecycle'.generation = lifecycle.generation
    /\ <<lifecycle.status, lifecycle'.status>> \in
          {<<"STARTING", "READY">>, <<"STARTING", "STOPPING">>,
           <<"READY", "STOPPING">>, <<"STOPPING", "STOPPED">>}

LEMMA WriteForHolds ==
    ASSUME SessionInv, NEW p \in Processes,
           \/ Service!WriteReady(p) \/ Service!WriteStopping(p) \/ Service!WriteStopped(p)
    PROVE  /\ SessionInv'
           /\ lifecycle' # lifecycle => lifecycle'.session = ownership.session /\ Advances
<1> DEFINE w == proc[p]
<1>1. PICK write \in {"publish", "drain", "end"}, target \in {"READY", "STOPPING", "STOPPED"},
           done \in {"serve", "stopped", "release"}, failed \in {"stopping", "release"} :
         /\ w.pc = write /\ Service!WriteFor(p, target, done, failed)
         /\ write = "publish" => target = "READY"
         /\ write = "drain" => target = "STOPPING"
         /\ write = "end" => target = "STOPPED" /\ done = "release"
  BY DEF Service!WriteReady, Service!WriteStopping, Service!WriteStopped, Service!At
<1> DEFINE n == [w.seen EXCEPT !.status = target]
           v == [Service!Done(p, done) EXCEPT !.life = n]
           r == Service!Done(p, failed)
<1>2. /\ w.life # Service!NoLifecycle /\ Service!Mine(p) /\ w.life.session = w.session
      /\ w.session # 0 /\ ownership.session = w.session
      /\ write = "publish" => w.seen.status = "STARTING"
      /\ write = "drain" => w.seen.status \in Service!Stoppable
      /\ write = "end" => w.seen.status = "STOPPING"
  BY <1>1, StepsNamed, SessionTypes DEF Serving, Identified, Owner
<1>3. /\ UNCHANGED <<ownership, listening, visits>> /\ errors' \in 0..MaxErrors
      /\ \/ Service!Become(p, v) /\ lifecycle' = n /\ lifecycle = w.seen
         \/ Service!Become(p, r) /\ lifecycle' = n /\ lifecycle = w.seen
         \/ Service!Become(p, r) /\ lifecycle' = lifecycle
  BY <1>1, BoundsType DEF Service!WriteFor, Service!Transaction, Service!Unchanged,
     Service!rows, Service!Err, SessionInv, Service!TypeOK
<1>4. ASSUME lifecycle = w.seen
      PROVE  /\ n \in Service!Lifecycle /\ n.session = w.session
             /\ n.session = lifecycle.session /\ n.generation = lifecycle.generation
             /\ n.status = target
  <2>1. w.seen.session = w.session
    BY <1>2, <1>4 DEF Service!Mine
  <2>2. target \in Service!Statuses
    BY DEF Service!Statuses
  <2> QED BY <1>2, <1>4, <2>1, <2>2, SessionTypes, LifecycleFields
<1> HIDE DEF n
<1>5. ASSUME Service!Become(p, r), lifecycle' = lifecycle \/ (lifecycle' = n /\ lifecycle = w.seen)
      PROVE  SessionInv'
  <2>1. /\ r \in Service!Proc /\ r.pc = failed /\ r.session = w.session /\ r.own = w.own
        /\ r.prior = Service!NoOwner /\ r.life = w.life
    BY StepFields, StepsNamed
  <2> HIDE DEF r
  <2>2. proc'[p] = r
    BY <1>5 DEF Service!Become, SessionInv, Service!TypeOK, Processes
  <2>3. lifecycle'.session = lifecycle.session /\ lifecycle'.generation = lifecycle.generation
        /\ lifecycle' \in Service!Lifecycle
    BY <1>4, <1>5, SessionTypes
  <2>4. Serving(p)'
    BY <1>2, <2>1, <2>2, <2>3 DEF Serving, Unstarted, Claiming, Service!Mine
  <2>5. failed \in Service!Owning \ Unstarted
    BY StepsNamed DEF Unstarted, Claiming
  <2> QED BY <1>1, <1>3, <1>5, <2>1, <2>3, <2>4, <2>5, StepsNamed, NobodyFields, OwnerStep
<1>6. ASSUME Service!Become(p, v), lifecycle' = n, lifecycle = w.seen PROVE SessionInv'
  <2>1. Service!Done(p, done) \in Service!Proc
    BY StepFields, StepsNamed
  <2>2. /\ v \in Service!Proc /\ v.pc = done /\ v.session = w.session /\ v.own = w.own
        /\ v.prior = Service!NoOwner /\ v.life = n
    BY <1>4, <1>6, <2>1, StepFields, StepsNamed DEF Service!Proc
  <2>3. Service!Become(p, v)
    BY <1>6
  <2> HIDE DEF v
  <2>4. proc'[p] = v
    BY <2>3 DEF Service!Become, SessionInv, Service!TypeOK, Processes
  <2>5. Serving(p)'
    BY <1>2, <1>4, <1>6, <2>2, <2>4, NobodyFields DEF Serving, Unstarted, Claiming, Service!Mine
  <2>6. done \in Service!Owning \ Unstarted
    BY StepsNamed DEF Unstarted, Claiming
  <2> QED BY <1>1, <1>3, <1>4, <1>6, <2>2, <2>3, <2>5, <2>6, StepsNamed, NobodyFields, OwnerStep
<1>7. SessionInv'
  BY <1>3, <1>5, <1>6
<1>8. ASSUME lifecycle' # lifecycle PROVE lifecycle'.session = ownership.session /\ Advances
  <2>1. lifecycle' = n /\ lifecycle = w.seen
    BY <1>3, <1>8
  <2> QED BY <1>1, <1>2, <1>4, <2>1 DEF Advances, Service!Stoppable
<1> QED BY <1>7, <1>8

LEMMA SessionInit == Service!Init => SessionInv
<1> SUFFICES ASSUME Service!Init PROVE SessionInv
  OBVIOUS
<1>1. Service!TypeOK
  BY BoundsType, NobodyFields DEF Service!Init, Service!TypeOK
<1>2. \A p \in Processes : proc[p] = Service!Off
  BY DEF Service!Init, Processes
<1>3. \A p \in Processes : Identified(p) /\ Probed(p) /\ Owner(p) /\ Serving(p)
  BY <1>2, NobodyFields, StepsNamed
     DEF Identified, Probed, Owner, Serving, Unstarted, Claiming
<1> QED BY <1>1, <1>3 DEF SessionInv

LEMMA SessionNext == SessionInv /\ [Service!Next]_Service!vars => SessionInv'
<1> SUFFICES ASSUME SessionInv, [Service!Next]_Service!vars PROVE SessionInv'
  OBVIOUS
<1>1. ASSUME NEW p \in Processes, Service!Work(p) \/ Service!Shutdown(p) \/ Service!Crash(p)
      PROVE  SessionInv'
  BY <1>1, BeginHolds, LookHolds, ProbeHolds, ListenHolds, ClaimHolds, WriteClaimHolds,
     RereadHolds, EndHolds, MovingHolds, ReadForStartHolds, WriteStartHolds, ReadForHolds,
     WriteForHolds DEF Service!Work
<1>2. CASE UNCHANGED Service!vars
  BY <1>2 DEF SessionInv, Service!TypeOK, Identified, Probed, Owner, Serving, Service!Mine,
     Service!vars, Service!rows, Service!bounds
<1> QED BY <1>1, <1>2 DEF Service!Next, Processes

LEMMA SessionsHold == Service!Spec => []SessionInv
BY SessionInit, SessionNext, PTL DEF Service!Spec

(***************************************************************************)
(* Whatever is lost, refused or ends where, a process that acts as the local  *)
(* owner of the ledger is the only one and can be probed, and a service is    *)
(* right about its lifecycle row until it gives the ownership back            *)
(* (acquireLocalLedgerServiceSession, createLedgerService).                  *)
(***************************************************************************)
THEOREM OwnersCorrect == Service!Spec => []OwnersAreRight
<1>1. SessionInv => OwnersAreRight
  <2> SUFFICES ASSUME SessionInv PROVE OwnersAreRight
    OBVIOUS
  <2>1. Service!OwnerIsExclusive
    BY SessionTypes DEF Service!OwnerIsExclusive, Owner, Processes
  <2>2. Service!ServingIsRecorded
    BY SessionTypes DEF Service!ServingIsRecorded, Serving, Processes, Service!Processes
  <2> QED BY <2>1, <2>2 DEF OwnersAreRight, Service!OwnersAreRight
<1> QED BY <1>1, SessionsHold, PTL

(***************************************************************************)
(* The lifecycle row is moved by the owner alone, one status at a time within *)
(* a session and one generation at a time between sessions, although no       *)
(* transaction compares both rows (start and transition of the lifecycle).   *)
(***************************************************************************)
THEOREM LifecycleHasOneWriter == Service!Spec => OnlyOwnerMovesLifecycle
<1> DEFINE Moves ==
      lifecycle' # lifecycle =>
          /\ lifecycle'.session = ownership.session
          /\ \/ /\ lifecycle'.generation = lifecycle.generation + 1
                /\ lifecycle'.session # lifecycle.session
                /\ lifecycle'.status = "STARTING"
             \/ Advances
<1>1. ASSUME SessionInv, [Service!Next]_Service!vars PROVE [Moves]_Service!vars
  <2>1. SUFFICES ASSUME lifecycle' # lifecycle PROVE Moves
    OBVIOUS
  <2>2. PICK p \in Processes : Service!Work(p) \/ Service!Shutdown(p) \/ Service!Crash(p)
    BY <1>1, <2>1 DEF Service!Next, Processes, Service!vars, Service!rows
  <2>3. \/ Service!WriteStart(p) \/ Service!WriteReady(p) \/ Service!WriteStopping(p)
        \/ Service!WriteStopped(p)
    BY <2>1, <2>2 DEF Service!Work, Service!Shutdown, Service!Crash, Service!Begin,
       Service!Look, Service!Probe, Service!Listen, Service!Claim, Service!WriteClaim,
       Service!Reread, Service!Visit, Service!ReadForStart, Service!Prepared,
       Service!ReadForReady, Service!ReadForStopping, Service!ReadForStopped, Service!ReadFor,
       Service!Release, Service!DeleteOwnership, Service!Close, Service!Transaction,
       Service!Goto, Service!rows
  <2> QED BY <1>1, <2>2, <2>3, WriteStartHolds, WriteForHolds
<1>2. SessionInv /\ [Service!Next]_Service!vars => [Moves]_Service!vars
  BY <1>1
<1> QED BY <1>2, SessionsHold, PTL
        DEF Service!Spec, OnlyOwnerMovesLifecycle, Service!OnlyOwnerMovesLifecycle, Advances
=============================================================================
