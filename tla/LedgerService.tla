---------------------------- MODULE LedgerService ----------------------------
(***************************************************************************)
(* The local owner of an application's ledger and the lifecycle of its       *)
(* resident service (src/core/runtime/services/ledger-service.js over        *)
(* src/core/lib/db/tables/ledger-service-lifecycle.js, used by               *)
(* resident-activity-worker.js and execution-ledger-store.js).               *)
(*                                                                         *)
(* A process listens on the endpoint of its session, claims the ownership    *)
(* row after it found that the session in it listens no more, and gives the  *)
(* row back before it stops listening.  The lifecycle row is written under   *)
(* conditions on its own predecessor only: no transaction compares both.     *)
(* A read and a transaction are one step each; a transaction may take effect *)
(* without its response, and a process may end between any two steps.        *)
(*                                                                         *)
(* Sessions are random identities.  An identity that nothing mentions any    *)
(* more may be drawn again here, which keeps the instance finite.            *)
(***************************************************************************)
EXTENDS Naturals

CONSTANTS
    Residents,    \* processes that run the resident service
    Manuals,      \* processes that change the ledger themselves
    MaxSessions,  \* bound: session identities in use at a time
    MaxVisits,    \* bound: sessions of manual processes
    MaxErrors     \* bound: crashes, shutdowns, refusals and lost responses

Processes == Residents \cup Manuals

VARIABLES
    ownership,  \* the ownership row
    lifecycle,  \* the lifecycle row
    listening,  \* sessions whose endpoint answers
    proc,       \* what each process knows
    visits,     \* sessions of manual processes so far
    errors      \* errors so far

rows == <<ownership, lifecycle>>
bounds == <<visits, errors>>
vars == <<rows, listening, proc, bounds>>
-----------------------------------------------------------------------------
Sessions == 1..MaxSessions

NoOwner == [session |-> 0, kind |-> "MANUAL", generation |-> 0]

Ownership == [session : Sessions, kind : {"RESIDENT", "MANUAL"},
              generation : Nat \ {0}] \cup {NoOwner}

NoLifecycle == [session |-> 0, generation |-> 0, status |-> "STOPPED"]

Statuses == {"STARTING", "READY", "STOPPING", "STOPPED"}

Lifecycle == [session : Sessions, generation : Nat \ {0}, status : Statuses]
                \cup {NoLifecycle}

Owning == {"held", "start", "starting", "started", "ready", "publish", "serve",
           "stopping", "drain", "stopped", "end", "release", "delete"}

Steps == Owning \cup {"off", "look", "probe", "listen", "claim", "write",
                      "reread", "close"}

Off == [pc |-> "off", session |-> 0, prior |-> NoOwner, own |-> NoOwner,
        life |-> NoLifecycle, seen |-> NoLifecycle]

Proc == [pc : Steps, session : Sessions \cup {0}, prior : Ownership,
         own : Ownership, life : Lifecycle, seen : Lifecycle]

Init ==
    /\ ownership = NoOwner
    /\ lifecycle = NoLifecycle
    /\ listening = {}
    /\ proc = [p \in Processes |-> Off]
    /\ visits = 0
    /\ errors = 0

At(p, pc) == proc[p].pc = pc

Become(p, state) == proc' = [proc EXCEPT ![p] = state]

Step(p, pc) == [proc[p] EXCEPT !.pc = pc]

\* A step after which what was read for it is dropped.
Done(p, pc) == [Step(p, pc) EXCEPT !.prior = NoOwner, !.seen = NoLifecycle]

\* A step that reads, or only moves the process on.
Goto(p, state) ==
    /\ Become(p, state)
    /\ UNCHANGED <<rows, listening, bounds>>

Kind(p) == IF p \in Residents THEN "RESIDENT" ELSE "MANUAL"

Err == errors < MaxErrors /\ errors' = errors + 1

\* Sessions that a row, an endpoint or a process still mentions.
Mentioned ==
    listening \cup {ownership.session, lifecycle.session} \cup
        UNION {{proc[p].session, proc[p].prior.session, proc[p].own.session,
                proc[p].life.session, proc[p].seen.session} : p \in Processes}

(***************************************************************************)
(* A transaction and its answer: it applies and is answered with `answered`, *)
(* it is refused because its condition fails, or it ends in an error with or *)
(* without its effect.                                                      *)
(***************************************************************************)
Transaction(p, condition, effect, answered, refused, failed) ==
    \/ condition /\ effect /\ Become(p, answered) /\ UNCHANGED errors
    \/ ~condition /\ UNCHANGED rows /\ Become(p, refused) /\ UNCHANGED errors
    \/ condition /\ effect /\ Become(p, failed) /\ Err
    \/ UNCHANGED rows /\ Become(p, failed) /\ Err
-----------------------------------------------------------------------------
(***************************************************************************)
(* acquireLocalLedgerServiceSession.                                       *)
(***************************************************************************)
Begin(p) ==
    /\ At(p, "off")
    /\ IF p \in Manuals THEN visits < MaxVisits /\ visits' = visits + 1 ELSE UNCHANGED visits
    /\ \E s \in Sessions \ Mentioned :
          /\ \A r \in Sessions \ Mentioned : s <= r
          /\ Become(p, [Off EXCEPT !.pc = "look", !.session = s])
    /\ UNCHANGED <<rows, listening, errors>>

Look(p) ==
    /\ At(p, "look")
    /\ Goto(p, [Step(p, IF ownership = NoOwner THEN "listen" ELSE "probe")
                    EXCEPT !.prior = ownership])

\* Mutant of ProvenAbsent: the owner is taken for gone when it is not known.
NotKnown(session) == TRUE

\* Mutant of ProvenAbsent: only an ownership that was given back is absent.
GivenBack(session) == session = 0

ProvenAbsent(session) == session \notin listening

\* assertObservedOwnershipAbsent
Probe(p) ==
    /\ At(p, "probe")
    /\ IF ProvenAbsent(proc[p].prior.session) THEN Goto(p, Step(p, "listen"))
       ELSE Goto(p, Off)

Listen(p) ==
    /\ At(p, "listen")
    /\ listening' = listening \cup {proc[p].session}
    /\ Become(p, Step(p, "claim"))
    /\ UNCHANGED <<rows, bounds>>

Claimed(p) == [session |-> proc[p].session, kind |-> Kind(p),
               generation |-> proc[p].prior.generation + 1]

\* claimOwnership: the row is exactly the one that was probed.
Claim(p) ==
    /\ At(p, "claim")
    /\ Goto(p, Step(p, IF ownership = proc[p].prior THEN "write" ELSE "reread"))

\* Mutant of ClaimHolds: the row is not compared again by the transaction.
ClaimAnyway(p) == TRUE

ClaimHolds(p) == ownership = proc[p].prior

WriteClaim(p) ==
    /\ At(p, "write")
    /\ Transaction(p, ClaimHolds(p), ownership' = Claimed(p) /\ UNCHANGED lifecycle,
                   [Done(p, "held") EXCEPT !.own = Claimed(p)],
                   Step(p, "reread"), Step(p, "reread"))
    /\ UNCHANGED <<listening, visits>>

\* Whatever the claim failed with, its own row means that it took effect.
Reread(p) ==
    /\ At(p, "reread")
    /\ IF ownership.session = proc[p].session
       THEN Goto(p, [Done(p, "held") EXCEPT !.own = ownership])
       ELSE Goto(p, Done(p, "close"))
-----------------------------------------------------------------------------
(***************************************************************************)
(* release, and the end of the process.                                    *)
(***************************************************************************)
Owns(p) ==
    /\ ownership.session = proc[p].own.session
    /\ ownership.generation = proc[p].own.generation

\* releaseOwnership
Release(p) ==
    /\ At(p, "release")
    /\ Goto(p, Step(p, IF Owns(p) THEN "delete" ELSE "close"))

DeleteOwnership(p) ==
    /\ At(p, "delete")
    /\ Transaction(p, Owns(p), ownership' = NoOwner /\ UNCHANGED lifecycle,
                   Step(p, "close"), Step(p, "close"), Step(p, "close"))
    /\ UNCHANGED <<listening, visits>>

\* localSession.release, whether or not the row was given back.
Close(p) ==
    /\ At(p, "close")
    /\ listening' = listening \ {proc[p].session}
    /\ Become(p, Off)
    /\ UNCHANGED <<rows, bounds>>

Crash(p) ==
    /\ proc[p] # Off
    /\ Err
    /\ listening' = listening \ {proc[p].session}
    /\ Become(p, Off)
    /\ UNCHANGED <<rows, visits>>
-----------------------------------------------------------------------------
(***************************************************************************)
(* createLedgerService: the lifecycle of a resident.                       *)
(***************************************************************************)
\* A manual process does its work and leaves.
Visit(p) ==
    /\ At(p, "held")
    /\ Goto(p, Step(p, IF p \in Residents THEN "start" ELSE "release"))

\* lifecycle.start.  The fence of the activation may refuse the release.
ReadForStart(p) ==
    /\ At(p, "start")
    /\ \/ Goto(p, [Step(p, "starting") EXCEPT !.seen = lifecycle])
       \/ Err /\ Become(p, Step(p, "release")) /\ UNCHANGED <<rows, listening, visits>>

Unchanged(p) == lifecycle = proc[p].seen

Starting(p) == [session |-> proc[p].session, status |-> "STARTING",
                generation |-> proc[p].seen.generation + 1]

\* A refused or failed start gives the ownership back.
WriteStart(p) ==
    /\ At(p, "starting")
    /\ Transaction(p, Unchanged(p), lifecycle' = Starting(p) /\ UNCHANGED ownership,
                   [Done(p, "started") EXCEPT !.life = Starting(p)],
                   Done(p, "release"), Done(p, "release"))
    /\ UNCHANGED <<listening, visits>>

Mine(p) ==
    /\ lifecycle.session = proc[p].life.session
    /\ lifecycle.generation = proc[p].life.generation

\* The read of a transition: it may find that it is already done.
ReadFor(p, expected, target, write, done, failed) ==
    \/ /\ Mine(p) /\ lifecycle.status = target
       /\ Goto(p, [Step(p, done) EXCEPT !.life = lifecycle])
    \/ /\ Mine(p) /\ lifecycle.status \in expected
       /\ Goto(p, [Step(p, write) EXCEPT !.seen = lifecycle])
    \/ /\ ~(Mine(p) /\ lifecycle.status \in expected \cup {target})
       /\ Goto(p, Step(p, failed))

WriteFor(p, target, done, failed) ==
    LET next == [proc[p].seen EXCEPT !.status = target] IN
    /\ Transaction(p, Unchanged(p), lifecycle' = next /\ UNCHANGED ownership,
                   [Done(p, done) EXCEPT !.life = next],
                   Done(p, failed), Done(p, failed))
    /\ UNCHANGED <<listening, visits>>

\* The worker prepares; the shutdown signal, or an error, ends it at any time.
Prepared(p) ==
    /\ At(p, "started")
    /\ Goto(p, Step(p, "ready"))

Shutdown(p) ==
    /\ At(p, "started") \/ At(p, "serve")
    /\ Err
    /\ Become(p, Step(p, "stopping"))
    /\ UNCHANGED <<rows, listening, visits>>

\* markReady; its failure ends the worker.
ReadForReady(p) ==
    At(p, "ready") /\ ReadFor(p, {"STARTING"}, "READY", "publish", "serve", "stopping")

WriteReady(p) == At(p, "publish") /\ WriteFor(p, "READY", "serve", "stopping")

Stoppable == {"STARTING", "READY"}

\* stop: beginStopping and markStopped; a failure of either only ends it.
ReadForStopping(p) ==
    At(p, "stopping") /\ ReadFor(p, Stoppable, "STOPPING", "drain", "stopped", "release")

WriteStopping(p) == At(p, "drain") /\ WriteFor(p, "STOPPING", "stopped", "release")

ReadForStopped(p) ==
    At(p, "stopped") /\ ReadFor(p, {"STOPPING"}, "STOPPED", "end", "release", "release")

WriteStopped(p) == At(p, "end") /\ WriteFor(p, "STOPPED", "release", "release")
-----------------------------------------------------------------------------
Work(p) ==
    \/ Begin(p) \/ Look(p) \/ Probe(p) \/ Listen(p)
    \/ Claim(p) \/ WriteClaim(p) \/ Reread(p) \/ Visit(p)
    \/ ReadForStart(p) \/ WriteStart(p) \/ Prepared(p)
    \/ ReadForReady(p) \/ WriteReady(p)
    \/ ReadForStopping(p) \/ WriteStopping(p)
    \/ ReadForStopped(p) \/ WriteStopped(p)
    \/ Release(p) \/ DeleteOwnership(p) \/ Close(p)

Next == \E p \in Processes : Work(p) \/ Shutdown(p) \/ Crash(p)

Spec == Init /\ [][Next]_vars

(***************************************************************************)
(* A process runs on.  A resident that ended is started again, by the service *)
(* manager after a failure (Restart=on-failure), by the operator after a      *)
(* shutdown.                                                               *)
(***************************************************************************)
Fairness == \A p \in Processes : WF_vars(Work(p))

FairSpec == Spec /\ Fairness
-----------------------------------------------------------------------------
TypeOK ==
    /\ ownership \in Ownership
    /\ lifecycle \in Lifecycle
    /\ listening \subseteq Sessions
    /\ proc \in [Processes -> Proc]
    /\ visits \in 0..MaxVisits
    /\ errors \in 0..MaxErrors

(***************************************************************************)
(* While a process acts as the local owner the ownership row is its own, so  *)
(* there is one at most, although the owner is probed, claimed and released   *)
(* in separate steps and any of them may be lost.                           *)
(***************************************************************************)
OwnerIsExclusive ==
    \A p \in Processes : proc[p].pc \in Owning \ {"release", "delete"} =>
        ownership = proc[p].own /\ ownership.session \in listening

(***************************************************************************)
(* Only the local owner moves the lifecycle, although no lifecycle           *)
(* transaction is conditioned on the ownership: a new session starts the next *)
(* generation and the same session only advances, so a service that was       *)
(* stopped, replaced or abandoned never becomes READY again.                 *)
(***************************************************************************)
OnlyOwnerMovesLifecycle ==
    [][lifecycle' # lifecycle =>
          /\ lifecycle'.session = ownership.session
          /\ \/ /\ lifecycle'.generation = lifecycle.generation + 1
                /\ lifecycle'.session # lifecycle.session
                /\ lifecycle'.status = "STARTING"
             \/ /\ lifecycle'.session = lifecycle.session
                /\ lifecycle'.generation = lifecycle.generation
                /\ <<lifecycle.status, lifecycle'.status>> \in
                      {<<"STARTING", "READY">>, <<"STARTING", "STOPPING">>,
                       <<"READY", "STOPPING">>, <<"STOPPING", "STOPPED">>}]_vars

(***************************************************************************)
(* What a service believes of its lifecycle is what is recorded, although      *)
(* answers are lost and other sessions write the same row: until the owner    *)
(* gave its ownership back the row is its own, and while it serves, and once   *)
(* it is stopping, the row is exactly what it was told.                       *)
(***************************************************************************)
ServingIsRecorded ==
    \A p \in Residents : proc[p].pc \in Owning =>
        /\ proc[p].life # NoLifecycle => Mine(p)
        /\ proc[p].pc \in {"serve", "stopped", "end"} => lifecycle = proc[p].life

(***************************************************************************)
(* An owner is right about both rows, its ownership and its lifecycle, of     *)
(* which each was written under conditions on itself alone.                  *)
(***************************************************************************)
OwnersAreRight == OwnerIsExclusive /\ ServingIsRecorded

(***************************************************************************)
(* Whatever crashed, was shut down or visited, a resident serves in the end,  *)
(* with the ownership and a READY record of its own.                         *)
(***************************************************************************)
AResidentServes ==
    <>[](\E p \in Residents : At(p, "serve") /\ lifecycle = proc[p].life
                                /\ lifecycle.status = "READY")
=============================================================================
