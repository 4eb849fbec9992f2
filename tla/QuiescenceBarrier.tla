------------------------- MODULE QuiescenceBarrier -------------------------
(***************************************************************************)
(* The admission barrier of one application                                 *)
(* (src/core/lib/db/tables/coordinator-quiescence-barrier.js) with the two   *)
(* parties that meet at it: the resident coordinator, which closes or adopts *)
(* the barrier, reads the whole run history twice and reopens                *)
(* (withReconstructedExecutionLedgerResidentAuthority and                    *)
(* reconstructResidentExecutionHistory), and the callers of createManualRun  *)
(* in the execution ledger, which may create a run only in the OPEN          *)
(* generation they read.                                                    *)
(*                                                                         *)
(* Every database operation is a step.  A write may fail with or without its *)
(* effect, may arrive after its sender gave up, and a resident may stop at   *)
(* any point and begin again, under its own authority or under a new one.    *)
(***************************************************************************)
EXTENDS Naturals, FiniteSets

CONSTANTS
    Residents,   \* coordinator processes
    Admitters,   \* callers of createManualRun
    Runs,        \* run identities
    Contents,    \* what a caller asks a run to do
    None,        \* no run and no content
    MaxEpoch,    \* bound: coordinator authorities granted
    MaxSafe,     \* Number.MAX_SAFE_INTEGER: the last version of the barrier
    MaxMoves,    \* bound: versions of a run
    MaxDelayed   \* bound: transactions under way without a waiting sender

VARIABLES
    authority,  \* the authority record: last epoch, and whether it is ACTIVE
    barrier,    \* the barrier row
    receipts,   \* the retained transition receipts
    runs,       \* run -> its content and version, version 0 before creation
    delayed,    \* transactions whose sender gave up, still able to arrive
    pc,         \* resident or caller -> next database operation
    token,      \* resident -> the authority it holds
    seen,       \* resident or caller -> the barrier row it read
    step,       \* resident -> transition of the barrier in progress
    unread,     \* resident -> runs the pass has yet to read
    first,      \* resident -> history read by the first pass
    second,     \* resident -> history read by the second pass
    call,       \* caller -> the creation in progress
    outcome,    \* caller -> what it returned
    refused,    \* history: the last transition definitely refused
    snapshot    \* history: resident -> the runs when its first pass ended

table == <<authority, barrier, receipts, runs, delayed>>
resident == <<token, step, unread, first, second, refused, snapshot>>
admitter == <<call, outcome>>
vars == <<table, pc, seen, resident, admitter>>
-----------------------------------------------------------------------------
Epochs == 1..MaxEpoch

\* The row; lastAction, lastRequestId and the clock follow from these fields.
Barrier == [state   : {"ABSENT", "OPEN", "CLOSED"},
            version : 0..MaxSafe,
            epoch   : 0..MaxEpoch]

NoBarrier == [state |-> "ABSENT", version |-> 0, epoch |-> 0]

Actions == {"close", "adopt", "reopen"}

\* A request is named after its action, its authority and the version of its
\* predecessor; its digest covers the whole predecessor.
Request == [action : Actions, epoch : Epochs, predecessor : Barrier]

sameRequestId(p, q) ==
    /\ p.action = q.action
    /\ p.epoch = q.epoch
    /\ p.predecessor.version = q.predecessor.version

\* createSuccessor
Successor(request) ==
    [state   |-> IF request.action = "reopen" THEN "OPEN" ELSE "CLOSED",
     version |-> request.predecessor.version + 1,
     epoch   |-> request.epoch]

NoRun == [content |-> None, version |-> 0]

Run == [content : Contents \cup {None}, version : 0..MaxMoves]

History == [Runs -> Run]

Admitted == {r \in Runs : runs[r] # NoRun}

\* epoch 0: the caller's ledger is bound to no coordinator authority.
Call == [run : Runs, content : Contents, epoch : 0..MaxEpoch]

NoCall == [run |-> None, content |-> None, epoch |-> 0]

ResidentPhases == {"idle", "get", "receipt", "current", "raced", "write",
                   "readback", "explain", "refused", "list", "check",
                   "recheck", "serving"}

AdmitterPhases == {"idle", "existing", "barrier", "closed", "admit", "raced",
                   "stale", "taken", "again", "confirm", "done"}

Outcomes == {"none", "created", "replayed", "run-conflict", "closed", "stale",
             "conflict", "failed"}

IsCurrent(epoch) == authority.active /\ authority.epoch = epoch

RequestOf(r) == [action |-> step[r], epoch |-> token[r], predecessor |-> seen[r]]

Init ==
    /\ authority = [epoch |-> 0, active |-> FALSE]
    /\ barrier = NoBarrier
    /\ receipts = {}
    /\ runs = [i \in Runs |-> NoRun]
    /\ delayed = {}
    /\ pc = [p \in Residents \cup Admitters |-> "idle"]
    /\ token = [r \in Residents |-> 0]
    /\ seen = [p \in Residents \cup Admitters |-> NoBarrier]
    /\ step = [r \in Residents |-> "close"]
    /\ unread = [r \in Residents |-> {}]
    /\ first = [r \in Residents |-> [i \in Runs |-> NoRun]]
    /\ second = [r \in Residents |-> [i \in Runs |-> NoRun]]
    /\ call = [a \in Admitters |-> NoCall]
    /\ outcome = [a \in Admitters |-> "none"]
    /\ refused = {}
    /\ snapshot = [r \in Residents |-> [i \in Runs |-> NoRun]]

Goto(p, phase) == pc' = [pc EXCEPT ![p] = phase]

\* A resident forgets what it read when its startup ends.
StopAt(r, phase) ==
    /\ Goto(r, phase)
    /\ seen' = [seen EXCEPT ![r] = NoBarrier]
    /\ step' = [step EXCEPT ![r] = "close"]
    /\ unread' = [unread EXCEPT ![r] = {}]
    /\ first' = [first EXCEPT ![r] = [i \in Runs |-> NoRun]]
    /\ second' = [second EXCEPT ![r] = [i \in Runs |-> NoRun]]
    /\ snapshot' = [snapshot EXCEPT ![r] = [i \in Runs |-> NoRun]]
-----------------------------------------------------------------------------
(***************************************************************************)
(* Authority, as the barrier sees it.                                      *)
(***************************************************************************)
\* A resident is granted the next epoch, by acquisition or by takeover.
Grant(r) ==
    /\ pc[r] = "idle"
    /\ authority.epoch < MaxEpoch
    /\ authority' = [epoch |-> authority.epoch + 1, active |-> TRUE]
    /\ token' = [token EXCEPT ![r] = authority.epoch + 1]
    /\ Goto(r, "get")
    /\ UNCHANGED <<barrier, receipts, runs, delayed, seen, step, unread, first,
                   second, refused, snapshot, admitter>>

\* Startup is repeated under the authority the resident still holds.
Resume(r) ==
    /\ pc[r] = "idle"
    /\ token[r] > 0
    /\ Goto(r, "get")
    /\ UNCHANGED <<table, seen, resident, admitter>>

\* The process ends, its session is aborted, or its release is accepted.
Stop(r) ==
    /\ pc[r] # "idle"
    /\ StopAt(r, "idle")
    /\ \/ UNCHANGED authority
       \/ /\ IsCurrent(token[r])
          /\ authority' = [authority EXCEPT !.active = FALSE]
    /\ UNCHANGED <<barrier, receipts, runs, delayed, token, refused, admitter>>
-----------------------------------------------------------------------------
(***************************************************************************)
(* Selection of the barrier and its transitions.                           *)
(***************************************************************************)
\* A closed generation of the exact authority is kept, one of another
\* authority is adopted and anything else is closed.  Adoption is refused
\* unless the authority is strictly newer, closing unless it is not older.
Select(r) ==
    LET kept == barrier.state = "CLOSED" /\ barrier.epoch = token[r]
        adopts == barrier.state = "CLOSED" /\ barrier.epoch # token[r]
        allowed == IF adopts THEN token[r] > barrier.epoch
                   ELSE token[r] >= barrier.epoch IN
    /\ pc[r] = "get"
    /\ \/ /\ kept
          /\ seen' = [seen EXCEPT ![r] = barrier]
          /\ unread' = [unread EXCEPT ![r] = Runs]
          /\ Goto(r, "list")
          /\ UNCHANGED <<token, step, first, second, refused, snapshot>>
       \/ /\ ~kept /\ allowed
          /\ seen' = [seen EXCEPT ![r] = barrier]
          /\ step' = [step EXCEPT ![r] = IF adopts THEN "adopt" ELSE "close"]
          /\ Goto(r, "receipt")
          /\ UNCHANGED <<token, unread, first, second, refused, snapshot>>
       \/ /\ ~kept /\ ~allowed
          /\ StopAt(r, "idle")
          /\ UNCHANGED <<token, refused>>
    /\ UNCHANGED <<table, admitter>>

\* The transition was accepted or replayed with barrier row b.
Accepted(r, b) ==
    IF step[r] = "reopen"
    THEN /\ Goto(r, "recheck")
         /\ UNCHANGED <<seen, unread>>
    ELSE /\ Goto(r, "list")
         /\ seen' = [seen EXCEPT ![r] = b]
         /\ unread' = [unread EXCEPT ![r] = Runs]

Continue(r, b) ==
    /\ Accepted(r, b)
    /\ UNCHANGED <<token, step, first, second, refused, snapshot>>

\* assertExactReceipt, before and after the barrier was read and after a
\* write failed.  No receipt: go on to the phase that follows.
Receipts(r) == {q \in receipts : sameRequestId(q, RequestOf(r))}

ReadReceipt(r) ==
    LET next == [receipt |-> "current", raced |-> "refused",
                 readback |-> "refused"] IN
    /\ pc[r] \in {"receipt", "raced", "readback"}
    /\ \/ /\ RequestOf(r) \in receipts
          /\ Continue(r, Successor(RequestOf(r)))
       \/ /\ Receipts(r) \ {RequestOf(r)} # {}
          /\ StopAt(r, "idle")
          /\ UNCHANGED <<token, refused>>
       \/ /\ Receipts(r) = {}
          /\ Goto(r, next[pc[r]])
          /\ UNCHANGED <<seen, resident>>
    /\ UNCHANGED <<table, admitter>>

\* readBarrier, compared with the whole predecessor; createSuccessor refuses
\* to leave the safe integers.
ReadBarrier(r) ==
    /\ pc[r] = "current"
    /\ \/ /\ barrier # seen[r]
          /\ Goto(r, "raced")
          /\ UNCHANGED <<seen, resident>>
       \/ /\ barrier = seen[r] /\ barrier.version < MaxSafe
          /\ Goto(r, "write")
          /\ UNCHANGED <<seen, resident>>
       \/ /\ barrier = seen[r] /\ barrier.version = MaxSafe
          /\ StopAt(r, "idle")
          /\ UNCHANGED <<token, refused>>
    /\ UNCHANGED <<table, admitter>>

\* The conditions of the transaction: authority, exact predecessor, no receipt.
TransitionHolds(request) ==
    /\ IsCurrent(request.epoch)
    /\ barrier = request.predecessor
    /\ \A q \in receipts : ~sameRequestId(q, request)

CommitTransition(request) ==
    /\ TransitionHolds(request)
    /\ barrier' = Successor(request)
    /\ receipts' = receipts \cup {request}
    /\ UNCHANGED <<authority, runs>>

Postpone(transaction) ==
    /\ Cardinality(delayed) < MaxDelayed
    /\ delayed' = delayed \cup {transaction}

WriteTransition(r) ==
    /\ pc[r] = "write"
    /\ \/ /\ CommitTransition(RequestOf(r))
          /\ Continue(r, Successor(RequestOf(r)))
          /\ UNCHANGED delayed
       \/ /\ CommitTransition(RequestOf(r))          \* the response is lost
          /\ Goto(r, "explain")
          /\ UNCHANGED <<delayed, seen, resident>>
       \/ /\ ~TransitionHolds(RequestOf(r))
          /\ Goto(r, "readback")
          /\ UNCHANGED <<table, seen, resident>>
       \/ /\ Postpone([kind |-> "transition", request |-> RequestOf(r)])
          /\ Goto(r, "explain")
          /\ UNCHANGED <<authority, barrier, receipts, runs, seen, resident>>
    /\ UNCHANGED admitter

\* Mutant of ReadAfterFailure: an unknown outcome is reported as a refusal.
ReadAfterFailureRefusing(r) ==
    /\ pc[r] = "explain"
    /\ \/ /\ RequestOf(r) \in receipts
          /\ Continue(r, Successor(RequestOf(r)))
       \/ /\ RequestOf(r) \notin receipts
          /\ Goto(r, "refused")
          /\ UNCHANGED <<seen, resident>>
    /\ UNCHANGED <<table, admitter>>

\* After a failure that is not conditional: a receipt proves the transition,
\* anything else leaves the outcome unknown or the authority stale.
ReadAfterFailure(r) ==
    /\ pc[r] = "explain"
    /\ \/ /\ RequestOf(r) \in receipts
          /\ Continue(r, Successor(RequestOf(r)))
       \/ /\ StopAt(r, "idle")
          /\ UNCHANGED <<token, refused>>
    /\ UNCHANGED <<table, admitter>>

\* assertCoordinatorAuthorityCurrent tells stale from conflict; both are final.
Refuse(r) ==
    /\ pc[r] = "refused"
    /\ refused' = {RequestOf(r)}
    /\ StopAt(r, "idle")
    /\ UNCHANGED <<table, token, admitter>>
-----------------------------------------------------------------------------
(***************************************************************************)
(* reconstructResidentExecutionHistory: two passes over the run directory,   *)
(* which must read the same history, and a check of the authority.           *)
(***************************************************************************)
FirstPass(r) == pc[r] = "list"

ReadRun(r) == \E i \in unread[r] :
    /\ pc[r] \in {"list", "check"}
    /\ IF FirstPass(r)
       THEN first' = [first EXCEPT ![r][i] = runs[i]] /\ UNCHANGED second
       ELSE second' = [second EXCEPT ![r][i] = runs[i]] /\ UNCHANGED first
    /\ unread' = [unread EXCEPT ![r] = @ \ {i}]
    /\ UNCHANGED <<table, pc, token, seen, step, refused, snapshot, admitter>>

BeginSecondPass(r) ==
    /\ FirstPass(r)
    /\ unread[r] = {}
    /\ Goto(r, "check")
    /\ unread' = [unread EXCEPT ![r] = Runs]
    /\ snapshot' = [snapshot EXCEPT ![r] = runs]
    /\ UNCHANGED <<table, token, seen, step, first, second, refused, admitter>>

\* Mutant of Agree: the passes are compared by the runs they met only.
AgreeOnDirectory(r) ==
    \A i \in Runs : (first[r][i] = NoRun) = (second[r][i] = NoRun)

Agree(r) == first[r] = second[r]

EndReconstruction(r) ==
    /\ pc[r] = "check"
    /\ unread[r] = {}
    /\ IF Agree(r) /\ IsCurrent(token[r])
       THEN /\ step' = [step EXCEPT ![r] = "reopen"]
            /\ Goto(r, "receipt")
            /\ UNCHANGED <<token, seen, unread, first, second, refused, snapshot>>
       ELSE StopAt(r, "idle") /\ UNCHANGED <<token, refused>>
    /\ UNCHANGED <<table, admitter>>

\* The authority is checked once more after the barrier reopened.
Serve(r) ==
    /\ pc[r] = "recheck"
    /\ StopAt(r, IF IsCurrent(token[r]) THEN "serving" ELSE "idle")
    /\ UNCHANGED <<table, token, refused, admitter>>
-----------------------------------------------------------------------------
(***************************************************************************)
(* createManualRun.                                                        *)
(***************************************************************************)
Begin(a) ==
    /\ pc[a] = "idle"
    /\ \E k \in Call :
          /\ k.epoch <= authority.epoch
          /\ call' = [call EXCEPT ![a] = k]
    /\ Goto(a, "existing")
    /\ UNCHANGED <<table, seen, resident, outcome>>

Return(a, o) ==
    /\ Goto(a, "done")
    /\ seen' = [seen EXCEPT ![a] = NoBarrier]
    /\ outcome' = [outcome EXCEPT ![a] = o]

RunOf(a) == runs[call[a].run]

\* isSameManualRun
IsSameRun(a) == RunOf(a).content = call[a].content

ReadExisting(a) ==
    /\ pc[a] = "existing"
    /\ \/ IsSameRun(a) /\ Return(a, "replayed")
       \/ RunOf(a) # NoRun /\ ~IsSameRun(a) /\ Return(a, "run-conflict")
       \/ RunOf(a) = NoRun /\ Goto(a, "barrier") /\ UNCHANGED <<seen, outcome>>
    /\ UNCHANGED <<table, resident, call>>

\* prepareCoordinatorAdmissionFence
PrepareAdmission(a) ==
    /\ pc[a] \in {"barrier", "again"}
    /\ \/ /\ barrier.state = "CLOSED"
          /\ IF call[a].epoch = 0 THEN Return(a, "closed")
             ELSE Goto(a, "closed") /\ UNCHANGED <<seen, outcome>>
       \/ /\ barrier.state # "CLOSED" /\ pc[a] = "barrier"
          /\ seen' = [seen EXCEPT ![a] = barrier]
          /\ Goto(a, "admit")
          /\ UNCHANGED outcome
       \/ /\ barrier.state # "CLOSED" /\ pc[a] = "again"
          /\ Return(a, "conflict")
    /\ UNCHANGED <<table, resident, call>>

ReadClosedAuthority(a) ==
    /\ pc[a] = "closed"
    /\ Return(a, IF IsCurrent(call[a].epoch) THEN "closed" ELSE "stale")
    /\ UNCHANGED <<table, resident, call>>

\* Mutant of AdmissionHolds: an absent barrier is not fenced.
AdmissionHoldsIfPresent(k, generation) ==
    /\ runs[k.run] = NoRun
    /\ generation = NoBarrier \/ barrier = generation
    /\ k.epoch = 0 \/ IsCurrent(k.epoch)

\* The run is new, the barrier is the row that was read (or still absent) and
\* the authority of a bound ledger is current.
AdmissionHolds(k, generation) ==
    /\ runs[k.run] = NoRun
    /\ barrier = generation
    /\ k.epoch = 0 \/ IsCurrent(k.epoch)

CommitAdmission(k, generation) ==
    /\ AdmissionHolds(k, generation)
    /\ runs' = [runs EXCEPT ![k.run] = [content |-> k.content, version |-> 1]]
    /\ UNCHANGED <<authority, barrier, receipts>>

WriteAdmission(a) ==
    LET k == call[a] IN
    /\ pc[a] = "admit"
    /\ \/ /\ CommitAdmission(k, seen[a])
          /\ Goto(a, "confirm")
          /\ UNCHANGED <<delayed, seen, outcome>>
       \/ /\ CommitAdmission(k, seen[a])             \* the response is lost
          /\ Return(a, "failed")
          /\ UNCHANGED delayed
       \/ /\ ~AdmissionHolds(k, seen[a])
          /\ Goto(a, "raced")
          /\ UNCHANGED <<table, seen, outcome>>
       \/ /\ Postpone([kind |-> "admission", call |-> k, generation |-> seen[a]])
          /\ Return(a, "failed")
          /\ UNCHANGED <<authority, barrier, receipts, runs>>
    /\ UNCHANGED <<resident, call>>

\* Why the transaction was refused: the run, then the authority, then the
\* barrier.
ReadRaced(a) ==
    /\ pc[a] = "raced"
    /\ \/ IsSameRun(a) /\ Return(a, "replayed")
       \/ RunOf(a) = NoRun /\ Goto(a, "stale") /\ UNCHANGED <<seen, outcome>>
       \/ /\ RunOf(a) # NoRun /\ ~IsSameRun(a)
          /\ Goto(a, "taken")
          /\ UNCHANGED <<seen, outcome>>
    /\ UNCHANGED <<table, resident, call>>

ReadAuthority(a) ==
    /\ pc[a] \in {"stale", "taken"}
    /\ IF call[a].epoch # 0 /\ ~IsCurrent(call[a].epoch) THEN Return(a, "stale")
       ELSE IF pc[a] = "taken" THEN Return(a, "run-conflict")
       ELSE Goto(a, "again") /\ UNCHANGED <<seen, outcome>>
    /\ UNCHANGED <<table, resident, call>>

ReadCreated(a) ==
    /\ pc[a] = "confirm"
    /\ Return(a, IF IsSameRun(a) THEN "created" ELSE "failed")
    /\ UNCHANGED <<table, resident, call>>

\* The caller takes its answer, or stops in the middle of a call.
Leave(a) ==
    /\ pc[a] # "idle"
    /\ Goto(a, "idle")
    /\ seen' = [seen EXCEPT ![a] = NoBarrier]
    /\ outcome' = [outcome EXCEPT ![a] = "none"]
    /\ call' = [call EXCEPT ![a] = NoCall]
    /\ UNCHANGED <<table, resident>>
-----------------------------------------------------------------------------
\* A late transaction takes effect if its conditions hold, or is refused.
Deliver(t) ==
    /\ delayed' = delayed \ {t}
    /\ \/ t.kind = "transition" /\ CommitTransition(t.request)
       \/ t.kind = "admission" /\ CommitAdmission(t.call, t.generation)
       \/ UNCHANGED <<authority, barrier, receipts, runs>>
    /\ UNCHANGED <<pc, seen, resident, admitter>>

\* Another writer appends a transition to a run: the barrier guards creation.
Advance(i) ==
    /\ runs[i] # NoRun
    /\ runs[i].version < MaxMoves
    /\ runs' = [runs EXCEPT ![i].version = @ + 1]
    /\ UNCHANGED <<authority, barrier, receipts, delayed, pc, seen, resident,
                   admitter>>

ResidentNext(r) ==
    \/ Grant(r) \/ Resume(r) \/ Stop(r) \/ Select(r)
    \/ ReadReceipt(r) \/ ReadBarrier(r) \/ WriteTransition(r)
    \/ ReadAfterFailure(r) \/ Refuse(r)
    \/ ReadRun(r) \/ BeginSecondPass(r) \/ EndReconstruction(r) \/ Serve(r)

AdmitterNext(a) ==
    \/ Begin(a) \/ ReadExisting(a) \/ PrepareAdmission(a)
    \/ ReadClosedAuthority(a) \/ WriteAdmission(a) \/ ReadRaced(a)
    \/ ReadAuthority(a) \/ ReadCreated(a) \/ Leave(a)

Next ==
    \/ \E r \in Residents : ResidentNext(r)
    \/ \E a \in Admitters : AdmitterNext(a)
    \/ \E t \in delayed : Deliver(t)
    \/ \E i \in Runs : Advance(i)

Spec == Init /\ [][Next]_vars
-----------------------------------------------------------------------------
TypeOK ==
    /\ authority \in [epoch : 0..MaxEpoch, active : BOOLEAN]
    /\ barrier \in Barrier
    /\ receipts \subseteq Request
    /\ runs \in History
    /\ delayed \subseteq
          [kind : {"transition"}, request : Request] \cup
          [kind : {"admission"}, call : Call, generation : Barrier]
    /\ pc \in [Residents \cup Admitters ->
                 ResidentPhases \cup AdmitterPhases]
    /\ token \in [Residents -> 0..MaxEpoch]
    /\ seen \in [Residents \cup Admitters -> Barrier]
    /\ step \in [Residents -> Actions]
    /\ unread \in [Residents -> SUBSET Runs]
    /\ first \in [Residents -> History]
    /\ second \in [Residents -> History]
    /\ call \in [Admitters -> Call \cup {NoCall}]
    /\ outcome \in [Admitters -> Outcomes]
    /\ refused \subseteq Request
    /\ snapshot \in [Residents -> History]

Reconstructed(r) == step[r] = "reopen"

(***************************************************************************)
(* What a resident read twice and found equal is the history as it was at    *)
(* one moment, the end of its first pass, although both passes read run by   *)
(* run while other writers go on (reconstructResidentExecutionHistory).      *)
(***************************************************************************)
ReconstructionIsASnapshot ==
    \A r \in Residents : Reconstructed(r) => first[r] = snapshot[r]

(***************************************************************************)
(* A resident reopens the barrier over a history it knows in full: as long   *)
(* as the generation it closed or adopted is the current one, no run exists  *)
(* that it did not reconstruct, whatever admission was under way or was      *)
(* delayed when it closed (withReconstructedExecutionLedgerResidentAuthority).*)
(***************************************************************************)
QuiescentHistoryIsComplete ==
    \A r \in Residents :
        Reconstructed(r) /\ barrier = seen[r] =>
            \A i \in Admitted : second[r][i] # NoRun

\* A transition of the barrier answered with a conflict or a stale authority.
RefusedTransitionsNeverHappen == refused \cap receipts = {}

\* createManualRun: run-conflict means another content.
AdmissionAnswersHold == \A a \in Admitters :
    /\ outcome[a] \in {"created", "replayed"} =>
          RunOf(a).content = call[a].content
    /\ outcome[a] = "run-conflict" =>
          RunOf(a).content \notin {None, call[a].content}

(***************************************************************************)
(* What was answered stays so.  A refused transition never takes effect, not  *)
(* even by an earlier copy of the same request that is still under way        *)
(* (transition); a caller that is told its run was created, or loses the race *)
(* to an identical creation, finds its own content (createManualRun).         *)
(***************************************************************************)
BarrierAnswersHold == RefusedTransitionsNeverHappen /\ AdmissionAnswersHold
=============================================================================
