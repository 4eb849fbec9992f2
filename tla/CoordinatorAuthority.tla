------------------------ MODULE CoordinatorAuthority ------------------------
(***************************************************************************)
(* The coordinator authority table of one application                      *)
(* (src/core/lib/db/tables/coordinator-authority.js).                       *)
(*                                                                         *)
(* One mutable record names the coordinator that may issue durable work and *)
(* its epoch; one immutable receipt per request proves that the request     *)
(* took effect.  A call is a sequence of separate database operations:      *)
(* read the receipt, read the record, read the receipt again, write record  *)
(* and receipt in one conditional transaction, and read the receipt back    *)
(* when the response is a failure or is lost.  Calls of all clients         *)
(* interleave between any two of these operations.                          *)
(***************************************************************************)
EXTENDS Naturals, Sequences, FiniteSets

CONSTANTS
    Clients,        \* concurrent callers of the table
    Coordinators,   \* coordinator identities
    Requests,       \* caller-chosen request identities
    Times,          \* observed wall-clock readings, any order
    None,           \* no identity
    MaxSafe,        \* Number.MAX_SAFE_INTEGER: the last epoch and version
    MaxDelayed      \* bound: transactions under way without a waiting sender

ASSUME NoneIsNobody == None \notin Coordinators /\ None \notin Requests
ASSUME TimesAreNatural == Times \subseteq Nat
ASSUME BoundsArePositive == MaxSafe \in Nat \ {0} /\ MaxDelayed \in Nat

VARIABLES
    authority,  \* the mutable record, NoAuthority before the first grant
    receipts,   \* request -> its immutable receipt, or NoReceipt
    delayed,    \* transactions whose sender gave up, still able to arrive
    pc,         \* client -> next database operation of its call
    call,       \* client -> the call in progress
    base,       \* client -> the record the call read
    result,     \* client -> what the call returned
    log         \* history: every accepted record, in order

table == <<authority, receipts, log>>
vars == <<authority, receipts, delayed, pc, call, base, result, log>>
-----------------------------------------------------------------------------
(***************************************************************************)
(* Records, tokens and receipts.                                           *)
(***************************************************************************)
Token == [coordinatorId : Coordinators \cup {None},
          epoch         : 0..MaxSafe,
          requestId     : Requests \cup {None}]

NoToken == [coordinatorId |-> None, epoch |-> 0, requestId |-> None]

Snapshot == [status        : {"ABSENT", "ACTIVE", "RELEASED"},
             owner         : Token,
             recordVersion : 0..MaxSafe,
             heartbeatAt   : Nat,
             lastRequestId : Requests \cup {None}]

NoAuthority == [status |-> "ABSENT", owner |-> NoToken, recordVersion |-> 0,
                heartbeatAt |-> 0, lastRequestId |-> None]

Grants == {"acquire", "takeover"}
OwnerActions == {"heartbeat", "release"}
Receipted == Grants \cup OwnerActions

Call == [op            : Receipted \cup {"renew"},
         requestId     : Requests \cup {None},
         coordinatorId : Coordinators \cup {None},
         token         : Token,
         observed      : Snapshot,
         at            : Nat]

NoCall == [op |-> "acquire", requestId |-> None, coordinatorId |-> None,
           token |-> NoToken, observed |-> NoAuthority, at |-> 0]

\* createRequestDigest: the action and the semantic request, not the clock.
Digest(k) == [op |-> k.op, coordinatorId |-> k.coordinatorId,
              token |-> k.token, observed |-> k.observed]

Digests == [op : Receipted \cup {"renew"}, coordinatorId : Coordinators \cup {None},
            token : Token, observed : Snapshot]

Receipt == [retained : BOOLEAN, digest : Digests, authority : Snapshot]

NoReceipt ==
    [retained |-> FALSE,
     digest |-> Digest(NoCall),
     authority |-> NoAuthority]

Outcomes == {"none", "applied", "replayed", "request-conflict", "conflict",
             "stale", "unknown", "failed"}

Result == [outcome : Outcomes, authority : Snapshot]

NoResult == [outcome |-> "none", authority |-> NoAuthority]

larger(x, y) == IF x < y THEN y ELSE x

IsActive(s) == s.status = "ACTIVE"

sameAuthority(s, token) == s.owner = token

\* createAuthorityId and the acquire/takeover successor: the identity of an
\* epoch is made of the coordinator, the epoch and the granting request.
Granted(k, current) ==
    [status        |-> "ACTIVE",
     owner         |-> [coordinatorId |-> k.coordinatorId,
                        epoch         |-> current.owner.epoch + 1,
                        requestId     |-> k.requestId],
     recordVersion |-> current.recordVersion + 1,
     heartbeatAt   |-> k.at,
     lastRequestId |-> k.requestId]

\* heartbeat and renewRecordVersion: the same owner at the next version.
Beaten(k, current) ==
    [current EXCEPT !.recordVersion = @ + 1,
                    !.heartbeatAt = larger(@, k.at),
                    !.lastRequestId = k.requestId]

Released(k, current) ==
    [current EXCEPT !.status = "RELEASED",
                    !.recordVersion = @ + 1,
                    !.lastRequestId = k.requestId]

Successor(k, current) ==
    CASE k.op \in Grants -> Granted(k, current)
      [] k.op = "release" -> Released(k, current)
      [] OTHER -> Beaten(k, current)

\* nextEpoch and nextRecordVersion refuse to leave the safe integers.
Overflows(k, current) ==
    \/ current.recordVersion >= MaxSafe
    \/ k.op \in Grants /\ current.owner.epoch >= MaxSafe
-----------------------------------------------------------------------------
Init ==
    /\ authority = NoAuthority
    /\ receipts = [r \in Requests |-> NoReceipt]
    /\ delayed = {}
    /\ pc = [c \in Clients |-> "idle"]
    /\ call = [c \in Clients |-> NoCall]
    /\ base = [c \in Clients |-> NoAuthority]
    /\ result = [c \in Clients |-> NoResult]
    /\ log = << >>

Goto(c, label) == pc' = [pc EXCEPT ![c] = label]

Return(c, outcome, s) ==
    /\ Goto(c, "done")
    /\ result' = [result EXCEPT ![c] = [outcome |-> outcome, authority |-> s]]

\* A caller starts one call.  Tokens and observed records are copies of
\* records the table once accepted, however old.
Accepted == {log[i] : i \in DOMAIN log}

AcquireCalls ==
    [op : {"acquire"}, requestId : Requests, coordinatorId : Coordinators,
     token : {NoToken}, observed : {NoAuthority}, at : Times]

TakeoverCalls ==
    [op : {"takeover"}, requestId : Requests, coordinatorId : Coordinators,
     token : {NoToken}, observed : {s \in Accepted : IsActive(s)}, at : Times]

OwnerCalls ==
    [op : OwnerActions, requestId : Requests, coordinatorId : {None},
     token : {s.owner : s \in Accepted}, observed : {NoAuthority}, at : Times]

RenewCalls ==
    [op : {"renew"}, requestId : Requests, coordinatorId : {None},
     token : {NoToken}, observed : {s \in Accepted : IsActive(s)}, at : Times]

Begin(c) ==
    /\ pc[c] = "idle"
    /\ \E k \in AcquireCalls \cup TakeoverCalls \cup OwnerCalls \cup RenewCalls :
          /\ call' = [call EXCEPT ![c] = k]
          /\ Goto(c, IF k.op = "renew" THEN "read" ELSE "receipt")
    /\ UNCHANGED <<table, delayed, base, result>>

\* Mutant of AnswerFromReceipt: any receipt under the identity is an answer.
AnswerWithoutDigest(c, outcome) ==
    /\ receipts[call[c].requestId].retained
    /\ Return(c, outcome, receipts[call[c].requestId].authority)
    /\ UNCHANGED <<table, delayed, call, base>>

\* A retained receipt answers its own request for ever and refuses another
\* request under the same identity.
AnswerFromReceipt(c, outcome) ==
    LET receipt == receipts[call[c].requestId] IN
    /\ receipt.retained
    /\ IF receipt.digest = Digest(call[c])
       THEN Return(c, outcome, receipt.authority)
       ELSE Return(c, "request-conflict", NoAuthority)
    /\ UNCHANGED <<table, delayed, call, base>>

NoReceiptRetained(c) == ~receipts[call[c].requestId].retained

ReadReceipt(c) ==
    /\ pc[c] = "receipt"
    /\ \/ AnswerFromReceipt(c, "replayed")
       \/ /\ NoReceiptRetained(c)
          /\ Goto(c, "read")
          /\ UNCHANGED <<table, delayed, call, base, result>>
-----------------------------------------------------------------------------
(***************************************************************************)
(* Reading the record: each operation's own precondition on it.            *)
(***************************************************************************)
\* Mutant of Admits: the status of the owner's record is not compared.
AdmitsReleasedOwner(k, current) ==
    CASE k.op = "acquire"       -> ~IsActive(current)
      [] k.op \in OwnerActions  -> sameAuthority(current, k.token)
      [] k.op = "takeover"      -> current = k.observed
      [] k.op = "renew"         -> current = k.observed

Admits(k, current) ==
    CASE k.op = "acquire"       -> ~IsActive(current)
      [] k.op \in OwnerActions  -> IsActive(current) /\ sameAuthority(current, k.token)
      [] k.op = "takeover"      -> current = k.observed
      [] k.op = "renew"         -> current = k.observed

\* A renewal computes its successor before it reads anything.
RenewOverflows(c) ==
    /\ pc[c] = "read"
    /\ call[c].op = "renew"
    /\ Overflows(call[c], call[c].observed)
    /\ Return(c, "failed", NoAuthority)
    /\ UNCHANGED <<table, delayed, call, base>>

ReadAdmitted(c) ==
    /\ pc[c] = "read"
    /\ Admits(call[c], authority)
    /\ IF Overflows(call[c], authority)
       THEN Return(c, "failed", NoAuthority) /\ UNCHANGED base
       ELSE /\ base' = [base EXCEPT ![c] = authority]
            /\ Goto(c, IF call[c].op = "renew" THEN "write" ELSE "recheck")
            /\ UNCHANGED result
    /\ UNCHANGED <<table, delayed, call>>

\* acquire and takeover look for their own receipt before they report that
\* the record moved on; heartbeat and release do not.
ReadGrantRefused(c) ==
    /\ pc[c] = "read"
    /\ call[c].op \in Grants
    /\ ~Admits(call[c], authority)
    /\ Goto(c, "raced")
    /\ UNCHANGED <<table, delayed, call, base, result>>

ReadOwnerRefused(c) ==
    /\ pc[c] = "read"
    /\ call[c].op \in OwnerActions
    /\ ~Admits(call[c], authority)
    /\ Return(c, "stale", NoAuthority)
    /\ UNCHANGED <<table, delayed, call, base>>

\* The record a renewal meets: its own successor, a stranger's, or another
\* version of the same authority.
RenewalRefusal(k, current) ==
    IF IsActive(current) /\ sameAuthority(current, k.observed.owner)
    THEN "conflict" ELSE "stale"

\* Mutant of ReadRenewRefused: a repeated renewal does not know itself.
ReadRenewRefusedBlindly(c) ==
    /\ pc[c] = "read"
    /\ call[c].op = "renew"
    /\ ~Overflows(call[c], call[c].observed)
    /\ ~Admits(call[c], authority)
    /\ Return(c, RenewalRefusal(call[c], authority), NoAuthority)
    /\ UNCHANGED <<table, delayed, call, base>>

ReadRenewRefused(c) ==
    /\ pc[c] = "read"
    /\ call[c].op = "renew"
    /\ ~Overflows(call[c], call[c].observed)
    /\ ~Admits(call[c], authority)
    /\ IF authority = Successor(call[c], call[c].observed)
       THEN Return(c, "replayed", authority)
       ELSE Return(c, RenewalRefusal(call[c], authority), NoAuthority)
    /\ UNCHANGED <<table, delayed, call, base>>

ReadRaced(c) ==
    /\ pc[c] = "raced"
    /\ \/ AnswerFromReceipt(c, "replayed")
       \/ /\ NoReceiptRetained(c)
          /\ Return(c, "conflict", NoAuthority)
          /\ UNCHANGED <<table, delayed, call, base>>

\* writeTransition starts by reading the receipt once more.
Recheck(c) ==
    /\ pc[c] = "recheck"
    /\ \/ AnswerFromReceipt(c, "replayed")
       \/ /\ NoReceiptRetained(c)
          /\ Goto(c, "write")
          /\ UNCHANGED <<table, delayed, call, base, result>>
-----------------------------------------------------------------------------
(***************************************************************************)
(* The transaction: the record is still exactly the predecessor, field by  *)
(* field, and no receipt exists for the request.                           *)
(***************************************************************************)
exactRecordConditions(current) == authority = current

ConditionsHold(k, current) ==
    /\ exactRecordConditions(current)
    /\ k.op \in Receipted => ~receipts[k.requestId].retained

Commit(k, current) ==
    /\ ConditionsHold(k, current)
    /\ authority' = Successor(k, current)
    /\ log' = Append(log, Successor(k, current))
    /\ receipts' =
          IF k.op \in Receipted
          THEN [receipts EXCEPT ![k.requestId] =
                   [retained |-> TRUE, digest |-> Digest(k),
                    authority |-> Successor(k, current)]]
          ELSE receipts

\* Committed: the response arrives, or is lost.
WriteCommitted(c) ==
    /\ pc[c] = "write"
    /\ Commit(call[c], base[c])
    /\ \/ Return(c, "applied", Successor(call[c], base[c]))
       \/ Goto(c, "lost") /\ UNCHANGED result
    /\ UNCHANGED <<delayed, call, base>>

\* A condition failed: the refusal arrives, or is lost.
WriteRefused(c) ==
    /\ pc[c] = "write"
    /\ ~ConditionsHold(call[c], base[c])
    /\ Goto(c, "refused") \/ Goto(c, "lost")
    /\ UNCHANGED <<table, delayed, call, base, result>>

\* The sender gives up on a transaction that never arrives, or arrives later.
WriteUnanswered(c) ==
    /\ pc[c] = "write"
    /\ Goto(c, "lost")
    /\ \/ UNCHANGED delayed
       \/ /\ Cardinality(delayed) < MaxDelayed
          /\ delayed' = delayed \cup {[call |-> call[c], base |-> base[c]]}
    /\ UNCHANGED <<table, call, base, result>>

\* The database receives a transaction its sender no longer waits for.
Deliver ==
    /\ \E w \in delayed :
          /\ delayed' = delayed \ {w}
          /\ \/ Commit(w.call, w.base)
             \/ ~ConditionsHold(w.call, w.base) /\ UNCHANGED table
    /\ UNCHANGED <<pc, call, base, result>>
-----------------------------------------------------------------------------
(***************************************************************************)
(* Readback after a refused or an unanswered transaction.                  *)
(***************************************************************************)
Readback(c) ==
    /\ pc[c] \in {"refused", "lost"}
    /\ call[c].op \in Receipted
    /\ \/ AnswerFromReceipt(c, IF pc[c] = "lost" THEN "applied" ELSE "replayed")
       \/ /\ NoReceiptRetained(c)
          /\ Return(c, IF pc[c] = "lost" THEN "failed" ELSE "conflict", NoAuthority)
          /\ UNCHANGED <<table, delayed, call, base>>

\* A renewal has no receipt: only the record itself tells what became of it.
ReadbackRenewal(c) ==
    /\ pc[c] \in {"refused", "lost"}
    /\ call[c].op = "renew"
    /\ CASE authority = Successor(call[c], base[c]) ->
              Return(c, "applied", authority)
         [] authority = base[c] ->
              Return(c, "unknown", NoAuthority)
         [] OTHER ->
              Return(c, RenewalRefusal(call[c], authority), NoAuthority)
    /\ UNCHANGED <<table, delayed, call, base>>

\* Any read may throw; a renewal that cannot read back is unknown.
ReadFails(c) ==
    /\ pc[c] \in {"receipt", "read", "raced", "recheck", "refused", "lost"}
    /\ Return(c, IF call[c].op = "renew" /\ pc[c] \in {"refused", "lost"}
                 THEN "unknown" ELSE "failed", NoAuthority)
    /\ UNCHANGED <<table, delayed, call, base>>

\* The caller takes the answer and may call again, with the same request too.
Finish(c) ==
    /\ pc[c] = "done"
    /\ Goto(c, "idle")
    /\ result' = [result EXCEPT ![c] = NoResult]
    /\ call' = [call EXCEPT ![c] = NoCall]
    /\ base' = [base EXCEPT ![c] = NoAuthority]
    /\ UNCHANGED <<table, delayed>>

ClientStep(c) ==
    \/ Begin(c)
    \/ ReadReceipt(c)
    \/ RenewOverflows(c)
    \/ ReadAdmitted(c)
    \/ ReadGrantRefused(c)
    \/ ReadOwnerRefused(c)
    \/ ReadRenewRefused(c)
    \/ ReadRaced(c)
    \/ Recheck(c)
    \/ WriteCommitted(c)
    \/ WriteRefused(c)
    \/ WriteUnanswered(c)
    \/ Readback(c)
    \/ ReadbackRenewal(c)
    \/ ReadFails(c)
    \/ Finish(c)

Next == (\E c \in Clients : ClientStep(c)) \/ Deliver

Spec == Init /\ [][Next]_vars
-----------------------------------------------------------------------------
(***************************************************************************)
(* Properties.                                                             *)
(***************************************************************************)
TypeOK ==
    /\ authority \in Snapshot
    /\ receipts \in [Requests -> Receipt]
    /\ delayed \subseteq [call : Call, base : Snapshot]
    /\ pc \in [Clients -> {"idle", "receipt", "read", "raced", "recheck",
                           "write", "refused", "lost", "done"}]
    /\ call \in [Clients -> Call]
    /\ base \in [Clients -> Snapshot]
    /\ result \in [Clients -> Result]
    /\ log \in Seq(Snapshot)

\* The record is the last entry of a history without gaps: every change
\* advanced recordVersion by exactly one, so no accepted change was lost or
\* overwritten by a writer that had read an older record (writeTransition).
NoLostUpdate ==
    /\ authority.recordVersion = Len(log)
    /\ \A i \in DOMAIN log : log[i].recordVersion = i
    /\ authority = IF log = << >> THEN NoAuthority ELSE log[Len(log)]

\* Epochs never go back, all records of one epoch name the same coordinator
\* and the same grant, and an epoch that was released is never active again:
\* whoever holds a token of an epoch is fenced for ever once the next record
\* of another owner, or a release, was accepted.
OneOwnerPerEpoch ==
    \A i, j \in DOMAIN log : i < j =>
        \/ log[i].owner.epoch < log[j].owner.epoch
        \/ log[i].owner = log[j].owner /\ IsActive(log[i])

\* A receipt proves what its request did to which predecessor: an owner's
\* action changed its own active epoch and no other, a takeover replaced
\* exactly the record its caller confirmed, and an acquire never displaced
\* an active owner, whatever ran between the caller's read and its write.
ReceiptNamesPredecessor ==
    \A r \in Requests : receipts[r].retained =>
        LET s == receipts[r].authority
            d == receipts[r].digest
            i == s.recordVersion
            before == IF i = 1 THEN NoAuthority ELSE log[i - 1]
        IN  /\ i \in DOMAIN log /\ log[i] = s /\ s.lastRequestId = r
            /\ d.op \in OwnerActions => before.owner = d.token
                                          /\ s.owner = d.token /\ IsActive(before)
            /\ d.op = "takeover" => before = d.observed /\ s.owner.coordinatorId = d.coordinatorId
            /\ d.op = "acquire" => ~IsActive(before) /\ s.owner.coordinatorId = d.coordinatorId

\* What a caller is told took effect did take effect: a receipted answer is
\* the retained receipt of exactly this request, a renewal's answer is a
\* record of the history that carries the renewal's request; and the receipt
\* still proves what the request did, in acquire as in takeover.
AnswersAreDurable ==
    /\ ReceiptNamesPredecessor
    /\ \A c \in Clients : result[c].outcome \in {"applied", "replayed"} =>
        LET r == receipts[call[c].requestId]
            s == result[c].authority
        IN  IF call[c].op = "renew"
            THEN s.recordVersion \in DOMAIN log /\ log[s.recordVersion] = s
                   /\ s.lastRequestId = call[c].requestId
                   /\ s.owner = call[c].observed.owner
            ELSE r.retained /\ r.digest = Digest(call[c]) /\ r.authority = s

\* A receipt is never rewritten or removed: a request whose response was
\* lost, retried or delayed takes effect once.
ReceiptsAreImmutable ==
    [][\A r \in Requests : receipts[r].retained => receipts'[r] = receipts[r]]_vars

\* A refusal tells the truth when it is given. A grant or owner action that
\* is answered with a conflict has not taken effect, so the caller may decide
\* anew from the current record; a renewal that is reported lost is neither
\* the current record nor an unread success, so a resident that stops on it
\* (heartbeat, renewFromSnapshot) no longer holds the authority.
RefusalsAreReal ==
    [][\A c \in Clients : result[c].outcome = "none" =>
          /\ result'[c].outcome = "conflict" /\ call[c].op \in Receipted
             => ~receipts'[call[c].requestId].retained
          /\ result'[c].outcome \in {"conflict", "stale"} /\ call[c].op = "renew"
             => authority \notin {call[c].observed, Successor(call[c], call[c].observed)}]_vars

\* The table is one atomic register to its callers.
Register == INSTANCE AuthorityRegister
               WITH holder  <- authority.owner.coordinatorId,
                    epoch   <- authority.owner.epoch,
                    grant   <- authority.owner.requestId,
                    active  <- IsActive(authority),
                    version <- authority.recordVersion,
                    settled <- {r \in Requests : receipts[r].retained}

RegisterSpec == Register!Spec
=============================================================================
