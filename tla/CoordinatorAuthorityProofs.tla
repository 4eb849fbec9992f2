--------------------- MODULE CoordinatorAuthorityProofs ---------------------
(***************************************************************************)
(* Theorems about CoordinatorAuthority for any number of clients,           *)
(* coordinators, requests and delayed transactions.                         *)
(***************************************************************************)
EXTENDS CoordinatorAuthority, TLAPS

\* A call that names a predecessor names an active one, and a grant is
\* requested for a coordinator.
WellFormed(k) ==
    /\ k.op \in {"takeover", "renew"} => IsActive(k.observed)
    /\ k.op \in Grants /\ k.requestId # None => k.coordinatorId \in Coordinators

\* A transaction carries a predecessor that its call was admitted on and
\* whose successor stays within the safe integers.
Prepared(k, b) ==
    /\ k.requestId \in Requests
    /\ WellFormed(k)
    /\ Admits(k, b)
    /\ ~Overflows(k, b)

PreparedInv ==
    /\ \A c \in Clients : WellFormed(call[c])
    /\ \A c \in Clients : pc[c] # "idle" => call[c].requestId \in Requests
    /\ \A c \in Clients : pc[c] \in {"recheck", "write", "refused", "lost"}
                            => Prepared(call[c], base[c])
    /\ \A w \in delayed : Prepared(w.call, w.base)

\* A transaction that commits is the only step that changes the table.
TableStep ==
    \E k \in Call, b \in Snapshot : Prepared(k, b) /\ Commit(k, b)

TypeInv == TypeOK /\ PreparedInv

\* The successor of a prepared predecessor is a record.
LEMMA SuccessorType ==
    ASSUME NEW k \in Call, NEW b \in Snapshot, Prepared(k, b)
    PROVE  Successor(k, b) \in Snapshot
<1>1. b.recordVersion + 1 \in 0..MaxSafe /\ k.at \in Nat /\ b.heartbeatAt \in Nat
    BY BoundsArePositive DEF Prepared, Overflows, Snapshot, Call
<1>2. CASE k.op \in Grants
  <2>1. b.owner.epoch + 1 \in 0..MaxSafe
    BY <1>2, BoundsArePositive DEF Prepared, Overflows, Snapshot, Token
  <2>2. Successor(k, b) = Granted(k, b)
    BY <1>2 DEF Successor, Grants
  <2>3. [coordinatorId |-> k.coordinatorId, epoch |-> b.owner.epoch + 1,
         requestId |-> k.requestId] \in Token
    BY <2>1 DEF Token, Call
  <2> QED BY <1>1, <2>2, <2>3 DEF Granted, Snapshot, Call
<1>3. CASE k.op = "release"
  <2>1. Successor(k, b) = Released(k, b)
    BY <1>3 DEF Successor, Grants
  <2> QED BY <1>1, <2>1 DEF Released, Snapshot, Call
<1>4. CASE k.op \notin Grants /\ k.op # "release"
  <2>1. Successor(k, b) = Beaten(k, b)
    BY <1>4 DEF Successor
  <2>2. larger(b.heartbeatAt, k.at) \in Nat
    BY <1>1 DEF larger
  <2> QED BY <1>1, <2>1, <2>2 DEF Beaten, Snapshot, Call
<1> QED BY <1>2, <1>3, <1>4

LEMMA NoAuthorityType == NoAuthority \in Snapshot /\ NoToken \in Token
    BY BoundsArePositive DEF NoAuthority, Snapshot, NoToken, Token

LEMMA NoCallType == NoCall \in Call /\ WellFormed(NoCall)
    BY NoAuthorityType DEF NoCall, Call, WellFormed, Receipted, Grants

LEMMA DigestType ==
    ASSUME NEW k \in Call
    PROVE  Digest(k) \in Digests
    BY DEF Digest, Digests, Call

\* A commit keeps the table well typed.
LEMMA CommitType ==
    ASSUME TypeOK, NEW k \in Call, NEW b \in Snapshot, Prepared(k, b), Commit(k, b)
    PROVE  /\ authority' \in Snapshot
           /\ receipts' \in [Requests -> Receipt]
           /\ log' \in Seq(Snapshot)
<1>1. Successor(k, b) \in Snapshot
    BY SuccessorType
<1>2. Digest(k) \in Digests
    BY DigestType
<1>3. [retained |-> TRUE, digest |-> Digest(k), authority |-> Successor(k, b)] \in Receipt
    BY <1>1, <1>2 DEF Receipt
<1>4. receipts' \in [Requests -> Receipt]
    BY <1>3 DEF TypeOK, Commit
<1> QED BY <1>1, <1>4 DEF TypeOK, Commit

\* What a caller can pass is well typed and well formed.
LEMMA CallsType ==
    ASSUME TypeOK,
           NEW k \in AcquireCalls \cup TakeoverCalls \cup OwnerCalls \cup RenewCalls
    PROVE  k \in Call /\ WellFormed(k)
<1>1. Accepted \subseteq Snapshot
    BY DEF Accepted, TypeOK
<1>2. \A s \in Snapshot : s.owner \in Token
    BY DEF Snapshot
<1> USE NoAuthorityType, TimesAreNatural, <1>1, <1>2
        DEF Call, WellFormed, Receipted, Grants, OwnerActions
<1>3. CASE k \in AcquireCalls
    BY <1>3 DEF AcquireCalls
<1>4. CASE k \in TakeoverCalls
    BY <1>4 DEF TakeoverCalls
<1>5. CASE k \in OwnerCalls
    BY <1>5 DEF OwnerCalls
<1>6. CASE k \in RenewCalls
    BY <1>6 DEF RenewCalls
<1> QED BY <1>3, <1>4, <1>5, <1>6

-----------------------------------------------------------------------------
(***************************************************************************)
(* Type correctness.  TypeOK needs PreparedInv: without it a transaction    *)
(* could carry a predecessor whose successor leaves the safe integers.      *)
(***************************************************************************)
LEMMA TypeInit == Init => TypeInv
<1> SUFFICES ASSUME Init PROVE TypeInv
    OBVIOUS
<1>1. NoReceipt \in Receipt
    BY NoAuthorityType, NoCallType, DigestType DEF NoReceipt, Receipt
<1>2. NoResult \in Result
    BY NoAuthorityType DEF NoResult, Result, Outcomes
<1> QED BY <1>1, <1>2, NoAuthorityType, NoCallType
        DEF Init, TypeInv, TypeOK, PreparedInv

\* A returned answer keeps the types of the client's variables.
LEMMA ReturnType ==
    ASSUME TypeOK, NEW c \in Clients, NEW outcome \in Outcomes, NEW s \in Snapshot,
           Return(c, outcome, s)
    PROVE  /\ pc' \in [Clients -> {"idle", "receipt", "read", "raced", "recheck",
                                   "write", "refused", "lost", "done"}]
           /\ result' \in [Clients -> Result]
           /\ pc' = [pc EXCEPT ![c] = "done"]
BY DEF Return, Goto, TypeOK, Result

\* Steps of one client that leave the table, its call and its predecessor
\* alone and do not prepare a transaction.
LEMMA QuietStepType ==
    ASSUME TypeInv, NEW c \in Clients,
           pc[c] # "idle", UNCHANGED <<table, delayed, call, base>>,
           \/ /\ \E outcome \in Outcomes, s \in Snapshot : Return(c, outcome, s)
           \/ /\ UNCHANGED result
              /\ \E label \in {"read", "raced", "write", "refused", "lost"} : Goto(c, label)
              /\ pc'[c] \in {"write", "refused", "lost"} => pc[c] \in {"recheck", "write"}
    PROVE  TypeInv'
<1> USE DEF TypeInv
<1>1. CASE \E outcome \in Outcomes, s \in Snapshot : Return(c, outcome, s)
  <2>1. /\ pc' \in [Clients -> {"idle", "receipt", "read", "raced", "recheck",
                                   "write", "refused", "lost", "done"}]
        /\ result' \in [Clients -> Result]
        /\ pc' = [pc EXCEPT ![c] = "done"]
    BY <1>1, ReturnType
  <2>2. TypeOK'
    BY <2>1 DEF TypeOK, table
  <2>3. PreparedInv'
    BY <2>1 DEF TypeOK, PreparedInv
  <2> QED BY <2>2, <2>3
<1>2. CASE /\ UNCHANGED result
           /\ \E label \in {"read", "raced", "write", "refused", "lost"} : Goto(c, label)
           /\ pc'[c] \in {"write", "refused", "lost"} => pc[c] \in {"recheck", "write"}
  <2>1. PICK label \in {"read", "raced", "write", "refused", "lost"} :
            pc' = [pc EXCEPT ![c] = label]
    BY <1>2 DEF Goto
  <2>2. TypeOK'
    BY <1>2, <2>1 DEF TypeOK, table
  <2>3. PreparedInv'
    BY <1>2, <2>1 DEF TypeOK, PreparedInv
  <2> QED BY <2>2, <2>3
<1> QED BY <1>1, <1>2

LEMMA AnswerFromReceiptType ==
    ASSUME TypeInv, NEW c \in Clients, NEW outcome \in Outcomes,
           pc[c] # "idle", AnswerFromReceipt(c, outcome)
    PROVE  TypeInv'
<1>1. receipts[call[c].requestId].authority \in Snapshot
    BY DEF TypeInv, TypeOK, PreparedInv, Receipt
<1>2. \E o \in Outcomes, s \in Snapshot : Return(c, o, s)
    BY <1>1, NoAuthorityType DEF AnswerFromReceipt, Outcomes
<1> QED BY <1>2, QuietStepType DEF AnswerFromReceipt

\* The requests of a call are requests.
LEMMA CallsRequest ==
    ASSUME NEW k \in AcquireCalls \cup TakeoverCalls \cup OwnerCalls \cup RenewCalls
    PROVE  k.requestId \in Requests
BY DEF AcquireCalls, TakeoverCalls, OwnerCalls, RenewCalls

LEMMA CommitTypeInv ==
    ASSUME TypeInv, NEW k \in Call, NEW b \in Snapshot, Prepared(k, b), Commit(k, b),
           UNCHANGED <<call, base>>,
           delayed' \subseteq delayed,
           \/ UNCHANGED <<pc, result>>
           \/ /\ delayed' = delayed
              /\ \E c \in Clients :
                    /\ pc[c] = "write"
                    /\ \/ \E o \in Outcomes, s \in Snapshot : Return(c, o, s)
                       \/ Goto(c, "lost") /\ UNCHANGED result
    PROVE  TypeInv'
<1> USE DEF TypeInv
<1>1. /\ authority' \in Snapshot
      /\ receipts' \in [Requests -> Receipt]
      /\ log' \in Seq(Snapshot)
    BY CommitType
<1>2. CASE UNCHANGED <<pc, result>>
    BY <1>1, <1>2 DEF TypeOK, PreparedInv
<1>3. ASSUME NEW c \in Clients, pc[c] = "write",
             \E o \in Outcomes, s \in Snapshot : Return(c, o, s)
      PROVE  TypeInv'
  <2>1. /\ pc' \in [Clients -> {"idle", "receipt", "read", "raced", "recheck",
                                   "write", "refused", "lost", "done"}]
        /\ result' \in [Clients -> Result]
        /\ pc' = [pc EXCEPT ![c] = "done"]
    BY <1>3, ReturnType
  <2> QED BY <1>1, <1>3, <2>1 DEF TypeOK, PreparedInv
<1>4. ASSUME NEW c \in Clients, pc[c] = "write", Goto(c, "lost"), UNCHANGED result
      PROVE  TypeInv'
    BY <1>1, <1>4 DEF TypeOK, PreparedInv, Goto
<1> QED BY <1>2, <1>3, <1>4

LEMMA TypeNext == TypeInv /\ [Next]_vars => TypeInv'
<1> SUFFICES ASSUME TypeInv, [Next]_vars PROVE TypeInv'
    OBVIOUS
<1> USE NoAuthorityType
<1>1. ASSUME NEW c \in Clients, Begin(c) PROVE TypeInv'
  <2>1. PICK k \in AcquireCalls \cup TakeoverCalls \cup OwnerCalls \cup RenewCalls :
           /\ call' = [call EXCEPT ![c] = k]
           /\ pc' = [pc EXCEPT ![c] = IF k.op = "renew" THEN "read" ELSE "receipt"]
    BY <1>1 DEF Begin, Goto
  <2>2. k \in Call /\ WellFormed(k) /\ k.requestId \in Requests
    BY CallsType, CallsRequest DEF TypeInv
  <2> QED BY <1>1, <2>1, <2>2 DEF Begin, TypeInv, TypeOK, PreparedInv, table
<1>2. ASSUME NEW c \in Clients, ReadReceipt(c) PROVE TypeInv'
  <2>1. CASE AnswerFromReceipt(c, "replayed")
    BY <1>2, <2>1, AnswerFromReceiptType DEF ReadReceipt, Outcomes
  <2> QED BY <1>2, <2>1, QuietStepType DEF ReadReceipt, Goto, TypeInv, TypeOK
<1>3. ASSUME NEW c \in Clients, RenewOverflows(c) PROVE TypeInv'
    BY <1>3, QuietStepType DEF RenewOverflows, Outcomes
<1>4. ASSUME NEW c \in Clients, ReadAdmitted(c) PROVE TypeInv'
  <2>1. CASE Overflows(call[c], authority)
    BY <1>4, <2>1, QuietStepType DEF ReadAdmitted, Outcomes
  <2>2. CASE ~Overflows(call[c], authority)
    <3>1. base' = [base EXCEPT ![c] = authority] /\ UNCHANGED <<table, delayed, call, result>>
      BY <1>4, <2>2 DEF ReadAdmitted
    <3>2. pc' = [pc EXCEPT ![c] = IF call[c].op = "renew" THEN "write" ELSE "recheck"]
      BY <1>4, <2>2 DEF ReadAdmitted, Goto
    <3>3. Prepared(call[c], authority)
      BY <1>4, <2>2 DEF ReadAdmitted, Prepared, TypeInv, PreparedInv
    <3>4. TypeOK'
      BY <3>1, <3>2 DEF TypeInv, TypeOK, table
    <3>5. PreparedInv'
      BY <1>4, <3>1, <3>2, <3>3 DEF TypeInv, TypeOK, PreparedInv, ReadAdmitted
    <3> QED BY <3>4, <3>5 DEF TypeInv
  <2> QED BY <2>1, <2>2
<1>5. ASSUME NEW c \in Clients, ReadGrantRefused(c) PROVE TypeInv'
    BY <1>5, QuietStepType DEF ReadGrantRefused, Goto, TypeInv, TypeOK
<1>6. ASSUME NEW c \in Clients, ReadOwnerRefused(c) PROVE TypeInv'
    BY <1>6, QuietStepType DEF ReadOwnerRefused, Outcomes
<1>7. ASSUME NEW c \in Clients, ReadRenewRefused(c) PROVE TypeInv'
  <2>1. authority \in Snapshot
    BY DEF TypeInv, TypeOK
  <2>2. \E o \in Outcomes, s \in Snapshot : Return(c, o, s)
    BY <1>7, <2>1 DEF ReadRenewRefused, RenewalRefusal, Outcomes
  <2> QED BY <1>7, <2>2, QuietStepType DEF ReadRenewRefused
<1>8. ASSUME NEW c \in Clients, ReadRaced(c) PROVE TypeInv'
  <2>1. CASE AnswerFromReceipt(c, "replayed")
    BY <1>8, <2>1, AnswerFromReceiptType DEF ReadRaced, Outcomes
  <2> QED BY <1>8, <2>1, QuietStepType DEF ReadRaced, Outcomes
<1>9. ASSUME NEW c \in Clients, Recheck(c) PROVE TypeInv'
  <2>1. CASE AnswerFromReceipt(c, "replayed")
    BY <1>9, <2>1, AnswerFromReceiptType DEF Recheck, Outcomes
  <2> QED BY <1>9, <2>1, QuietStepType DEF Recheck, Goto, TypeInv, TypeOK
<1>10. ASSUME NEW c \in Clients, WriteCommitted(c) PROVE TypeInv'
  <2>1. call[c] \in Call /\ base[c] \in Snapshot /\ Prepared(call[c], base[c])
    BY <1>10 DEF WriteCommitted, TypeInv, TypeOK, PreparedInv
  <2>2. Successor(call[c], base[c]) \in Snapshot
    BY <2>1, SuccessorType
  <2> QED BY <1>10, <2>1, <2>2, CommitTypeInv DEF WriteCommitted, Outcomes
<1>11. ASSUME NEW c \in Clients, WriteRefused(c) PROVE TypeInv'
    BY <1>11, QuietStepType DEF WriteRefused, Goto, TypeInv, TypeOK
<1>12. ASSUME NEW c \in Clients, WriteUnanswered(c) PROVE TypeInv'
  <2>1. CASE UNCHANGED delayed
    BY <1>12, <2>1, QuietStepType DEF WriteUnanswered, Goto, TypeInv, TypeOK
  <2>2. CASE delayed' = delayed \cup {[call |-> call[c], base |-> base[c]]}
    <3>1. call[c] \in Call /\ base[c] \in Snapshot /\ Prepared(call[c], base[c])
      BY <1>12 DEF WriteUnanswered, TypeInv, TypeOK, PreparedInv
    <3>2. /\ UNCHANGED <<table, call, base, result>>
          /\ pc' = [pc EXCEPT ![c] = "lost"] /\ pc[c] = "write"
      BY <1>12 DEF WriteUnanswered, Goto
    <3>3. TypeOK'
      BY <2>2, <3>1, <3>2 DEF TypeInv, TypeOK, table
    <3>4. PreparedInv'
      BY <2>2, <3>1, <3>2 DEF TypeInv, TypeOK, PreparedInv
    <3> QED BY <3>3, <3>4 DEF TypeInv
  <2> QED BY <1>12, <2>1, <2>2 DEF WriteUnanswered
<1>13. ASSUME NEW c \in Clients, Readback(c) PROVE TypeInv'
  <2>1. CASE AnswerFromReceipt(c, IF pc[c] = "lost" THEN "applied" ELSE "replayed")
    BY <1>13, <2>1, AnswerFromReceiptType DEF Readback, Outcomes
  <2> QED BY <1>13, <2>1, QuietStepType DEF Readback, Outcomes
<1>14. ASSUME NEW c \in Clients, ReadbackRenewal(c) PROVE TypeInv'
  <2>1. authority \in Snapshot
    BY DEF TypeInv, TypeOK
  <2>2. \E o \in Outcomes, s \in Snapshot : Return(c, o, s)
    BY <1>14, <2>1 DEF ReadbackRenewal, RenewalRefusal, Outcomes
  <2> QED BY <1>14, <2>2, QuietStepType DEF ReadbackRenewal
<1>15. ASSUME NEW c \in Clients, ReadFails(c) PROVE TypeInv'
    BY <1>15, QuietStepType DEF ReadFails, Outcomes
<1>16. ASSUME NEW c \in Clients, Finish(c) PROVE TypeInv'
  <2>1. NoResult \in Result
    BY DEF NoResult, Result, Outcomes
  <2> QED BY <1>16, <2>1, NoCallType DEF Finish, Goto, table, TypeInv, TypeOK, PreparedInv
<1>17. ASSUME Deliver PROVE TypeInv'
  <2>1. PICK w \in delayed :
           /\ delayed' = delayed \ {w}
           /\ \/ Commit(w.call, w.base)
              \/ ~ConditionsHold(w.call, w.base) /\ UNCHANGED table
    BY <1>17 DEF Deliver
  <2>2. w.call \in Call /\ w.base \in Snapshot /\ Prepared(w.call, w.base)
    BY DEF TypeInv, TypeOK, PreparedInv
  <2>3. UNCHANGED <<pc, call, base, result>>
    BY <1>17 DEF Deliver
  <2>4. CASE Commit(w.call, w.base)
    BY <2>1, <2>2, <2>3, <2>4, CommitTypeInv
  <2>5. CASE UNCHANGED table
    BY <2>1, <2>3, <2>5 DEF table, TypeInv, TypeOK, PreparedInv
  <2> QED BY <2>1, <2>4, <2>5
<1>18. CASE UNCHANGED vars
    BY <1>18 DEF vars, table, TypeInv, TypeOK, PreparedInv
<1> QED BY <1>1, <1>2, <1>3, <1>4, <1>5, <1>6, <1>7, <1>8, <1>9, <1>10, <1>11,
           <1>12, <1>13, <1>14, <1>15, <1>16, <1>17, <1>18 DEF Next, ClientStep

\* Every variable keeps its type, and epochs and versions never leave the
\* safe integers, for any number of callers and of transactions under way.
THEOREM TypeCorrect == Spec => []TypeOK
<1>1. Spec => []TypeInv
    BY TypeInit, TypeNext, PTL DEF Spec
<1> QED BY <1>1, PTL DEF TypeInv

-----------------------------------------------------------------------------
(***************************************************************************)
(* The history.  Only a committing transaction changes the table; it found  *)
(* the exact predecessor, so it appends one version to the history.         *)
(***************************************************************************)
LEMMA OnlyCommitsChangeTheTable ==
    ASSUME TypeInv, [Next]_vars
    PROVE  TableStep \/ UNCHANGED table
<1>1. ASSUME NEW c \in Clients, WriteCommitted(c) PROVE TableStep
  <2>1. call[c] \in Call /\ base[c] \in Snapshot /\ Prepared(call[c], base[c])
    BY <1>1 DEF WriteCommitted, TypeInv, TypeOK, PreparedInv
  <2> QED BY <1>1, <2>1 DEF WriteCommitted, TableStep
<1>2. ASSUME Deliver PROVE TableStep \/ UNCHANGED table
  <2>1. PICK w \in delayed : Commit(w.call, w.base) \/ UNCHANGED table
    BY <1>2 DEF Deliver
  <2>2. w.call \in Call /\ w.base \in Snapshot /\ Prepared(w.call, w.base)
    BY DEF TypeInv, TypeOK, PreparedInv
  <2> QED BY <2>1, <2>2 DEF TableStep
<1>3. ASSUME NEW c \in Clients, ClientStep(c), ~WriteCommitted(c) PROVE UNCHANGED table
    BY <1>3 DEF ClientStep, Begin, ReadReceipt, RenewOverflows, ReadAdmitted,
                ReadGrantRefused, ReadOwnerRefused, ReadRenewRefused, ReadRaced,
                Recheck, WriteRefused, WriteUnanswered, Readback,
                ReadbackRenewal, ReadFails, Finish, AnswerFromReceipt
<1> QED BY <1>1, <1>2, <1>3 DEF Next, vars, table

HistoryInv == TypeInv /\ NoLostUpdate /\ OneOwnerPerEpoch

\* What a commit does to record and history.
LEMMA CommitExtendsHistory ==
    ASSUME HistoryInv, NEW k \in Call, NEW b \in Snapshot, Prepared(k, b), Commit(k, b)
    PROVE  /\ b = authority
           /\ authority' = Successor(k, authority)
           /\ authority'.recordVersion = authority.recordVersion + 1
           /\ authority'.lastRequestId = k.requestId
           /\ log' = Append(log, authority')
           /\ Len(log) \in Nat /\ authority.recordVersion = Len(log)
           /\ Len(log') = Len(log) + 1
           /\ \A i \in 1..Len(log) : log'[i] = log[i]
           /\ log'[Len(log) + 1] = authority'
           /\ \/ /\ k.op \in Grants
                 /\ authority'.owner = [coordinatorId |-> k.coordinatorId,
                                        epoch |-> authority.owner.epoch + 1,
                                        requestId |-> k.requestId]
                 /\ IsActive(authority')
              \/ /\ k.op \notin Grants
                 /\ authority'.owner = authority.owner
                 /\ IsActive(authority)
<1>1. b = authority /\ authority' = Successor(k, authority) /\ log' = Append(log, authority')
    BY DEF Commit, ConditionsHold, exactRecordConditions
<1>2. authority \in Snapshot /\ authority' \in Snapshot /\ log \in Seq(Snapshot)
    BY CommitType DEF HistoryInv, TypeInv, TypeOK
<1>3. /\ Len(log) \in Nat /\ Len(log') = Len(log) + 1
      /\ \A i \in 1..Len(log) : log'[i] = log[i]
      /\ log'[Len(log) + 1] = authority'
    BY <1>1, <1>2
<1>4. k.op \in Grants \cup OwnerActions \cup {"renew"}
    BY DEF Call, Receipted
<1>5. CASE k.op \in Grants
  <2>1. authority' = Granted(k, authority)
    BY <1>1, <1>5 DEF Successor, Grants
  <2> QED BY <1>1, <1>2, <1>3, <1>5, <2>1 DEF Granted, IsActive, HistoryInv, NoLostUpdate
<1>6. CASE k.op = "release"
  <2>1. authority' = Released(k, authority)
    BY <1>1, <1>6 DEF Successor, Grants
  <2>2. IsActive(authority)
    BY <1>1, <1>6 DEF Prepared, Admits, OwnerActions
  <2> QED BY <1>1, <1>2, <1>3, <1>6, <2>1, <2>2
          DEF Released, Grants, Snapshot, HistoryInv, NoLostUpdate
<1>7. CASE k.op \in {"heartbeat", "renew"}
  <2>1. authority' = Beaten(k, authority)
    BY <1>1, <1>7 DEF Successor, Grants
  <2>2. IsActive(authority)
    BY <1>1, <1>7 DEF Prepared, Admits, OwnerActions, WellFormed
  <2> QED BY <1>1, <1>2, <1>3, <1>7, <2>1, <2>2
          DEF Beaten, Grants, Snapshot, HistoryInv, NoLostUpdate
<1> QED BY <1>4, <1>5, <1>6, <1>7 DEF OwnerActions

LEMMA HistoryInit == Init => HistoryInv
<1> SUFFICES ASSUME Init PROVE HistoryInv
    OBVIOUS
<1>1. log = << >> /\ authority = NoAuthority
    BY DEF Init
<1> QED BY <1>1, TypeInit DEF HistoryInv, NoLostUpdate, OneOwnerPerEpoch, NoAuthority

LEMMA HistoryNext == HistoryInv /\ [Next]_vars => HistoryInv'
<1> SUFFICES ASSUME HistoryInv, [Next]_vars PROVE HistoryInv'
    OBVIOUS
<1>1. TypeInv'
    BY TypeNext DEF HistoryInv
<1>2. CASE UNCHANGED table
    BY <1>1, <1>2 DEF HistoryInv, NoLostUpdate, OneOwnerPerEpoch, table
<1>3. CASE TableStep
  <2>1. PICK k \in Call, b \in Snapshot : Prepared(k, b) /\ Commit(k, b)
    BY <1>3 DEF TableStep
  <2>0. \/ /\ k.op \in Grants
           /\ authority'.owner = [coordinatorId |-> k.coordinatorId,
                                  epoch |-> authority.owner.epoch + 1,
                                  requestId |-> k.requestId]
           /\ IsActive(authority')
        \/ /\ k.op \notin Grants
           /\ authority'.owner = authority.owner
           /\ IsActive(authority)
    BY <2>1, CommitExtendsHistory
  <2> DEFINE n == Len(log)
  <2>2. /\ authority'.recordVersion = n + 1
        /\ n \in Nat /\ Len(log') = n + 1
        /\ \A i \in 1..n : log'[i] = log[i]
        /\ log'[n + 1] = authority'
        /\ DOMAIN log = 1..n /\ DOMAIN log' = 1..(n + 1)
        /\ log' # << >>
    <3>1. log \in Seq(Snapshot) /\ log' \in Seq(Snapshot)
      BY <1>1 DEF HistoryInv, TypeInv, TypeOK
    <3>2. /\ authority'.recordVersion = authority.recordVersion + 1
          /\ authority.recordVersion = n
          /\ n \in Nat /\ Len(log') = n + 1
          /\ \A i \in 1..n : log'[i] = log[i]
          /\ log'[n + 1] = authority'
      BY <2>1, CommitExtendsHistory
    <3> QED BY <3>1, <3>2
  <2>6. n \in Nat
    BY <2>2
  <2> HIDE DEF n
  <2>3. NoLostUpdate'
    BY <2>2 DEF HistoryInv, NoLostUpdate
  <2>4. ASSUME NEW i \in 1..n
        PROVE  \/ log[i].owner.epoch < authority'.owner.epoch
               \/ log[i].owner = authority'.owner /\ IsActive(log[i])
    <3>1. authority = log[n]
      <4>1. log # << >>
        BY <2>2, <2>6
      <4> QED BY <4>1 DEF HistoryInv, NoLostUpdate, n
    <3>2. /\ log[i] \in Snapshot /\ log[n] \in Snapshot
          /\ log[i].owner.epoch \in Nat /\ log[n].owner.epoch \in Nat
      <4>1. log \in Seq(Snapshot) /\ n \in 1..n /\ n = Len(log)
        BY <2>6 DEF HistoryInv, TypeInv, TypeOK, n
      <4>2. log[i] \in Snapshot /\ log[n] \in Snapshot
        BY <4>1
      <4>3. \A x \in Snapshot : x.owner.epoch \in Nat
        BY BoundsArePositive DEF Snapshot, Token
      <4> QED BY <4>2, <4>3
    <3>0. i = n \/ i < n
      BY <2>6
    <3>3. \/ i = n
          \/ log[i].owner.epoch < log[n].owner.epoch
          \/ log[i].owner = log[n].owner /\ IsActive(log[i])
      BY <2>2, <3>0 DEF HistoryInv, OneOwnerPerEpoch
    <3>4. CASE k.op \in Grants
      <4>1. authority'.owner.epoch = authority.owner.epoch + 1
        BY <2>0, <3>4
      <4>2. log[i].owner.epoch <= log[n].owner.epoch
        BY <3>2, <3>3
      <4> QED BY <3>1, <3>2, <4>1, <4>2
    <3>5. CASE k.op \notin Grants
      <4>1. authority'.owner = authority.owner /\ IsActive(authority)
        BY <2>0, <3>5
      <4> QED BY <3>1, <3>3, <4>1
    <3> QED BY <3>4, <3>5
  <2>5. OneOwnerPerEpoch'
    <3> SUFFICES ASSUME NEW i \in 1..(n + 1), NEW j \in 1..(n + 1), i < j
                 PROVE  \/ log'[i].owner.epoch < log'[j].owner.epoch
                        \/ log'[i].owner = log'[j].owner /\ IsActive(log'[i])
      BY <2>2 DEF OneOwnerPerEpoch, IsActive
    <3>1. i \in 1..n /\ log'[i] = log[i]
      BY <2>2
    <3>2. CASE j = n + 1
      BY <2>2, <2>4, <3>1, <3>2
    <3>3. CASE j # n + 1
      <4>1. j \in 1..n /\ log'[j] = log[j]
        BY <2>2, <3>3
      <4> QED BY <2>2, <3>1, <4>1 DEF HistoryInv, OneOwnerPerEpoch
    <3> QED BY <3>2, <3>3
  <2> QED BY <1>1, <2>3, <2>5 DEF HistoryInv
<1> QED BY <1>2, <1>3, OnlyCommitsChangeTheTable DEF HistoryInv

\* No accepted record is ever lost or overwritten by a writer that read an
\* older one, and an epoch has one owner and never comes back.
THEOREM HistoryCorrect == Spec => [](NoLostUpdate /\ OneOwnerPerEpoch)
<1>1. Spec => []HistoryInv
    BY HistoryInit, HistoryNext, PTL DEF Spec
<1> QED BY <1>1, PTL DEF HistoryInv

-----------------------------------------------------------------------------
(***************************************************************************)
(* Receipts.                                                               *)
(***************************************************************************)
\* A request takes effect at most once and its receipt stays what it was,
\* whatever was retried, duplicated or delivered late.
THEOREM ReceiptsCorrect == Spec => ReceiptsAreImmutable
<1>1. HistoryInv /\ [Next]_vars
        => [\A r \in Requests : receipts[r].retained => receipts'[r] = receipts[r]]_vars
  <2> SUFFICES ASSUME HistoryInv, [Next]_vars, NEW r \in Requests, receipts[r].retained
               PROVE  receipts'[r] = receipts[r]
    OBVIOUS
  <2>1. CASE UNCHANGED table
    BY <2>1 DEF table
  <2>2. CASE TableStep
    <3>1. PICK k \in Call, b \in Snapshot : Commit(k, b)
      BY <2>2 DEF TableStep
    <3>2. CASE k.op \in Receipted
      <4>1. ~receipts[k.requestId].retained
        BY <3>1, <3>2 DEF Commit, ConditionsHold
      <4>2. r # k.requestId
        BY <4>1
      <4> QED BY <3>1, <3>2, <4>2 DEF Commit, HistoryInv, TypeInv, TypeOK
    <3>3. CASE k.op \notin Receipted
      BY <3>1, <3>3 DEF Commit
    <3> QED BY <3>2, <3>3
  <2> QED BY <2>1, <2>2, OnlyCommitsChangeTheTable DEF HistoryInv
<1>2. Spec => []HistoryInv
  BY HistoryInit, HistoryNext, PTL DEF Spec
<1> QED BY <1>1, <1>2, PTL DEF Spec, ReceiptsAreImmutable
-----------------------------------------------------------------------------
(***************************************************************************)
(* Answers.  A receipt and a record of the history never change, so what    *)
(* they prove when a caller is answered they prove for ever.                *)
(***************************************************************************)

\* The history and the receipts only grow.
LEMMA TableGrows ==
    ASSUME HistoryInv, [Next]_vars
    PROVE  /\ \A i \in DOMAIN log : i \in DOMAIN log' /\ log'[i] = log[i]
           /\ \A r \in Requests : receipts[r].retained => receipts'[r] = receipts[r]
<1>1. CASE UNCHANGED table
  BY <1>1 DEF table
<1>2. ASSUME NEW k \in Call, NEW b \in Snapshot, Prepared(k, b), Commit(k, b)
      PROVE  /\ \A i \in DOMAIN log : i \in DOMAIN log' /\ log'[i] = log[i]
             /\ \A r \in Requests : receipts[r].retained => receipts'[r] = receipts[r]
  <2>1. /\ log \in Seq(Snapshot) /\ log' \in Seq(Snapshot)
        /\ receipts \in [Requests -> Receipt]
    BY <1>2, CommitType DEF HistoryInv, TypeInv, TypeOK
  <2>2. /\ Len(log) \in Nat /\ Len(log') = Len(log) + 1
        /\ \A i \in 1..Len(log) : log'[i] = log[i]
    BY <1>2, CommitExtendsHistory
  <2>3. \A r \in Requests : receipts[r].retained => receipts'[r] = receipts[r]
    BY <1>2, <2>1 DEF Commit, ConditionsHold
  <2> QED BY <2>1, <2>2, <2>3
<1> QED BY <1>1, <1>2, OnlyCommitsChangeTheTable DEF HistoryInv, TableStep

\* What a retained receipt proves, the body of ReceiptNamesPredecessor.
Names(r) ==
    LET s == receipts[r].authority
        d == receipts[r].digest
        i == s.recordVersion
        before == IF i = 1 THEN NoAuthority ELSE log[i - 1]
    IN  /\ i \in DOMAIN log /\ log[i] = s /\ s.lastRequestId = r
        /\ d.op \in OwnerActions => before.owner = d.token
                                      /\ s.owner = d.token /\ IsActive(before)
        /\ d.op = "takeover" => before = d.observed /\ s.owner.coordinatorId = d.coordinatorId
        /\ d.op = "acquire" => ~IsActive(before) /\ s.owner.coordinatorId = d.coordinatorId

\* A receipt that was there goes on proving it.
LEMMA OldReceipts ==
    ASSUME HistoryInv, [Next]_vars, NEW r \in Requests, receipts[r].retained, Names(r)
    PROVE  Names(r)'
<1> DEFINE s == receipts[r].authority
           i == s.recordVersion
<1>1. receipts'[r] = receipts[r]
  BY TableGrows
<1>2. i \in DOMAIN log /\ i \in DOMAIN log' /\ log'[i] = log[i]
  BY TableGrows DEF Names
<1>3. i # 1 => i - 1 \in DOMAIN log /\ log'[i - 1] = log[i - 1]
  <2>1. log \in Seq(Snapshot)
    BY DEF HistoryInv, TypeInv, TypeOK
  <2>2. i # 1 => i - 1 \in DOMAIN log
    BY <1>2, <2>1
  <2> QED BY <2>2, TableGrows
<1>4. (IF i = 1 THEN NoAuthority ELSE log'[i - 1])
         = (IF i = 1 THEN NoAuthority ELSE log[i - 1])
  BY <1>3
<1> QED BY <1>1, <1>2, <1>4 DEF Names

\* The receipt that a commit writes names the record it replaced.
LEMMA NewReceipt ==
    ASSUME HistoryInv, NEW k \in Call, NEW b \in Snapshot, Prepared(k, b), Commit(k, b),
           k.op \in Receipted
    PROVE  /\ k.requestId \in Requests
           /\ receipts' = [receipts EXCEPT ![k.requestId] =
                              [retained |-> TRUE, digest |-> Digest(k),
                               authority |-> authority']]
           /\ Names(k.requestId)'
<1> DEFINE r == k.requestId
           n == Len(log)
<1>1. /\ b = authority /\ authority' = Successor(k, authority)
      /\ authority'.recordVersion = n + 1 /\ authority'.lastRequestId = r
      /\ n \in Nat /\ Len(log') = n + 1 /\ log'[n + 1] = authority'
      /\ \A i \in 1..n : log'[i] = log[i]
  BY CommitExtendsHistory
<1>0. \/ k.op \in Grants /\ authority'.owner.coordinatorId = k.coordinatorId
      \/ k.op \notin Grants /\ authority'.owner = authority.owner
  <2>1. \/ /\ k.op \in Grants
           /\ authority'.owner = [coordinatorId |-> k.coordinatorId,
                                  epoch |-> authority.owner.epoch + 1,
                                  requestId |-> k.requestId]
        \/ k.op \notin Grants /\ authority'.owner = authority.owner
    BY CommitExtendsHistory
  <2> QED BY <2>1
<1>2. /\ r \in Requests
      /\ receipts' = [receipts EXCEPT ![r] = [retained |-> TRUE, digest |-> Digest(k),
                                              authority |-> authority']]
      /\ receipts \in [Requests -> Receipt]
      /\ log \in Seq(Snapshot) /\ log' \in Seq(Snapshot)
  BY <1>1, CommitType DEF Commit, Prepared, HistoryInv, TypeInv, TypeOK
<1>3. receipts'[r].digest = Digest(k) /\ receipts'[r].authority = authority'
  BY <1>2
<1>4. authority = IF n + 1 = 1 THEN NoAuthority ELSE log'[n + 1 - 1]
  <2>1. authority = IF log = << >> THEN NoAuthority ELSE log[n]
    BY DEF HistoryInv, NoLostUpdate
  <2>2. log = << >> <=> n = 0
    BY <1>2
  <2>3. n # 0 => log'[n + 1 - 1] = log[n]
    BY <1>1
  <2> QED BY <1>1, <2>1, <2>2, <2>3
<1>5. n + 1 \in DOMAIN log'
  BY <1>1, <1>2
<1>6. /\ k.op = "acquire" => ~IsActive(authority)
      /\ k.op \in OwnerActions => IsActive(authority) /\ authority.owner = k.token
      /\ k.op = "takeover" => authority = k.observed
  BY <1>1 DEF Prepared, Admits, OwnerActions, sameAuthority
<1>7. /\ Digest(k).op = k.op /\ Digest(k).token = k.token
      /\ Digest(k).observed = k.observed /\ Digest(k).coordinatorId = k.coordinatorId
  BY DEF Digest
<1> HIDE DEF n, r
<1>8. Names(r)'
  BY <1>0, <1>1, <1>3, <1>4, <1>5, <1>6, <1>7 DEF Names, Grants, OwnerActions
<1> QED BY <1>2, <1>8 DEF r

LEMMA ReceiptsStep ==
    ASSUME HistoryInv, ReceiptNamesPredecessor, [Next]_vars
    PROVE  ReceiptNamesPredecessor'
<1>1. \A r \in Requests : receipts[r].retained => Names(r)
  BY DEF ReceiptNamesPredecessor, Names
<1>2. ASSUME NEW r \in Requests, receipts'[r].retained PROVE Names(r)'
  <2>1. CASE receipts[r].retained
    BY <1>1, <2>1, OldReceipts
  <2>2. CASE ~receipts[r].retained
    <3>1. TableStep
      BY <1>2, <2>2, OnlyCommitsChangeTheTable DEF HistoryInv, table
    <3>2. PICK k \in Call, b \in Snapshot : Prepared(k, b) /\ Commit(k, b)
      BY <3>1 DEF TableStep
    <3>3. k.op \in Receipted /\ r = k.requestId
      BY <1>2, <2>2, <3>2 DEF Commit, HistoryInv, TypeInv, TypeOK
    <3> QED BY <3>2, <3>3, NewReceipt
  <2> QED BY <2>1, <2>2
<1> QED BY <1>2 DEF ReceiptNamesPredecessor, Names

\* An answer that reports an effect: the part of AnswersAreDurable about one caller.
Honest(c) ==
    result[c].outcome \in {"applied", "replayed"} =>
        LET r == receipts[call[c].requestId]
            s == result[c].authority
        IN  IF call[c].op = "renew"
            THEN s.recordVersion \in DOMAIN log /\ log[s.recordVersion] = s
                   /\ s.lastRequestId = call[c].requestId
                   /\ s.owner = call[c].observed.owner
            ELSE r.retained /\ r.digest = Digest(call[c]) /\ r.authority = s

\* Only a finished call has an answer, and a renewal never reads a receipt.
AnswerOf(c) ==
    /\ pc[c] # "done" => result[c].outcome = "none"
    /\ pc[c] \in {"receipt", "raced", "recheck"} => call[c].op \in Receipted
    /\ Honest(c)

AnswerInv ==
    /\ HistoryInv
    /\ ReceiptNamesPredecessor
    /\ \A c \in Clients : AnswerOf(c)

\* An answer that was given stays true.
LEMMA GivenAnswers ==
    ASSUME AnswerInv, [Next]_vars, NEW c \in Clients,
           pc'[c] = pc[c], call'[c] = call[c], result'[c] = result[c]
    PROVE  AnswerOf(c)'
<1>1. Honest(c)'
  <2>1. CASE result[c].outcome \in {"applied", "replayed"}
    <3>1. pc[c] = "done" /\ call[c].requestId \in Requests /\ Honest(c)
      BY <2>1 DEF AnswerInv, AnswerOf, HistoryInv, TypeInv, PreparedInv
    <3>2. /\ \A i \in DOMAIN log : i \in DOMAIN log' /\ log'[i] = log[i]
          /\ \A r \in Requests : receipts[r].retained => receipts'[r] = receipts[r]
      BY TableGrows DEF AnswerInv
    <3> QED BY <2>1, <3>1, <3>2 DEF Honest
  <2> QED BY <2>1 DEF Honest
<1> QED BY <1>1 DEF AnswerInv, AnswerOf

\* A step of one caller answers nobody else.
LEMMA OthersAnswers ==
    ASSUME TypeInv, NEW c \in Clients, ClientStep(c), NEW d \in Clients, d # c
    PROVE  pc'[d] = pc[d] /\ call'[d] = call[d] /\ result'[d] = result[d]
<1> USE DEF TypeInv, TypeOK, Goto, Return
<1>1. CASE \/ Begin(c) \/ RenewOverflows(c) \/ ReadAdmitted(c) \/ ReadGrantRefused(c)
           \/ ReadOwnerRefused(c) \/ ReadRenewRefused(c) \/ Finish(c)
  BY <1>1 DEF Begin, RenewOverflows, ReadAdmitted, ReadGrantRefused, ReadOwnerRefused,
              ReadRenewRefused, Finish
<1>2. CASE ReadReceipt(c) \/ ReadRaced(c) \/ Recheck(c) \/ Readback(c)
  BY <1>2 DEF ReadReceipt, ReadRaced, Recheck, Readback, AnswerFromReceipt
<1>3. CASE WriteCommitted(c) \/ WriteRefused(c) \/ WriteUnanswered(c)
           \/ ReadbackRenewal(c) \/ ReadFails(c)
  BY <1>3 DEF WriteCommitted, WriteRefused, WriteUnanswered, ReadbackRenewal, ReadFails
<1> QED BY <1>1, <1>2, <1>3 DEF ClientStep

\* A call that returns no effect, goes on, begins or is finished.
LEMMA NoEffectReported ==
    ASSUME AnswerInv, NEW c \in Clients,
           \/ \E outcome \in Outcomes \ {"applied", "replayed"}, s \in Snapshot :
                 Return(c, outcome, s)
           \/ /\ result'[c].outcome = "none" /\ pc'[c] # "done"
              /\ pc'[c] \in {"receipt", "raced", "recheck"} => call'[c].op \in Receipted
    PROVE  AnswerOf(c)'
<1>1. ASSUME NEW outcome \in Outcomes \ {"applied", "replayed"}, NEW s \in Snapshot,
             Return(c, outcome, s)
      PROVE  pc'[c] = "done" /\ result'[c].outcome = outcome
  BY <1>1 DEF Return, Goto, AnswerInv, HistoryInv, TypeInv, TypeOK
<1> QED BY <1>1 DEF AnswerOf, Honest

\* An answer that was read from a receipt is that receipt.
LEMMA ReceiptAnswer ==
    ASSUME AnswerInv, NEW c \in Clients, NEW outcome \in Outcomes,
           AnswerFromReceipt(c, outcome), call[c].op \in Receipted
    PROVE  AnswerOf(c)'
<1> DEFINE r == receipts[call[c].requestId]
<1>1. receipts' = receipts /\ call' = call /\ r.retained
  BY DEF AnswerFromReceipt, table
<1>2. CASE r.digest = Digest(call[c]) /\ Return(c, outcome, r.authority)
  <2>1. /\ pc'[c] = "done" /\ result'[c] = [outcome |-> outcome, authority |-> r.authority]
    BY <1>2 DEF Return, Goto, AnswerInv, HistoryInv, TypeInv, TypeOK
  <2>2. call'[c].op # "renew"
    BY <1>1 DEF Receipted, Grants, OwnerActions
  <2> QED BY <1>1, <1>2, <2>1, <2>2 DEF AnswerOf, Honest
<1>3. CASE Return(c, "request-conflict", NoAuthority)
  BY <1>3, NoAuthorityType, NoEffectReported DEF Outcomes
<1> QED BY <1>2, <1>3 DEF AnswerFromReceipt

\* The record a renewal finds to be its own successor is in the history.
LEMMA RenewalAnswer ==
    ASSUME AnswerInv, NEW c \in Clients, NEW outcome \in Outcomes, NEW s \in Snapshot,
           Return(c, outcome, s), call' = call, call[c].op = "renew",
           s = Successor(call[c], call[c].observed),
           s.recordVersion \in DOMAIN log', log'[s.recordVersion] = s
    PROVE  AnswerOf(c)'
<1>1. pc'[c] = "done" /\ result'[c] = [outcome |-> outcome, authority |-> s]
  BY DEF Return, Goto, AnswerInv, HistoryInv, TypeInv, TypeOK
<1>2. s = Beaten(call[c], call[c].observed)
  BY DEF Successor, Grants
<1>3. call[c].observed \in Snapshot
  BY DEF AnswerInv, HistoryInv, TypeInv, TypeOK, Call
<1>4. s.owner = call[c].observed.owner /\ s.lastRequestId = call[c].requestId
  BY <1>2, <1>3 DEF Beaten, Snapshot
<1> QED BY <1>1, <1>4 DEF AnswerOf, Honest

\* The record in force is the last of the history once there is one.
LEMMA CurrentIsRecorded ==
    ASSUME HistoryInv, authority.recordVersion # 0
    PROVE  authority.recordVersion \in DOMAIN log /\ log[authority.recordVersion] = authority
<1>1. log \in Seq(Snapshot) /\ authority.recordVersion = Len(log)
  BY DEF HistoryInv, TypeInv, TypeOK, NoLostUpdate
<1>2. log # << >> /\ Len(log) \in DOMAIN log
  BY <1>1
<1> QED BY <1>1, <1>2 DEF HistoryInv, NoLostUpdate

LEMMA SuccessorIsRecorded ==
    ASSUME HistoryInv, NEW k \in Call, NEW b \in Snapshot, k.op = "renew",
           authority = Successor(k, b)
    PROVE  authority.recordVersion \in DOMAIN log /\ log[authority.recordVersion] = authority
<1>1. authority = Beaten(k, b) /\ b.recordVersion \in Nat
  BY DEF Successor, Grants, Snapshot
<1>2. authority.recordVersion = b.recordVersion + 1
  BY <1>1 DEF Beaten, Snapshot
<1> QED BY <1>1, <1>2, CurrentIsRecorded

\* The answer of a transaction that committed is its receipt, or its record.
LEMMA CommittedAnswer ==
    ASSUME AnswerInv, NEW c \in Clients, WriteCommitted(c)
    PROVE  AnswerOf(c)'
<1> DEFINE k == call[c]
           b == base[c]
<1>1. k \in Call /\ b \in Snapshot /\ Prepared(k, b) /\ Commit(k, b) /\ call' = call
  BY DEF WriteCommitted, AnswerInv, HistoryInv, TypeInv, TypeOK, PreparedInv
<1>2. CASE Goto(c, "lost") /\ UNCHANGED result
  <2>1. pc'[c] = "lost" /\ result'[c].outcome = "none"
    BY <1>2 DEF WriteCommitted, Goto, AnswerInv, AnswerOf, HistoryInv, TypeInv, TypeOK
  <2> QED BY <2>1, NoEffectReported
<1>3. CASE Return(c, "applied", Successor(k, b))
  <2>1. pc'[c] = "done" /\ result'[c] = [outcome |-> "applied", authority |-> Successor(k, b)]
    BY <1>3 DEF Return, Goto, AnswerInv, HistoryInv, TypeInv, TypeOK
  <2>2. b = authority /\ authority' = Successor(k, b)
    BY <1>1, CommitExtendsHistory DEF AnswerInv
  <2>3. CASE k.op \in Receipted
    <3>1. /\ k.requestId \in Requests
          /\ receipts' = [receipts EXCEPT ![k.requestId] =
                             [retained |-> TRUE, digest |-> Digest(k),
                              authority |-> authority']]
      BY <1>1, <2>3, NewReceipt DEF AnswerInv
    <3>2. receipts \in [Requests -> Receipt] /\ k.op # "renew"
      BY <2>3 DEF AnswerInv, HistoryInv, TypeInv, TypeOK, Receipted, Grants, OwnerActions
    <3> QED BY <1>1, <2>1, <2>2, <3>1, <3>2 DEF AnswerOf, Honest
  <2>4. CASE k.op = "renew"
    <3>1. b = k.observed
      BY <1>1, <2>4 DEF Prepared, Admits, OwnerActions
    <3>2. Successor(k, b) \in Snapshot /\ "applied" \in Outcomes
      BY <1>1, SuccessorType DEF Outcomes
    <3>3. authority'.recordVersion \in DOMAIN log' /\ log'[authority'.recordVersion] = authority'
      <4>1. /\ authority'.recordVersion = Len(log) + 1 /\ Len(log) \in Nat
            /\ Len(log') = Len(log) + 1 /\ log'[Len(log) + 1] = authority'
        BY <1>1, CommitExtendsHistory DEF AnswerInv
      <4>2. log' \in Seq(Snapshot)
        BY <1>1, CommitType DEF AnswerInv, HistoryInv, TypeInv
      <4> QED BY <4>1, <4>2
    <3> QED BY <1>1, <1>3, <2>2, <2>4, <3>1, <3>2, <3>3, RenewalAnswer
  <2> QED BY <1>1, <2>3, <2>4 DEF Call
<1> QED BY <1>2, <1>3 DEF WriteCommitted

LEMMA AnswersStep ==
    ASSUME AnswerInv, NEW c \in Clients, ClientStep(c)
    PROVE  AnswerOf(c)'
<1> USE NoAuthorityType
<1>0. /\ pc \in [Clients -> {"idle", "receipt", "read", "raced", "recheck",
                             "write", "refused", "lost", "done"}]
      /\ call \in [Clients -> Call] /\ result \in [Clients -> Result]
      /\ authority \in Snapshot
  BY DEF AnswerInv, HistoryInv, TypeInv, TypeOK
<1>1. CASE Begin(c)
  <2>1. PICK k \in AcquireCalls \cup TakeoverCalls \cup OwnerCalls \cup RenewCalls :
           /\ call' = [call EXCEPT ![c] = k]
           /\ pc' = [pc EXCEPT ![c] = IF k.op = "renew" THEN "read" ELSE "receipt"]
    BY <1>1 DEF Begin, Goto
  <2>2. k \in Call /\ result' = result /\ result[c].outcome = "none"
    BY <1>1, CallsType DEF Begin, AnswerInv, AnswerOf, HistoryInv, TypeInv
  <2> QED BY <1>0, <2>1, <2>2, NoEffectReported DEF Call
<1>2. CASE ReadReceipt(c) \/ ReadRaced(c) \/ Recheck(c)
  <2>1. call[c].op \in Receipted /\ pc[c] # "done"
    BY <1>2 DEF ReadReceipt, ReadRaced, Recheck, AnswerInv, AnswerOf
  <2>2. CASE AnswerFromReceipt(c, "replayed")
    BY <2>1, <2>2, ReceiptAnswer DEF Outcomes
  <2>3. CASE Return(c, "conflict", NoAuthority)
    BY <2>3, NoEffectReported DEF Outcomes
  <2>4. CASE (Goto(c, "read") \/ Goto(c, "write")) /\ UNCHANGED result
    BY <1>0, <2>1, <2>4, NoEffectReported DEF Goto, AnswerInv, AnswerOf
  <2> QED BY <1>2, <2>2, <2>3, <2>4 DEF ReadReceipt, ReadRaced, Recheck
<1>3. CASE RenewOverflows(c) \/ ReadOwnerRefused(c) \/ ReadFails(c)
  BY <1>3, NoEffectReported DEF RenewOverflows, ReadOwnerRefused, ReadFails, Outcomes
<1>4. CASE ReadAdmitted(c)
  <2>1. CASE Return(c, "failed", NoAuthority)
    BY <2>1, NoEffectReported DEF Outcomes
  <2>2. CASE /\ Goto(c, IF call[c].op = "renew" THEN "write" ELSE "recheck")
             /\ UNCHANGED <<call, result>>
    BY <1>0, <1>4, <2>2, NoEffectReported DEF ReadAdmitted, Goto, AnswerInv, AnswerOf, Call
  <2> QED BY <1>4, <2>1, <2>2 DEF ReadAdmitted
<1>5. CASE ReadGrantRefused(c)
  BY <1>0, <1>5, NoEffectReported DEF ReadGrantRefused, Goto, AnswerInv, AnswerOf, Receipted
<1>6. CASE WriteRefused(c) \/ WriteUnanswered(c)
  <2>1. /\ pc[c] = "write" /\ result' = result
        /\ Goto(c, "refused") \/ Goto(c, "lost")
    BY <1>6 DEF WriteRefused, WriteUnanswered
  <2>2. pc'[c] \in {"refused", "lost"} /\ result'[c].outcome = "none"
    BY <1>0, <2>1 DEF Goto, AnswerInv, AnswerOf
  <2> QED BY <2>2, NoEffectReported
<1>7. CASE Finish(c)
  BY <1>0, <1>7, NoEffectReported DEF Finish, Goto, NoResult
<1>8. CASE Readback(c)
  <2>1. CASE AnswerFromReceipt(c, IF pc[c] = "lost" THEN "applied" ELSE "replayed")
    BY <1>8, <2>1, ReceiptAnswer DEF Readback, Outcomes
  <2>2. CASE Return(c, IF pc[c] = "lost" THEN "failed" ELSE "conflict", NoAuthority)
    BY <2>2, NoEffectReported DEF Outcomes
  <2> QED BY <1>8, <2>1, <2>2 DEF Readback
<1>9. ASSUME NEW s \in Snapshot, Return(c, RenewalRefusal(call[c], authority), s)
      PROVE  AnswerOf(c)'
  BY <1>9, NoEffectReported DEF RenewalRefusal, Outcomes
<1>10. ASSUME NEW outcome \in Outcomes, Return(c, outcome, authority),
              UNCHANGED <<table, call>>, call[c].op = "renew",
              authority = Successor(call[c], call[c].observed)
       PROVE  AnswerOf(c)'
  <2>1. call[c] \in Call /\ call[c].observed \in Snapshot
    BY <1>0 DEF Call
  <2>2. authority.recordVersion \in DOMAIN log /\ log[authority.recordVersion] = authority
    BY <1>10, <2>1, SuccessorIsRecorded DEF AnswerInv
  <2> QED BY <1>0, <1>10, <2>2, RenewalAnswer DEF table
<1>11. CASE ReadRenewRefused(c)
  BY <1>9, <1>10, <1>11 DEF ReadRenewRefused, Outcomes
<1>12. CASE ReadbackRenewal(c)
  <2>1. base[c] = call[c].observed
    BY <1>12 DEF ReadbackRenewal, AnswerInv, HistoryInv, TypeInv, PreparedInv, Prepared,
                 Admits, OwnerActions
  <2>2. CASE Return(c, "unknown", NoAuthority)
    BY <2>2, NoEffectReported DEF Outcomes
  <2>3. CASE authority = Successor(call[c], base[c]) /\ Return(c, "applied", authority)
    BY <1>10, <1>12, <2>1, <2>3 DEF ReadbackRenewal, Outcomes
  <2> QED BY <1>9, <1>12, <2>2, <2>3 DEF ReadbackRenewal
<1> QED BY <1>1, <1>2, <1>3, <1>4, <1>5, <1>6, <1>7, <1>8, <1>11, <1>12, CommittedAnswer
        DEF ClientStep

(***************************************************************************)
(* AnswersAreDurable: what a caller is told took effect did, and still       *)
(* proves it.  A receipt names the record its transition replaced, an answer  *)
(* of a grant or an owner's action is that receipt, and a renewal's answer is *)
(* a record of the history, however calls, retries and late transactions of  *)
(* any number of clients interleave.                                        *)
(***************************************************************************)
THEOREM AnswersCorrect == Spec => []AnswersAreDurable
<1>1. Init => AnswerInv
  <2> SUFFICES ASSUME Init PROVE AnswerInv
    OBVIOUS
  <2>1. ReceiptNamesPredecessor
    BY DEF Init, NoReceipt, ReceiptNamesPredecessor
  <2>2. \A c \in Clients : AnswerOf(c)
    BY DEF Init, NoResult, AnswerOf, Honest
  <2> QED BY <2>1, <2>2, HistoryInit DEF AnswerInv
<1>2. AnswerInv /\ [Next]_vars => AnswerInv'
  <2> SUFFICES ASSUME AnswerInv, [Next]_vars PROVE AnswerInv'
    OBVIOUS
  <2>1. HistoryInv' /\ ReceiptNamesPredecessor'
    BY HistoryNext, ReceiptsStep DEF AnswerInv
  <2>2. ASSUME NEW d \in Clients PROVE AnswerOf(d)'
    <3>1. CASE Deliver \/ UNCHANGED vars
      BY <3>1, GivenAnswers DEF Deliver, vars
    <3>2. ASSUME NEW c \in Clients, ClientStep(c) PROVE AnswerOf(d)'
      BY <3>2, AnswersStep, OthersAnswers, GivenAnswers DEF AnswerInv, HistoryInv
    <3> QED BY <3>1, <3>2 DEF Next
  <2> QED BY <2>1, <2>2 DEF AnswerInv
<1>3. AnswerInv => AnswersAreDurable
  BY DEF AnswerInv, AnswerOf, Honest, AnswersAreDurable
<1> QED BY <1>1, <1>2, <1>3, PTL DEF Spec
(***************************************************************************)
(* RefusalsAreReal: a refusal is true in the step that gives it.            *)
(***************************************************************************)
Real(c) ==
    /\ result'[c].outcome = "conflict" /\ call[c].op \in Receipted
       => ~receipts'[call[c].requestId].retained
    /\ result'[c].outcome \in {"conflict", "stale"} /\ call[c].op = "renew"
       => authority \notin {call[c].observed, Successor(call[c], call[c].observed)}

\* Who is told nothing, or no refusal, is told no false refusal.
LEMMA NothingToldIsReal ==
    ASSUME NEW c \in Clients, result'[c].outcome \notin {"conflict", "stale"}
    PROVE  Real(c)
BY DEF Real

LEMMA ToldIsReturned ==
    ASSUME TypeInv, NEW c \in Clients, NEW outcome \in Outcomes, NEW s \in Snapshot,
           Return(c, outcome, s)
    PROVE  result'[c].outcome = outcome
BY DEF Return, TypeInv, TypeOK

LEMMA ReceiptRefusal ==
    ASSUME TypeInv, NEW c \in Clients, NEW outcome \in Outcomes \ {"conflict", "stale"},
           pc[c] # "idle", AnswerFromReceipt(c, outcome)
    PROVE  Real(c)
<1>1. receipts[call[c].requestId].authority \in Snapshot
    BY DEF TypeInv, TypeOK, PreparedInv, Receipt
<1>2. \E o \in Outcomes \ {"conflict", "stale"}, s \in Snapshot : Return(c, o, s)
    BY <1>1, NoAuthorityType DEF AnswerFromReceipt, Outcomes
<1> QED BY <1>2, ToldIsReturned, NothingToldIsReal

\* Only a grant looks for its receipt when the record moved on.
RacedInv == \A c \in Clients : pc[c] = "raced" => call[c].op \in Grants

LEMMA RacedStep == TypeInv /\ RacedInv /\ [Next]_vars => RacedInv'
<1> SUFFICES ASSUME TypeInv, RacedInv, [Next]_vars PROVE RacedInv'
    OBVIOUS
<1>1. CASE Deliver \/ UNCHANGED vars
  BY <1>1 DEF Deliver, vars, RacedInv
<1>2. ASSUME NEW c \in Clients, ClientStep(c) PROVE RacedInv'
  <2>1. CASE UNCHANGED call /\ \E label \in {"read", "recheck", "write", "refused",
                                             "lost", "done"} : Goto(c, label)
    BY <2>1 DEF Goto, RacedInv, TypeInv, TypeOK
  <2>2. CASE Begin(c)
    BY <2>2 DEF Begin, Goto, RacedInv, TypeInv, TypeOK
  <2>3. CASE ReadGrantRefused(c)
    BY <2>3 DEF ReadGrantRefused, Goto, RacedInv, TypeInv, TypeOK
  <2>4. CASE Finish(c)
    BY <2>4 DEF Finish, Goto, RacedInv, TypeInv, TypeOK
  <2> QED BY <1>2, <2>1, <2>2, <2>3, <2>4
         DEF ClientStep, ReadReceipt, RenewOverflows, ReadAdmitted, ReadOwnerRefused,
             ReadRenewRefused, ReadRaced, Recheck, WriteCommitted, WriteRefused,
             WriteUnanswered, Readback, ReadbackRenewal, ReadFails, AnswerFromReceipt, Return
<1> QED BY <1>1, <1>2 DEF Next

\* A conflict of a receipted request is told where its receipt was sought and
\* is missing; the refusal of a renewal is told where the record that was
\* read is neither its predecessor nor its successor.
LEMMA RefusalsStep ==
    ASSUME TypeInv, RacedInv, NEW c \in Clients, ClientStep(c), result[c].outcome = "none"
    PROVE  Real(c)
<1>1. CASE UNCHANGED result
  BY <1>1, NothingToldIsReal
<1>2. CASE \E outcome \in Outcomes \ {"conflict", "stale"}, s \in Snapshot :
              Return(c, outcome, s)
  BY <1>2, ToldIsReturned, NothingToldIsReal
<1>3. CASE pc[c] # "idle" /\ \E outcome \in Outcomes \ {"conflict", "stale"} :
              AnswerFromReceipt(c, outcome)
  BY <1>3, ReceiptRefusal
<1>4. CASE call[c].op \in OwnerActions /\ Return(c, "stale", NoAuthority)
  <2>1. result'[c].outcome = "stale"
    BY <1>4, ToldIsReturned, NoAuthorityType DEF Outcomes
  <2> QED BY <1>4, <2>1 DEF Real, OwnerActions
<1>5. CASE /\ call[c].op \in Receipted
           /\ NoReceiptRetained(c)
           /\ UNCHANGED table
  BY <1>5 DEF Real, NoReceiptRetained, table, Receipted, Grants, OwnerActions
<1>6. CASE /\ call[c].op = "renew"
           /\ authority # call[c].observed
           /\ authority # Successor(call[c], call[c].observed)
  BY <1>6 DEF Real, Receipted, Grants, OwnerActions
<1>7. CASE Begin(c)
  BY <1>1, <1>7 DEF Begin
<1>8. CASE ReadReceipt(c)
  BY <1>1, <1>3, <1>8 DEF ReadReceipt, Outcomes
<1>9. CASE RenewOverflows(c)
  BY <1>2, <1>9, NoAuthorityType DEF RenewOverflows, Outcomes
<1>10. CASE ReadAdmitted(c)
  BY <1>1, <1>2, <1>10, NoAuthorityType DEF ReadAdmitted, Outcomes
<1>11. CASE ReadGrantRefused(c)
  BY <1>1, <1>11 DEF ReadGrantRefused
<1>12. CASE ReadOwnerRefused(c)
  BY <1>4, <1>12 DEF ReadOwnerRefused
<1>13. CASE ReadRenewRefused(c)
  <2>1. authority # call[c].observed
    BY <1>13 DEF ReadRenewRefused, Admits, OwnerActions
  <2>2. CASE authority = Successor(call[c], call[c].observed) /\ Return(c, "replayed", authority)
    BY <1>2, <2>2 DEF Outcomes, TypeInv, TypeOK
  <2> QED BY <1>6, <1>13, <2>1, <2>2 DEF ReadRenewRefused
<1>14. CASE ReadRaced(c)
  <2>1. CASE AnswerFromReceipt(c, "replayed")
    BY <1>3, <1>14, <2>1 DEF ReadRaced, Outcomes
  <2>2. CASE NoReceiptRetained(c) /\ Return(c, "conflict", NoAuthority) /\ UNCHANGED table
    BY <1>5, <1>14, <2>2 DEF ReadRaced, RacedInv, Receipted
  <2> QED BY <1>14, <2>1, <2>2 DEF ReadRaced
<1>15. CASE Recheck(c)
  BY <1>1, <1>3, <1>15 DEF Recheck, Outcomes
<1>16. CASE WriteCommitted(c)
  <2>1. Successor(call[c], base[c]) \in Snapshot
    BY <1>16, SuccessorType DEF WriteCommitted, TypeInv, TypeOK, PreparedInv
  <2> QED BY <1>1, <1>2, <1>16, <2>1 DEF WriteCommitted, Outcomes
<1>17. CASE WriteRefused(c) \/ WriteUnanswered(c)
  BY <1>1, <1>17 DEF WriteRefused, WriteUnanswered
<1>18. CASE Readback(c)
  BY <1>3, <1>5, <1>18 DEF Readback, Outcomes
<1>19. CASE ReadbackRenewal(c)
  <2>1. base[c] = call[c].observed
    BY <1>19 DEF ReadbackRenewal, TypeInv, PreparedInv, Prepared, Admits, OwnerActions
  <2>2. CASE authority = Successor(call[c], base[c]) /\ Return(c, "applied", authority)
    BY <1>2, <2>2 DEF Outcomes, TypeInv, TypeOK
  <2>3. CASE Return(c, "unknown", NoAuthority)
    BY <1>2, <2>3, NoAuthorityType DEF Outcomes
  <2>4. CASE authority # Successor(call[c], base[c]) /\ authority # base[c]
    BY <1>6, <1>19, <2>1, <2>4 DEF ReadbackRenewal
  <2> QED BY <1>19, <2>2, <2>3, <2>4 DEF ReadbackRenewal
<1>20. CASE ReadFails(c)
  BY <1>2, <1>20, NoAuthorityType DEF ReadFails, Outcomes
<1>21. CASE Finish(c)
  <2>1. result'[c].outcome = "none"
    BY <1>21 DEF Finish, NoResult, TypeInv, TypeOK
  <2> QED BY <2>1, NothingToldIsReal
<1> QED BY <1>7, <1>8, <1>9, <1>10, <1>11, <1>12, <1>13, <1>14, <1>15, <1>16, <1>17,
           <1>18, <1>19, <1>20, <1>21 DEF ClientStep

\* A client's step tells the other clients nothing.
LEMMA OthersAreToldNothing ==
    ASSUME TypeInv, NEW c \in Clients, ClientStep(c), NEW d \in Clients \ {c}
    PROVE  result'[d] = result[d]
BY DEF ClientStep, Begin, ReadReceipt, RenewOverflows, ReadAdmitted, ReadGrantRefused,
       ReadOwnerRefused, ReadRenewRefused, ReadRaced, Recheck, WriteCommitted,
       WriteRefused, WriteUnanswered, Readback, ReadbackRenewal, ReadFails, Finish,
       AnswerFromReceipt, Return, TypeInv, TypeOK

(***************************************************************************)
(* A conflict means that the request has not taken effect, and a renewal     *)
(* that is reported lost was lost: the record is neither the one it observed *)
(* nor the one it would have written.  For any number of clients, and for    *)
(* transactions that arrive after their sender gave up.                      *)
(***************************************************************************)
THEOREM RefusalsCorrect == Spec => RefusalsAreReal
<1>1. TypeInv /\ RacedInv /\ [Next]_vars
        => [\A c \in Clients : result[c].outcome = "none" => Real(c)]_vars
  <2> SUFFICES ASSUME TypeInv, RacedInv, [Next]_vars,
                      NEW c \in Clients, result[c].outcome = "none"
               PROVE  Real(c)
    OBVIOUS
  <2>1. CASE Deliver \/ UNCHANGED vars
    BY <2>1, NothingToldIsReal DEF Deliver, vars
  <2>2. ASSUME NEW d \in Clients, ClientStep(d) PROVE Real(c)
    <3>1. CASE d = c
      BY <2>2, <3>1, RefusalsStep
    <3>2. CASE d # c
      BY <2>2, <3>2, OthersAreToldNothing, NothingToldIsReal
    <3> QED BY <3>1, <3>2
  <2> QED BY <2>1, <2>2 DEF Next
<1>2. Init => RacedInv
  BY DEF Init, RacedInv
<1>3. Spec => [](TypeInv /\ RacedInv)
  BY <1>2, TypeInit, TypeNext, RacedStep, PTL DEF Spec
<1>4. [\A c \in Clients : result[c].outcome = "none" => Real(c)]_vars
        <=> [\A c \in Clients : result[c].outcome = "none" =>
               /\ result'[c].outcome = "conflict" /\ call[c].op \in Receipted
                  => ~receipts'[call[c].requestId].retained
               /\ result'[c].outcome \in {"conflict", "stale"} /\ call[c].op = "renew"
                  => authority \notin {call[c].observed,
                                       Successor(call[c], call[c].observed)}]_vars
  BY DEF Real
<1> QED BY <1>1, <1>3, <1>4, PTL DEF Spec, RefusalsAreReal
-----------------------------------------------------------------------------
(***************************************************************************)
(* Refinement: every committing transaction is one operation of the atomic  *)
(* register, and everything else leaves the register alone.                 *)
(***************************************************************************)
LEMMA CommitIsOneOperation ==
    ASSUME HistoryInv, TableStep
    PROVE  Register!Next
<1>1. PICK k \in Call, b \in Snapshot : Prepared(k, b) /\ Commit(k, b)
  BY DEF TableStep
<1>2. b = authority /\ authority' = Successor(k, authority) /\ authority \in Snapshot
  BY <1>1, CommitExtendsHistory DEF HistoryInv, TypeInv, TypeOK
<1>3. authority'.recordVersion = authority.recordVersion + 1
  BY <1>1, CommitExtendsHistory
<1>4. ASSUME k.op \in Receipted
      PROVE  /\ k.requestId \in Requests
             /\ k.requestId \notin {r \in Requests : receipts[r].retained}
             /\ {r \in Requests : receipts'[r].retained}
                  = {r \in Requests : receipts[r].retained} \cup {k.requestId}
  <2>1. k.requestId \in Requests /\ ~receipts[k.requestId].retained
    BY <1>1, <1>4 DEF Commit, ConditionsHold, Prepared
  <2>2. receipts' = [receipts EXCEPT ![k.requestId] =
                       [retained |-> TRUE, digest |-> Digest(k), authority |-> Successor(k, b)]]
    BY <1>1, <1>4 DEF Commit
  <2>3. receipts \in [Requests -> Receipt]
    BY DEF HistoryInv, TypeInv, TypeOK
  <2> QED BY <2>1, <2>2, <2>3
<1>5. CASE k.op \in Grants
  <2>1. authority' = Granted(k, authority)
    BY <1>2, <1>5 DEF Successor, Grants
  <2>2. k.coordinatorId \in Coordinators
    BY <1>1, <1>5, NoneIsNobody DEF Prepared, WellFormed
  <2> QED BY <1>2, <1>3, <1>4, <1>5, <2>1, <2>2
         DEF Granted, IsActive, Receipted, Register!Next, Register!Acquire,
             Register!Takeover, Register!Grant
<1>6. CASE k.op = "heartbeat"
  <2>1. authority' = Beaten(k, authority) /\ IsActive(authority)
    BY <1>1, <1>2, <1>6 DEF Successor, Grants, Prepared, Admits, OwnerActions
  <2>2. authority'.owner = authority.owner /\ IsActive(authority')
    BY <1>2, <2>1 DEF Beaten, IsActive, Snapshot
  <2> QED BY <1>3, <1>4, <1>6, <2>1, <2>2
         DEF Receipted, OwnerActions, Register!Next, Register!Heartbeat
<1>7. CASE k.op = "release"
  <2>1. authority' = Released(k, authority) /\ IsActive(authority)
    BY <1>1, <1>2, <1>7 DEF Successor, Grants, Prepared, Admits, OwnerActions
  <2>2. authority'.owner = authority.owner /\ ~IsActive(authority')
    BY <1>2, <2>1 DEF Released, IsActive, Snapshot
  <2> QED BY <1>3, <1>4, <1>7, <2>1, <2>2
         DEF Receipted, OwnerActions, Register!Next, Register!Release
<1>8. CASE k.op = "renew"
  <2>1. authority' = Beaten(k, authority) /\ IsActive(authority)
    BY <1>1, <1>2, <1>8 DEF Successor, Grants, Prepared, Admits, OwnerActions, WellFormed
  <2>2. authority'.owner = authority.owner /\ IsActive(authority')
    BY <1>2, <2>1 DEF Beaten, IsActive, Snapshot
  <2>3. receipts' = receipts
    BY <1>1, <1>8 DEF Commit, Receipted, Grants, OwnerActions
  <2> QED BY <1>3, <2>1, <2>2, <2>3 DEF Register!Next, Register!Renew
<1> QED BY <1>5, <1>6, <1>7, <1>8 DEF Call, Receipted, Grants, OwnerActions

\* Callers of the table see one atomic register: at most one active
\* coordinator, a fresh epoch per grant, each request effective at most once.
THEOREM ImplementsRegister == Spec => RegisterSpec
<1>1. Init => Register!Init
  BY DEF Init, NoAuthority, NoToken, NoReceipt, IsActive, Register!Init
<1>2. HistoryInv /\ [Next]_vars => [Register!Next]_(Register!register)
  <2> SUFFICES ASSUME HistoryInv, [Next]_vars
               PROVE  Register!Next \/ UNCHANGED Register!register
    OBVIOUS
  <2>1. CASE UNCHANGED table
    BY <2>1 DEF table, Register!register
  <2> QED BY <2>1, OnlyCommitsChangeTheTable, CommitIsOneOperation DEF HistoryInv
<1>3. Spec => []HistoryInv
  BY HistoryInit, HistoryNext, PTL DEF Spec
<1> QED BY <1>1, <1>2, <1>3, PTL DEF Spec, RegisterSpec, Register!Spec
=============================================================================
