------------------------- MODULE LedgerCallsProofs -------------------------
(***************************************************************************)
(* Proofs about the three protocols of LedgerCalls, for every number of      *)
(* parties, every plan and every bound.                                      *)
(*                                                                           *)
(* The append protocol: the events are numbered by the versions they extend  *)
(* and each receipt names its event (StoreIsSerial).  The store only grows,  *)
(* so what a call once learned of it stays true while other calls run; what  *)
(* each call may rely on at each of its steps is CallAgrees.                 *)
(*                                                                           *)
(* The admission barrier: the rows only grow as well, and a transition whose *)
(* conditions once failed is Doomed for good.  What a resident may rely on   *)
(* in a transition is TransitionAgrees, while it reads the history           *)
(* HistoryAgrees, an admission CreationAgrees.                               *)
(*                                                                           *)
(* The workflow: the outputs are those of the steps before the cursor        *)
(* (CursorAgrees), the start, the begin and the end of a step's code are     *)
(* ordered (StartsAgree), waits and accepted deliveries are paired           *)
(* (WaitsAgree), at most one worker executes a step (OneExecutes).           *)
(***************************************************************************)
EXTENDS LedgerCalls, TLAPS

StoreIsSerial ==
    /\ StoreAgrees
    /\ \A i \in DOMAIN history : history[i].base = i - 1

\* No event of this request is or will be in the history: the place it could
\* have taken is taken.
NeverApplied(c) ==
    /\ call[c].expected < Version
    /\ \A i \in DOMAIN history :
          \/ history[i].transition # call[c].transition
          \/ history[i].base # call[c].expected

HoldsItsEvent(c) ==
    \E i \in 1..seen[c] :
        /\ i <= Version
        /\ history[i].transition = call[c].transition
        /\ history[i].base = call[c].expected

UsedByAnother(c) ==
    \E i \in DOMAIN history :
        /\ history[i].transition = call[c].transition
        /\ history[i].base # call[c].expected

\* What was known when the call began or last read.
ReadsAgree(c) ==
    /\ call[c].expected <= Version
    /\ call[c].epoch <= authority
    /\ seen[c] <= Version
    /\ paged[c] => Paged /\ pc[c] \in Reads /\ call[c].expected <= seen[c]
    /\ pc[c] = "receipt" => call[c].expected <= seen[c]
    /\ pc[c] \in {"append", "write"} => call[c].expected = seen[c]

\* What is known after the transaction was refused or accepted.
RacesAgree(c) ==
    /\ pc[c] \in {"raced", "raced-receipt"} =>
          \/ Exists(ReceiptOf(c))
          \/ call[c].expected < Version
          \/ call[c].epoch < authority
    /\ pc[c] = "authority" => call[c].epoch < authority \/ NeverApplied(c)
    /\ pc[c] \in {"refresh", "reread", "reread-receipt"} => MatchingReceipt(c)
    /\ pc[c] = "reread-receipt" \/ (pc[c] = "reread" /\ paged[c]) =>
          ReceiptOf(c).sequence <= seen[c]

AnswersAgree(c) ==
    /\ outcome[c] # "none" => pc[c] = "done"
    /\ outcome[c] = "conflict" => NeverApplied(c)
    /\ outcome[c] \in {"applied", "replayed"} => HoldsItsEvent(c)
    /\ outcome[c] = "transition-conflict" => UsedByAnother(c)
    /\ outcome[c] = "projection-error" => Paged

CallAgrees(c) == ReadsAgree(c) /\ RacesAgree(c) /\ AnswersAgree(c)

Protocol == StoreIsSerial /\ \A c \in Callers : CallAgrees(c)

\* The store only grows.
Grows ==
    /\ authority <= authority'
    /\ Version <= Version'
    /\ \A i \in DOMAIN history : i \in DOMAIN history' /\ history'[i] = history[i]
    /\ \A t \in Transitions : Exists(receipts[t]) => receipts'[t] = receipts[t]

\* The call of c does not move.
Rests(c) ==
    /\ pc'[c] = pc[c]
    /\ call'[c] = call[c]
    /\ paged'[c] = paged[c]
    /\ seen'[c] = seen[c]
    /\ outcome'[c] = outcome[c]
-----------------------------------------------------------------------------
(***************************************************************************)
(* Types.                                                                  *)
(***************************************************************************)
LEMMA AnswerType ==
    ASSUME TypeOK, NEW c \in Callers, NEW o \in Outcomes, Answer(c, o)
    PROVE  pc' \in [Callers -> Steps] /\ outcome' \in [Callers -> Outcomes]
BY DEF TypeOK, Answer, Steps

LEMMA GotoType ==
    ASSUME TypeOK, NEW c \in Callers, NEW next \in Steps, Goto(c, next)
    PROVE  pc' \in [Callers -> Steps] /\ outcome' \in [Callers -> Outcomes]
BY DEF TypeOK, Goto

LEMMA ReplayType ==
    ASSUME TypeOK, NEW c \in Callers, Replay(c)
    PROVE  pc' \in [Callers -> Steps] /\ outcome' \in [Callers -> Outcomes]
BY AnswerType, GotoType DEF Replay, Outcomes, Steps, Reads

LEMMA AfterReadType ==
    ASSUME TypeOK, NEW c \in Callers, NEW version, AfterRead(c, version)
    PROVE  pc' \in [Callers -> Steps] /\ outcome' \in [Callers -> Outcomes]
BY AnswerType, GotoType DEF AfterRead, Outcomes, Steps, Reads

LEMMA TransactionType ==
    ASSUME TypeOK, NEW c \in Callers
    PROVE  Transaction(c) \in Event
BY DEF TypeOK, Transaction, Event, Call

LEMMA CommitType ==
    ASSUME TypeOK, NEW tx \in Event, Commit(tx)
    PROVE  /\ authority' \in Epochs
           /\ history' \in Seq(Event)
           /\ Version' = Version + 1
           /\ Version' <= MaxVersion
           /\ receipts' \in [Transitions -> Receipt]
<1>1. Version \in Nat /\ MaxVersion \in Nat
  BY BoundsArePositive DEF TypeOK, Version
<1>2. history' \in Seq(Event) /\ Len(history') = Len(history) + 1
  BY DEF TypeOK, Commit
<1>3. [sequence |-> Version + 1, expected |-> tx.base] \in Receipt
  BY <1>1 DEF Receipt, Versions, Event, Commit
<1>4. receipts' \in [Transitions -> Receipt]
  BY <1>3 DEF Commit, TypeOK
<1> QED BY <1>1, <1>2, <1>4 DEF Commit, TypeOK, Version

LEMMA TypeStep ==
    ASSUME TypeOK, [Next]_vars
    PROVE  TypeOK'
<1>0. Version \in Versions
  BY BoundsArePositive DEF TypeOK, Version, Versions
<1>1. ASSUME Takeover PROVE TypeOK'
  BY <1>1, BoundsArePositive DEF Takeover, TypeOK, Epochs, Version
<1>2. ASSUME NEW tx \in delayed, ArriveLate(tx) PROVE TypeOK'
  <2>1. tx \in Event
    BY DEF TypeOK
  <2>2. UNCHANGED <<pc, call, paged, seen, outcome>> /\ delayed' \subseteq Event
    BY <1>2 DEF ArriveLate, TypeOK
  <2>3. CASE Commit(tx)
    BY <2>1, <2>2, <2>3, CommitType DEF TypeOK
  <2>4. CASE UNCHANGED table
    BY <2>2, <2>4 DEF TypeOK, table, Version
  <2> QED BY <1>2, <2>3, <2>4 DEF ArriveLate
<1>3. ASSUME NEW c \in Callers, CallerStep(c) PROVE TypeOK'
  <2>1. ASSUME NEW k \in Call, Begin(c, k) PROVE TypeOK'
    BY <2>1, GotoType DEF Begin, TypeOK, Version, Steps, Reads
  <2>2. CASE ReadSnapshot(c)
    BY <2>2, <1>0, AfterReadType DEF ReadSnapshot, TypeOK, Version
  <2>3. CASE ReadEvents(c)
    BY <2>3, <1>0 DEF ReadEvents, TypeOK, Version
  <2>4. CASE ReadProjections(c)
    <3>1. pc' \in [Callers -> Steps] /\ outcome' \in [Callers -> Outcomes]
      BY <2>4, AfterReadType, AnswerType DEF ReadProjections, Outcomes
    <3> QED BY <2>4, <3>1 DEF ReadProjections, TypeOK, Version
  <2>5. CASE ReadReceipt(c)
    <3>1. pc' \in [Callers -> Steps] /\ outcome' \in [Callers -> Outcomes]
      BY <2>5, ReplayType, AnswerType, GotoType DEF ReadReceipt, Outcomes, Steps
    <3> QED BY <2>5, <3>1 DEF ReadReceipt, TypeOK, Version
  <2>6. CASE ReadReceiptAgain(c)
    <3>1. pc' \in [Callers -> Steps] /\ outcome' \in [Callers -> Outcomes]
      BY <2>6, ReplayType, GotoType DEF ReadReceiptAgain, Steps
    <3> QED BY <2>6, <3>1 DEF ReadReceiptAgain, TypeOK, Version
  <2>7. CASE WriteAccepted(c)
    <3>1. pc' \in [Callers -> Steps] /\ outcome' \in [Callers -> Outcomes]
      BY <2>7, GotoType, AnswerType DEF WriteAccepted, Outcomes, Steps, Reads
    <3>2. Commit(Transaction(c)) /\ UNCHANGED <<delayed, call, paged, seen>>
      BY <2>7 DEF WriteAccepted
    <3>3. /\ authority' \in Epochs
          /\ history' \in Seq(Event)
          /\ Version' <= MaxVersion
          /\ receipts' \in [Transitions -> Receipt]
      BY <3>2, TransactionType, CommitType
    <3> QED BY <3>1, <3>2, <3>3 DEF TypeOK
  <2>8. CASE WriteRefused(c)
    <3>1. pc' \in [Callers -> Steps] /\ outcome' \in [Callers -> Outcomes]
      BY <2>8, GotoType, AnswerType DEF WriteRefused, Outcomes, Steps, Reads
    <3> QED BY <2>8, <3>1 DEF WriteRefused, TypeOK, Version
  <2>9. CASE GiveUp(c)
    <3>1. pc' \in [Callers -> Steps] /\ outcome' \in [Callers -> Outcomes]
      BY <2>9, AnswerType DEF GiveUp, Outcomes
    <3> QED BY <2>9, <3>1, TransactionType DEF GiveUp, TypeOK, Version
  <2>10. CASE RacedReceipt(c)
    <3>1. pc' \in [Callers -> Steps] /\ outcome' \in [Callers -> Outcomes]
      BY <2>10, ReplayType, GotoType DEF RacedReceipt, Steps
    <3> QED BY <2>10, <3>1 DEF RacedReceipt, TypeOK, Version
  <2>11. CASE CheckAuthority(c)
    <3>1. pc' \in [Callers -> Steps] /\ outcome' \in [Callers -> Outcomes]
      BY <2>11, AnswerType DEF CheckAuthority, Outcomes
    <3> QED BY <2>11, <3>1 DEF CheckAuthority, TypeOK, Version
  <2>12. CASE RereadReceipt(c)
    <3>1. pc' \in [Callers -> Steps] /\ outcome' \in [Callers -> Outcomes]
      BY <2>12, AnswerType DEF RereadReceipt, Outcomes
    <3> QED BY <2>12, <3>1 DEF RereadReceipt, TypeOK, Version
  <2>13. CASE Return(c)
    BY <2>13, BoundsArePositive DEF Return, TypeOK, Version, Versions, Steps, Outcomes
  <2> QED BY <1>3, <2>1, <2>2, <2>3, <2>4, <2>5, <2>6, <2>7, <2>8, <2>9, <2>10,
             <2>11, <2>12, <2>13 DEF CallerStep
<1>4. CASE UNCHANGED vars
  BY <1>4 DEF vars, TypeOK, Version
<1> QED BY <1>1, <1>2, <1>3, <1>4 DEF Next

LEMMA TypeInit == Init => TypeOK
BY BoundsArePositive DEF Init, TypeOK, Epochs, Versions, Version, Call, Receipt,
   NoReceipt, Steps, Outcomes

(***************************************************************************)
(* Type correctness: in particular a history never outgrows its versions    *)
(* and every receipt names a sequence the run head can reach.               *)
(***************************************************************************)
THEOREM TypeCorrect == Spec => []TypeOK
<1> QED BY TypeInit, TypeStep, PTL DEF Spec
-----------------------------------------------------------------------------
(***************************************************************************)
(* The store.                                                              *)
(***************************************************************************)
LEMMA CommitIsSerial ==
    ASSUME TypeOK, StoreIsSerial, NEW tx \in Event, ConditionsHold(tx), Commit(tx)
    PROVE  Grows /\ StoreIsSerial'
<1>1. Version \in Nat /\ authority \in Nat
  BY DEF TypeOK, Version, Epochs
<1>2. /\ DOMAIN history = 1..Version
      /\ DOMAIN history' = 1..(Version + 1)
      /\ Version' = Version + 1
      /\ history'[Version + 1] = tx
      /\ \A i \in 1..Version : history'[i] = history[i]
  <2>1. history \in Seq(Event) /\ history' = Append(history, tx)
    BY DEF TypeOK, Commit
  <2> QED BY <2>1 DEF Version
<1>3. tx.transition \in Transitions /\ tx.base = Version
  BY DEF Event, ConditionsHold
<1>4. /\ receipts'[tx.transition] = [sequence |-> Version + 1, expected |-> Version]
      /\ \A t \in Transitions \ {tx.transition} : receipts'[t] = receipts[t]
      /\ ~Exists(receipts[tx.transition])
  BY <1>3 DEF Commit, TypeOK, ConditionsHold
<1>5. Grows
  BY <1>1, <1>2, <1>4 DEF Grows, Commit
<1>6. ASSUME NEW t \in Transitions
      PROVE  IF Exists(receipts'[t])
             THEN /\ receipts'[t].sequence \in DOMAIN history'
                  /\ history'[receipts'[t].sequence].transition = t
                  /\ history'[receipts'[t].sequence].base = receipts'[t].expected
             ELSE \A i \in DOMAIN history' : history'[i].transition # t
  <2>1. CASE t = tx.transition
    <3>1. receipts'[t].sequence = Version + 1 /\ receipts'[t].expected = Version
      BY <1>4, <2>1
    <3> QED BY <1>1, <1>2, <1>3, <2>1, <3>1 DEF Exists
  <2>2. CASE t # tx.transition
    <3>1. receipts'[t] = receipts[t]
      BY <1>4, <2>2
    <3>2. CASE Exists(receipts[t])
      <4>1. /\ receipts[t].sequence \in 1..Version
            /\ history[receipts[t].sequence].transition = t
            /\ history[receipts[t].sequence].base = receipts[t].expected
        BY <1>2, <3>2 DEF StoreIsSerial, StoreAgrees
      <4> QED BY <1>1, <1>2, <3>1, <3>2, <4>1
    <3>3. CASE ~Exists(receipts[t])
      <4>1. \A i \in 1..Version : history[i].transition # t
        BY <1>2, <3>3 DEF StoreIsSerial, StoreAgrees
      <4> QED BY <1>1, <1>2, <2>2, <3>1, <3>3, <4>1
    <3> QED BY <3>2, <3>3
  <2> QED BY <2>1, <2>2
<1>7. \A i \in DOMAIN history' : history'[i].base = i - 1
  BY <1>1, <1>2, <1>3 DEF StoreIsSerial
<1> QED BY <1>5, <1>6, <1>7 DEF StoreIsSerial, StoreAgrees

LEMMA UnchangedStoreGrows ==
    ASSUME TypeOK, StoreIsSerial, UNCHANGED <<history, receipts>>,
           authority' = authority \/ authority' = authority + 1
    PROVE  Grows /\ StoreIsSerial'
BY DEF TypeOK, Grows, StoreIsSerial, StoreAgrees, Version, Epochs

LEMMA StoreStep ==
    ASSUME TypeOK, StoreIsSerial, [Next]_vars
    PROVE  Grows /\ StoreIsSerial'
<1>1. CASE Takeover
  BY <1>1, UnchangedStoreGrows DEF Takeover
<1>2. ASSUME NEW tx \in delayed, ArriveLate(tx) PROVE Grows /\ StoreIsSerial'
  BY <1>2, CommitIsSerial, UnchangedStoreGrows DEF ArriveLate, TypeOK, table
<1>3. ASSUME NEW c \in Callers, CallerStep(c) PROVE Grows /\ StoreIsSerial'
  <2>1. CASE WriteAccepted(c)
    BY <2>1, TransactionType, CommitIsSerial DEF WriteAccepted
  <2>2. CASE UNCHANGED table
    BY <2>2, UnchangedStoreGrows DEF table
  <2>3. WriteAccepted(c) \/ UNCHANGED table
    BY <1>3 DEF CallerStep, table, Begin, ReadSnapshot, ReadEvents, ReadProjections,
       ReadReceipt, ReadReceiptAgain, WriteRefused, GiveUp, RacedReceipt,
       CheckAuthority, RereadReceipt, Return
  <2> QED BY <2>1, <2>2, <2>3
<1>4. CASE UNCHANGED vars
  BY <1>4, UnchangedStoreGrows DEF vars
<1> QED BY <1>1, <1>2, <1>3, <1>4 DEF Next

(***************************************************************************)
(* What a resting call knows stays true while the store grows.              *)
(***************************************************************************)
LEMMA NeverAppliedIsStable ==
    ASSUME TypeOK, StoreIsSerial, StoreIsSerial', Grows, NEW c \in Callers,
           NeverApplied(c), call'[c] = call[c], TypeOK'
    PROVE  NeverApplied(c)'
<1>1. /\ Version \in Nat /\ Version' \in Nat /\ Version <= Version'
      /\ DOMAIN history = 1..Version /\ DOMAIN history' = 1..Version'
      /\ call[c].expected \in Nat
  BY DEF TypeOK, Version, Grows, Call, Versions
<1>2. ASSUME NEW i \in DOMAIN history'
      PROVE  \/ history'[i].transition # call[c].transition
             \/ history'[i].base # call[c].expected
  <2>1. CASE i <= Version
    BY <1>1, <2>1 DEF NeverApplied, Grows
  <2>2. CASE Version < i
    BY <1>1, <2>2 DEF NeverApplied, StoreIsSerial
  <2> QED BY <1>1, <2>1, <2>2
<1>3. call[c].expected < Version'
  BY <1>1 DEF NeverApplied
<1> QED BY <1>2, <1>3 DEF NeverApplied

LEMMA ReceiptIsStable ==
    ASSUME TypeOK, Grows, NEW c \in Callers, call'[c] = call[c], Exists(ReceiptOf(c))
    PROVE  ReceiptOf(c)' = ReceiptOf(c)
<1>1. call[c].transition \in Transitions
  BY DEF TypeOK, Call
<1> QED BY <1>1 DEF Grows, ReceiptOf

LEMMA RestingCallAgrees ==
    ASSUME TypeOK, TypeOK', StoreIsSerial, StoreIsSerial', Grows,
           NEW c \in Callers, Rests(c), CallAgrees(c)
    PROVE  CallAgrees(c)'
<1>1. /\ Version \in Nat /\ Version' \in Nat /\ Version <= Version'
      /\ authority \in Nat /\ authority' \in Nat /\ authority <= authority'
      /\ call[c].expected \in Nat /\ call[c].epoch \in Nat
      /\ seen[c] \in Nat
      /\ DOMAIN history = 1..Version /\ DOMAIN history' = 1..Version'
  BY DEF TypeOK, Version, Grows, Call, Versions, Epochs
<1>2. ReadsAgree(c)'
  BY <1>1 DEF CallAgrees, ReadsAgree, Rests
<1>3. RacesAgree(c)'
  BY <1>1, NeverAppliedIsStable, ReceiptIsStable
     DEF CallAgrees, RacesAgree, Rests, MatchingReceipt
<1>4. HoldsItsEvent(c) => HoldsItsEvent(c)'
  BY <1>1 DEF HoldsItsEvent, Rests, Grows
<1>5. UsedByAnother(c) => UsedByAnother(c)'
  BY <1>1 DEF UsedByAnother, Rests, Grows
<1>6. AnswersAgree(c)'
  BY <1>4, <1>5, NeverAppliedIsStable DEF CallAgrees, AnswersAgree, Rests
<1> QED BY <1>2, <1>3, <1>6 DEF CallAgrees
-----------------------------------------------------------------------------
(***************************************************************************)
(* What a call knows after its own step.                                    *)
(***************************************************************************)
\* The call of c moves and leaves the store and its request alone.
Looks(c) == UNCHANGED <<authority, history, receipts, call>>

LEMMA CallNumbers ==
    ASSUME TypeOK, NEW c \in Callers
    PROVE  /\ Version \in Nat /\ authority \in Nat /\ seen[c] \in Nat
           /\ call[c].expected \in Nat /\ call[c].epoch \in Nat
           /\ DOMAIN history = 1..Version
           /\ ReceiptOf(c).sequence \in Nat
           /\ call[c].transition \in Transitions
<1>1. call[c] \in Call /\ history \in Seq(Event) /\ authority \in Epochs /\ seen[c] \in Versions
  BY DEF TypeOK
<1>2. receipts[call[c].transition] \in Receipt
  BY <1>1 DEF TypeOK, Call
<1> QED BY <1>1, <1>2 DEF Call, Receipt, ReceiptOf, Versions, Epochs, Version

LEMMA ReceiptNamesEvent ==
    ASSUME TypeOK, StoreIsSerial, NEW c \in Callers, Exists(ReceiptOf(c))
    PROVE  /\ ReceiptOf(c).sequence \in 1..Version
           /\ history[ReceiptOf(c).sequence].transition = call[c].transition
           /\ history[ReceiptOf(c).sequence].base = ReceiptOf(c).expected
BY CallNumbers DEF StoreIsSerial, StoreAgrees, ReceiptOf

LEMMA AnswerAgrees ==
    ASSUME TypeOK, TypeOK', NEW c \in Callers, NEW o \in Outcomes, CallAgrees(c),
           Looks(c), Answer(c, o), paged'[c] = FALSE, seen'[c] <= Version,
           o = "conflict" => NeverApplied(c),
           o \in {"applied", "replayed"} => HoldsItsEvent(c)',
           o = "transition-conflict" => UsedByAnother(c),
           o = "projection-error" => Paged
    PROVE  CallAgrees(c)'
<1>1. pc'[c] = "done" /\ outcome'[c] = o
  BY DEF Answer, TypeOK
<1>2. ReadsAgree(c)'
  BY <1>1 DEF ReadsAgree, CallAgrees, Looks, Version
<1>3. RacesAgree(c)'
  BY <1>1 DEF RacesAgree
<1>4. AnswersAgree(c)'
  BY <1>1 DEF AnswersAgree, Looks, NeverApplied, UsedByAnother, Version
<1> QED BY <1>2, <1>3, <1>4 DEF CallAgrees

LEMMA SilentAnswers ==
    ASSUME TypeOK, NEW c \in Callers, NEW next \in Steps, CallAgrees(c), pc[c] # "done",
           Goto(c, next)
    PROVE  pc'[c] = next /\ outcome'[c] = "none" /\ AnswersAgree(c)'
BY DEF CallAgrees, AnswersAgree, Goto, TypeOK

LEMMA ReplayAgrees ==
    ASSUME TypeOK, TypeOK', StoreIsSerial, NEW c \in Callers, CallAgrees(c),
           pc[c] \notin Reads \cup {"done"}, Looks(c), UNCHANGED <<paged, seen>>,
           Exists(ReceiptOf(c)), Replay(c)
    PROVE  CallAgrees(c)'
<1>1. paged'[c] = FALSE /\ seen'[c] <= Version
  BY DEF CallAgrees, ReadsAgree, TypeOK
<1>2. CASE MatchingReceipt(c) /\ ReceiptOf(c).sequence <= seen[c] /\ Answer(c, "replayed")
  <2>1. HoldsItsEvent(c)'
    BY <1>2, ReceiptNamesEvent, CallNumbers DEF HoldsItsEvent, MatchingReceipt, Looks, Version
  <2> QED BY <1>1, <1>2, <2>1, AnswerAgrees DEF Outcomes
<1>3. CASE MatchingReceipt(c) /\ Goto(c, "refresh")
  <2>1. pc'[c] = "refresh" /\ AnswersAgree(c)'
    BY <1>3, SilentAnswers DEF Steps, Reads
  <2>2. ReadsAgree(c)' /\ RacesAgree(c)'
    BY <1>1, <1>3, <2>1
       DEF CallAgrees, ReadsAgree, RacesAgree, Looks, MatchingReceipt, ReceiptOf, Version
  <2> QED BY <2>1, <2>2 DEF CallAgrees
<1>4. CASE ~MatchingReceipt(c) /\ Answer(c, "transition-conflict")
  <2>1. UsedByAnother(c)
    BY <1>4, ReceiptNamesEvent, CallNumbers DEF UsedByAnother, MatchingReceipt
  <2> QED BY <1>1, <1>4, <2>1, AnswerAgrees DEF Outcomes
<1> QED BY <1>2, <1>3, <1>4 DEF Replay

LEMMA AfterReadAgrees ==
    ASSUME TypeOK, TypeOK', StoreIsSerial, NEW c \in Callers, CallAgrees(c),
           pc[c] \in Reads, Looks(c), paged'[c] = FALSE, AfterRead(c, seen'[c]),
           call[c].expected <= seen'[c], seen'[c] <= Version,
           Paged \/ seen'[c] = Version,
           pc[c] = "reread" => ReceiptOf(c).sequence <= seen'[c]
    PROVE  CallAgrees(c)'
<1>1. pc[c] # "done" /\ pc[c] \in {"read", "raced", "reread", "refresh"}
  BY DEF Reads
<1>2. ASSUME NEW next \in {"receipt", "raced-receipt", "reread-receipt"}, Goto(c, next),
             next = "reread-receipt" => pc[c] = "reread",
             next = "raced-receipt" => pc[c] = "raced"
      PROVE  CallAgrees(c)'
  <2>1. pc'[c] = next /\ AnswersAgree(c)'
    BY <1>1, <1>2, SilentAnswers DEF Steps
  <2>2. ReadsAgree(c)'
    BY <1>2, <2>1 DEF ReadsAgree, CallAgrees, Looks, Version
  <2>3. RacesAgree(c)'
    BY <1>2, <2>1 DEF RacesAgree, CallAgrees, Looks, Version, ReceiptOf, MatchingReceipt
  <2> QED BY <2>1, <2>2, <2>3 DEF CallAgrees
<1>3. CASE pc[c] = "refresh"
  <2>1. MatchingReceipt(c)
    BY <1>3 DEF CallAgrees, RacesAgree
  <2>2. CASE ReceiptOf(c).sequence <= seen'[c] /\ Answer(c, "replayed")
    <3>1. seen'[c] \in Nat
      BY DEF TypeOK, Versions
    <3>2. HoldsItsEvent(c)'
      BY <2>1, <2>2, <3>1, ReceiptNamesEvent, CallNumbers
         DEF HoldsItsEvent, MatchingReceipt, Looks, Version
    <3> QED BY <2>2, <3>2, AnswerAgrees DEF Outcomes
  <2>3. CASE ~(ReceiptOf(c).sequence <= seen'[c]) /\ Answer(c, "projection-error")
    <3>1. ReceiptOf(c).sequence \in 1..Version
      BY <2>1, ReceiptNamesEvent DEF MatchingReceipt
    <3>2. Paged
      BY <2>3, <3>1, CallNumbers
    <3> QED BY <2>3, <3>2, AnswerAgrees DEF Outcomes
  <2> QED BY <1>3, <2>2, <2>3 DEF AfterRead
<1>4. CASE pc[c] = "read"
  BY <1>2, <1>4 DEF AfterRead
<1>5. CASE pc[c] = "raced"
  BY <1>2, <1>5 DEF AfterRead
<1>6. CASE pc[c] = "reread"
  BY <1>2, <1>6 DEF AfterRead
<1> QED BY <1>1, <1>3, <1>4, <1>5, <1>6

\* A transaction that is refused for its base, its receipt or its fence.
LEMMA RefusedTransaction ==
    ASSUME TypeOK, NEW c \in Callers, CallAgrees(c), pc[c] = "write",
           ~ConditionsHold(Transaction(c))
    PROVE  \/ Exists(ReceiptOf(c))
           \/ call[c].expected < Version
           \/ call[c].epoch < authority
<1>1. /\ Transaction(c).base = call[c].expected
      /\ Transaction(c).epoch = call[c].epoch
      /\ Transaction(c).transition = call[c].transition
  BY DEF Transaction, CallAgrees, ReadsAgree
<1>2. call[c].expected <= Version /\ call[c].epoch <= authority
  BY DEF CallAgrees, ReadsAgree
<1> QED BY <1>1, <1>2, CallNumbers DEF ConditionsHold, ReceiptOf

\* A request that expects an older version than the current one.
LEMMA PassedOver ==
    ASSUME TypeOK, StoreIsSerial, NEW c \in Callers, ~Exists(ReceiptOf(c)),
           call[c].expected < Version
    PROVE  NeverApplied(c)
BY CallNumbers DEF NeverApplied, StoreIsSerial, StoreAgrees, ReceiptOf

LEMMA AcceptedAgrees ==
    ASSUME TypeOK, TypeOK', StoreIsSerial, StoreIsSerial', NEW c \in Callers,
           CallAgrees(c), WriteAccepted(c)
    PROVE  CallAgrees(c)'
<1>1. /\ pc[c] = "write" /\ ConditionsHold(Transaction(c)) /\ Commit(Transaction(c))
      /\ UNCHANGED <<call, paged, seen>>
      /\ Goto(c, "reread") \/ Answer(c, "unknown")
  BY DEF WriteAccepted
<1>2. Version' = Version + 1 /\ authority' = authority
  BY <1>1, TransactionType, CommitType DEF Commit
<1>3. call[c].expected = Version /\ paged[c] = FALSE /\ seen[c] <= Version
  BY <1>1 DEF CallAgrees, ReadsAgree, ConditionsHold, Transaction, Reads, TypeOK
<1>4. ReceiptOf(c)' = [sequence |-> Version + 1, expected |-> call[c].expected]
  BY <1>1, <1>3, CallNumbers DEF Commit, Transaction, ReceiptOf, TypeOK, ConditionsHold
<1>5. MatchingReceipt(c)'
  BY <1>1, <1>4, CallNumbers DEF MatchingReceipt, Exists
<1>6. ReadsAgree(c)'
  <2>1. pc'[c] \in {"reread", "done"}
    BY <1>1 DEF Goto, Answer, TypeOK
  <2>2. call[c].epoch <= authority
    BY DEF CallAgrees, ReadsAgree
  <2> QED BY <1>1, <1>2, <1>3, <2>1, <2>2, CallNumbers DEF ReadsAgree
<1>7. CASE Goto(c, "reread")
  <2>1. pc'[c] = "reread" /\ AnswersAgree(c)'
    BY <1>1, <1>7, SilentAnswers DEF Steps, Reads
  <2>2. RacesAgree(c)'
    BY <1>1, <1>3, <1>5, <2>1 DEF RacesAgree
  <2> QED BY <1>6, <2>1, <2>2 DEF CallAgrees
<1>8. CASE Answer(c, "unknown")
  <2>1. pc'[c] = "done" /\ outcome'[c] = "unknown"
    BY <1>8 DEF Answer, TypeOK
  <2> QED BY <1>6, <2>1 DEF CallAgrees, RacesAgree, AnswersAgree
<1> QED BY <1>1, <1>7, <1>8

LEMMA OwnStepAgrees ==
    ASSUME TypeOK, TypeOK', StoreIsSerial, StoreIsSerial', NEW c \in Callers,
           CallAgrees(c), CallerStep(c)
    PROVE  CallAgrees(c)'
<1>0. /\ call[c].expected <= Version /\ call[c].epoch <= authority /\ seen[c] <= Version
      /\ pc[c] \notin Reads => paged[c] = FALSE
  BY DEF CallAgrees, ReadsAgree, TypeOK
<1>1. ASSUME NEW k \in Call, Begin(c, k) PROVE CallAgrees(c)'
  <2>1. pc'[c] = "read" /\ call'[c] = k /\ AnswersAgree(c)'
    BY <1>1, SilentAnswers DEF Begin, TypeOK, Steps, Reads
  <2> QED BY <1>0, <1>1, <2>1
          DEF CallAgrees, ReadsAgree, RacesAgree, Begin, Version, Reads
<1>2. CASE ReadSnapshot(c)
  <2>1. paged'[c] = FALSE /\ seen'[c] = Version /\ Looks(c) /\ pc[c] \in Reads
    BY <1>2 DEF ReadSnapshot, CallAgrees, ReadsAgree, TypeOK, Looks
  <2>2. pc[c] = "reread" => ReceiptOf(c).sequence <= Version
    BY ReceiptNamesEvent, CallNumbers DEF CallAgrees, RacesAgree, MatchingReceipt
  <2>3. AfterRead(c, seen'[c])
    BY <1>2, <2>1 DEF ReadSnapshot
  <2>4. seen'[c] <= Version
    BY <2>1, CallNumbers
  <2> QED BY <1>0, <2>1, <2>2, <2>3, <2>4, AfterReadAgrees
<1>3. CASE ReadEvents(c)
  <2>1. /\ paged'[c] = TRUE /\ seen'[c] = Version /\ Looks(c)
        /\ pc[c] \in Reads /\ Paged /\ UNCHANGED <<pc, outcome>>
    BY <1>3 DEF ReadEvents, TypeOK, Looks
  <2>2. ReadsAgree(c)'
    BY <1>0, <2>1, CallNumbers DEF ReadsAgree, Looks, Version, Reads
  <2>3. MatchingReceipt(c) => ReceiptOf(c).sequence <= Version
    BY ReceiptNamesEvent, CallNumbers DEF MatchingReceipt
  <2>4. RacesAgree(c)'
    BY <2>1, <2>3 DEF CallAgrees, RacesAgree, Looks, Version, Reads, ReceiptOf, MatchingReceipt
  <2>5. AnswersAgree(c)'
    BY <2>1 DEF CallAgrees, AnswersAgree, Reads
  <2> QED BY <2>2, <2>4, <2>5 DEF CallAgrees
<1>4. CASE ReadProjections(c)
  <2>1. /\ paged'[c] = FALSE /\ seen'[c] = seen[c] /\ Looks(c)
        /\ pc[c] \in Reads /\ Paged /\ call[c].expected <= seen[c]
        /\ pc[c] = "reread" => ReceiptOf(c).sequence <= seen[c]
    BY <1>4 DEF ReadProjections, TypeOK, Looks, CallAgrees, ReadsAgree, RacesAgree
  <2>2. CASE AfterRead(c, seen[c])
    <3>1. AfterRead(c, seen'[c])
      BY <2>1, <2>2
    <3> QED BY <1>0, <2>1, <3>1, AfterReadAgrees
  <2>3. CASE Answer(c, "projection-error")
    BY <1>0, <2>1, <2>3, AnswerAgrees DEF Outcomes
  <2> QED BY <1>4, <2>2, <2>3 DEF ReadProjections
<1>5. CASE ReadReceipt(c)
  <2>1. /\ pc[c] = "receipt" /\ Looks(c) /\ UNCHANGED <<paged, seen>>
        /\ paged'[c] = FALSE /\ seen'[c] <= Version
    BY <1>0, <1>5 DEF ReadReceipt, Looks, Reads
  <2>2. CASE Exists(ReceiptOf(c)) /\ Replay(c)
    BY <2>1, <2>2, ReplayAgrees DEF Reads
  <2>3. CASE ~Exists(ReceiptOf(c)) /\ seen[c] # call[c].expected /\ Answer(c, "conflict")
    <3>1. call[c].expected < Version
      BY <1>0, <2>1, <2>3, CallNumbers DEF CallAgrees, ReadsAgree
    <3> QED BY <2>1, <2>3, <3>1, PassedOver, AnswerAgrees DEF Outcomes
  <2>4. CASE seen[c] = call[c].expected /\ Goto(c, "append")
    <3>1. pc'[c] = "append" /\ AnswersAgree(c)'
      BY <2>1, <2>4, SilentAnswers DEF Steps
    <3> QED BY <1>0, <2>1, <2>4, <3>1 DEF CallAgrees, ReadsAgree, RacesAgree, Looks, Version
  <2> QED BY <1>5, <2>2, <2>3, <2>4 DEF ReadReceipt
<1>6. CASE ReadReceiptAgain(c)
  <2>1. /\ pc[c] = "append" /\ Looks(c) /\ UNCHANGED <<paged, seen>>
        /\ paged'[c] = FALSE /\ seen[c] = call[c].expected
    BY <1>0, <1>6 DEF ReadReceiptAgain, Looks, Reads, CallAgrees, ReadsAgree
  <2>2. CASE Exists(ReceiptOf(c)) /\ Replay(c)
    BY <2>1, <2>2, ReplayAgrees DEF Reads
  <2>3. CASE Goto(c, "write")
    <3>1. pc'[c] = "write" /\ AnswersAgree(c)'
      BY <2>1, <2>3, SilentAnswers DEF Steps
    <3> QED BY <1>0, <2>1, <3>1 DEF CallAgrees, ReadsAgree, RacesAgree, Looks, Version
  <2> QED BY <1>6, <2>2, <2>3 DEF ReadReceiptAgain
<1>7. CASE WriteAccepted(c)
  BY <1>7, AcceptedAgrees
<1>8. CASE WriteRefused(c)
  <2>1. /\ pc[c] = "write" /\ Looks(c) /\ UNCHANGED <<paged, seen>>
        /\ paged'[c] = FALSE /\ seen'[c] <= Version
        /\ ~ConditionsHold(Transaction(c))
    BY <1>0, <1>8 DEF WriteRefused, Looks, Reads
  <2>2. CASE Goto(c, "raced")
    <3>1. pc'[c] = "raced" /\ AnswersAgree(c)'
      BY <2>1, <2>2, SilentAnswers DEF Steps, Reads
    <3>2. ReadsAgree(c)'
      BY <1>0, <2>1, <3>1 DEF ReadsAgree, Looks, Version
    <3>3. RacesAgree(c)'
      BY <2>1, <3>1, RefusedTransaction DEF RacesAgree, Looks, Version, ReceiptOf
    <3> QED BY <3>1, <3>2, <3>3 DEF CallAgrees
  <2>3. CASE Answer(c, "unknown")
    BY <2>1, <2>3, AnswerAgrees DEF Outcomes
  <2> QED BY <1>8, <2>2, <2>3 DEF WriteRefused
<1>9. CASE GiveUp(c)
  <2>1. /\ Looks(c) /\ paged'[c] = FALSE /\ seen'[c] <= Version /\ Answer(c, "unknown")
    BY <1>0, <1>9 DEF GiveUp, Looks, Reads
  <2> QED BY <2>1, AnswerAgrees DEF Outcomes
<1>10. CASE RacedReceipt(c)
  <2>1. /\ pc[c] = "raced-receipt" /\ Looks(c) /\ UNCHANGED <<paged, seen>>
        /\ paged'[c] = FALSE
    BY <1>0, <1>10 DEF RacedReceipt, Looks, Reads
  <2>2. CASE Exists(ReceiptOf(c)) /\ Replay(c)
    BY <2>1, <2>2, ReplayAgrees DEF Reads
  <2>3. CASE ~Exists(ReceiptOf(c)) /\ Goto(c, "authority")
    <3>1. pc'[c] = "authority" /\ AnswersAgree(c)'
      BY <2>1, <2>3, SilentAnswers DEF Steps
    <3>2. ReadsAgree(c)'
      BY <1>0, <2>1, <3>1 DEF ReadsAgree, Looks, Version
    <3>3. call[c].epoch < authority \/ NeverApplied(c)
      BY <2>1, <2>3, PassedOver DEF CallAgrees, RacesAgree
    <3>4. RacesAgree(c)'
      BY <2>1, <3>1, <3>3 DEF RacesAgree, Looks, NeverApplied, Version
    <3> QED BY <3>1, <3>2, <3>4 DEF CallAgrees
  <2> QED BY <1>10, <2>2, <2>3 DEF RacedReceipt
<1>11. CASE CheckAuthority(c)
  <2>1. /\ pc[c] = "authority" /\ Looks(c) /\ paged'[c] = FALSE /\ seen'[c] <= Version
    BY <1>0, <1>11 DEF CheckAuthority, Looks, Reads
  <2>2. CASE call[c].epoch = authority /\ Answer(c, "conflict")
    <3>1. NeverApplied(c)
      BY <2>1, <2>2, CallNumbers DEF CallAgrees, RacesAgree
    <3> QED BY <2>1, <2>2, <3>1, AnswerAgrees DEF Outcomes
  <2>3. CASE Answer(c, "stale")
    BY <2>1, <2>3, AnswerAgrees DEF Outcomes
  <2> QED BY <1>11, <2>2, <2>3 DEF CheckAuthority
<1>12. CASE RereadReceipt(c)
  <2>1. /\ pc[c] = "reread-receipt" /\ Looks(c) /\ paged'[c] = FALSE
        /\ seen'[c] <= Version /\ seen'[c] = seen[c]
    BY <1>0, <1>12 DEF RereadReceipt, Looks, Reads
  <2>2. MatchingReceipt(c) /\ ReceiptOf(c).sequence <= seen[c]
    BY <2>1 DEF CallAgrees, RacesAgree
  <2>3. Answer(c, "applied")
    BY <1>12, <2>2 DEF RereadReceipt, MatchingReceipt
  <2>4. HoldsItsEvent(c)'
    BY <2>1, <2>2, ReceiptNamesEvent, CallNumbers
       DEF HoldsItsEvent, MatchingReceipt, Looks, Version
  <2> QED BY <2>1, <2>3, <2>4, AnswerAgrees DEF Outcomes
<1>13. CASE Return(c)
  <2>1. pc'[c] = "idle" /\ outcome'[c] = "none" /\ seen'[c] = 0
    BY <1>13 DEF Return, TypeOK
  <2>2. Looks(c) /\ paged'[c] = FALSE
    BY <1>0, <1>13 DEF Return, Looks, Reads
  <2> QED BY <1>0, <2>1, <2>2, CallNumbers
          DEF CallAgrees, ReadsAgree, RacesAgree, AnswersAgree, Looks, Version
<1> QED BY <1>1, <1>2, <1>3, <1>4, <1>5, <1>6, <1>7, <1>8, <1>9, <1>10, <1>11,
           <1>12, <1>13 DEF CallerStep
-----------------------------------------------------------------------------
(***************************************************************************)
(* The invariant.                                                          *)
(***************************************************************************)
LEMMA ProtocolInit == Init => Protocol
<1> SUFFICES ASSUME Init PROVE Protocol
  OBVIOUS
<1>1. Version = 0 /\ DOMAIN history = {}
  BY DEF Init, Version
<1>2. StoreIsSerial
  BY <1>1 DEF Init, StoreIsSerial, StoreAgrees, Exists, NoReceipt
<1>3. ASSUME NEW c \in Callers PROVE CallAgrees(c)
  BY <1>1 DEF Init, CallAgrees, ReadsAgree, RacesAgree, AnswersAgree
<1> QED BY <1>2, <1>3 DEF Protocol

\* A step moves at most one call.
LEMMA OthersRest ==
    ASSUME TypeOK, [Next]_vars
    PROVE  \/ \A c \in Callers : Rests(c)
           \/ \E c \in Callers : CallerStep(c) /\ \A d \in Callers \ {c} : Rests(d)
<1>1. CASE Takeover \/ (\E tx \in delayed : ArriveLate(tx)) \/ UNCHANGED vars
  BY <1>1 DEF Takeover, ArriveLate, vars, Rests
<1>2. ASSUME NEW c \in Callers, CallerStep(c) PROVE \A d \in Callers \ {c} : Rests(d)
  <2>1. ASSUME NEW o, Answer(c, o), NEW d \in Callers \ {c}
        PROVE  pc'[d] = pc[d] /\ outcome'[d] = outcome[d]
    BY <2>1 DEF Answer, TypeOK
  <2>2. ASSUME NEW next, Goto(c, next), NEW d \in Callers \ {c}
        PROVE  pc'[d] = pc[d] /\ outcome'[d] = outcome[d]
    BY <2>2 DEF Goto, TypeOK
  <2>3. ASSUME Replay(c), NEW d \in Callers \ {c}
        PROVE  pc'[d] = pc[d] /\ outcome'[d] = outcome[d]
    BY <2>1, <2>2, <2>3 DEF Replay
  <2>4. ASSUME NEW version, AfterRead(c, version), NEW d \in Callers \ {c}
        PROVE  pc'[d] = pc[d] /\ outcome'[d] = outcome[d]
    BY <2>1, <2>2, <2>4 DEF AfterRead
  <2>5. CASE \E k \in Call : Begin(c, k)
    BY <2>2, <2>5 DEF Begin, TypeOK, Rests
  <2>6. CASE ReadSnapshot(c)
    BY <2>4, <2>6 DEF ReadSnapshot, TypeOK, Rests
  <2>7. CASE ReadEvents(c)
    BY <2>7 DEF ReadEvents, TypeOK, Rests
  <2>8. CASE ReadProjections(c)
    BY <2>1, <2>4, <2>8 DEF ReadProjections, TypeOK, Rests
  <2>9. CASE ReadReceipt(c)
    BY <2>1, <2>2, <2>3, <2>9 DEF ReadReceipt, TypeOK, Rests
  <2>10. CASE ReadReceiptAgain(c) \/ RacedReceipt(c)
    BY <2>2, <2>3, <2>10 DEF ReadReceiptAgain, RacedReceipt, TypeOK, Rests
  <2>11. CASE WriteAccepted(c) \/ WriteRefused(c) \/ GiveUp(c)
    BY <2>1, <2>2, <2>11 DEF WriteAccepted, WriteRefused, GiveUp, TypeOK, Rests
  <2>12. CASE CheckAuthority(c) \/ RereadReceipt(c)
    BY <2>1, <2>12 DEF CheckAuthority, RereadReceipt, TypeOK, Rests
  <2>13. CASE Return(c)
    BY <2>13 DEF Return, TypeOK, Rests
  <2> QED BY <1>2, <2>5, <2>6, <2>7, <2>8, <2>9, <2>10, <2>11, <2>12, <2>13
          DEF CallerStep
<1> QED BY <1>1, <1>2 DEF Next

LEMMA ProtocolStep ==
    ASSUME TypeOK, Protocol, [Next]_vars
    PROVE  Protocol'
<1>1. TypeOK'
  BY TypeStep
<1>2. StoreIsSerial /\ StoreIsSerial' /\ Grows
  BY StoreStep DEF Protocol
<1>3. ASSUME NEW c \in Callers PROVE CallAgrees(c)'
  <2>1. CallAgrees(c)
    BY DEF Protocol
  <2>2. Rests(c) \/ CallerStep(c)
    BY OthersRest
  <2> QED BY <1>1, <1>2, <2>1, <2>2, RestingCallAgrees, OwnStepAgrees
<1> QED BY <1>2, <1>3 DEF Protocol

LEMMA ProtocolCorrect == Spec => [](TypeOK /\ Protocol)
<1>1. Init => TypeOK /\ Protocol
  BY TypeInit, ProtocolInit
<1>2. TypeOK /\ Protocol /\ [Next]_vars => TypeOK' /\ Protocol'
  BY TypeStep, ProtocolStep
<1> QED BY <1>1, <1>2, PTL DEF Spec
-----------------------------------------------------------------------------
(***************************************************************************)
(* What a caller may conclude: an applied or replayed call holds a state    *)
(* with its own event, a conflict means the request never takes effect, a   *)
(* transition conflict that another request has used the identity.          *)
(***************************************************************************)
THEOREM AnswersCorrect == Spec => []AnswersAreTrue
<1>1. Protocol => AnswersAreTrue
  BY DEF AnswersAreTrue, Protocol, CallAgrees, AnswersAgree, AnswersContainTheirEvent,
         HoldsItsEvent, ConflictMeansNoEffect, NeverApplied, TransitionConflictIsReal,
         UsedByAnother
<1> QED BY <1>1, ProtocolCorrect, PTL

(***************************************************************************)
(* Where a read of the run is one snapshot, no call fails with a projection *)
(* error: it would mean that the stored records disagree.                   *)
(***************************************************************************)
THEOREM SnapshotReadsAgree ==
    ASSUME ~Paged
    PROVE  Spec => []ProjectionErrorMeansDisagreement
<1>1. Protocol => ProjectionErrorMeansDisagreement
  BY DEF Protocol, StoreIsSerial, CallAgrees, AnswersAgree, ProjectionErrorMeansDisagreement
<1> QED BY <1>1, ProtocolCorrect, PTL

(***************************************************************************)
(* The append protocol implements one serial history: an accepted           *)
(* transaction is Accept of its transition, a change of coordinator is       *)
(* Takeover and every other database operation is invisible.                *)
(***************************************************************************)
LEMMA CommitAccepts ==
    ASSUME TypeOK, Protocol, NEW tx \in Event, ConditionsHold(tx), Commit(tx)
    PROVE  History!Accept(tx.transition)
<1>1. tx = [transition |-> tx.transition, base |-> Len(history), epoch |-> authority]
  BY DEF Event, ConditionsHold, Version
<1>2. tx.transition \in Transitions
  BY DEF Event
<1>3. \A i \in DOMAIN history : history[i].transition # tx.transition
  BY <1>2 DEF Protocol, StoreIsSerial, StoreAgrees, ConditionsHold
<1>4. history' = Append(history, tx) /\ UNCHANGED authority
  BY DEF Commit
<1> QED BY <1>1, <1>3, <1>4 DEF History!Accept

LEMMA StepAccepts ==
    ASSUME TypeOK, Protocol, [Next]_vars
    PROVE  [History!Next]_<<authority, history>>
<1>1. CASE Takeover
  BY <1>1 DEF Takeover, History!Next, History!Takeover
<1>2. ASSUME NEW tx \in delayed, ArriveLate(tx)
      PROVE  [History!Next]_<<authority, history>>
  <2>1. tx \in Event /\ tx.transition \in Transitions
    BY DEF TypeOK, Event
  <2> QED BY <1>2, <2>1, CommitAccepts DEF ArriveLate, History!Next, table
<1>3. ASSUME NEW c \in Callers, CallerStep(c)
      PROVE  [History!Next]_<<authority, history>>
  <2>1. CASE WriteAccepted(c)
    <3>1. Transaction(c) \in Event /\ Transaction(c).transition \in Transitions
      BY TransactionType DEF Event
    <3> QED BY <2>1, <3>1, CommitAccepts DEF WriteAccepted, History!Next
  <2>2. WriteAccepted(c) \/ UNCHANGED table
    BY <1>3 DEF CallerStep, table, Begin, ReadSnapshot, ReadEvents, ReadProjections,
       ReadReceipt, ReadReceiptAgain, WriteRefused, GiveUp, RacedReceipt,
       CheckAuthority, RereadReceipt, Return
  <2> QED BY <2>1, <2>2 DEF table
<1>4. CASE UNCHANGED vars
  BY <1>4 DEF vars
<1> QED BY <1>1, <1>2, <1>3, <1>4 DEF Next

\* Every call, takeover and late arrival is a step of the one serial history.
THEOREM HistoryImplemented == Spec => HistorySpec
<1>1. Init => History!Init
  BY DEF Init, History!Init
<1>2. TypeOK /\ Protocol /\ [Next]_vars => [History!Next]_<<authority, history>>
  BY StepAccepts
<1> QED BY <1>1, <1>2, ProtocolCorrect, PTL DEF Spec, HistorySpec, History!Spec
-----------------------------------------------------------------------------
(***************************************************************************)
(* The admission barrier.                                                   *)
(***************************************************************************)
BarrierAssumptions ==
    /\ None \notin Contents
    /\ Residents \cap Admitters = {}
    /\ MaxEpoch \in Nat
    /\ MaxSafe \in Nat \ {0}
    /\ MaxMoves \in Nat \ {0}

LEMMA BarrierAssumed == BarrierAssumptions
BY NoneIsNothing, PartiesAreDistinct, BoundsArePositive, BarrierBounds DEF BarrierAssumptions

\* One row is the other, or an earlier version of it.
Past(a, b) == a = b \/ a.version < b.version

\* An authority that is not in force and never will be again.
Superseded(epoch) ==
    \/ epoch < coordinator.epoch
    \/ epoch = coordinator.epoch /\ ~coordinator.active

\* A transition whose conditions do not hold and never will.
Doomed(q) ==
    \/ Superseded(q.epoch)
    \/ q.predecessor.version < barrier.version
    \/ \E p \in requests : Admission!sameRequestId(p, q)

\* What the rows say of each other and of the transactions still under way.
RowsAgree ==
    /\ Past(Admission!NoBarrier, barrier)
    /\ \A i \in Runs : runs[i] # Admission!NoRun =>
           runs[i].content \in Contents /\ runs[i].version > 0
    /\ \A q \in requests : q.predecessor.version < MaxSafe /\ Past(Admission!Successor(q), barrier)
    /\ \A t \in underway : t.kind = "transition" => t.request.predecessor.version < MaxSafe
    /\ \A t \in underway : t.kind = "admission" => t.generation.state # "CLOSED"
    /\ \A q \in refused : Doomed(q) /\ q \notin requests

\* What a resident may rely on at each step of a transition.
TransitionAgrees(r) ==
    /\ phase[r] \in Admission!ResidentPhases
    /\ token[r] <= coordinator.epoch
    /\ phase[r] # "idle" => token[r] # 0
    /\ Past(copy[r], barrier)
    /\ phase[r] = "write" => copy[r].version < MaxSafe
    /\ phase[r] = "raced" => copy[r].version < barrier.version
    /\ phase[r] \in {"readback", "refused"} => Doomed(Admission!RequestOf(r))
    /\ phase[r] = "refused" => Admission!RequestOf(r) \notin requests

\* No run is missing from what a resident read, as long as its generation is
\* the current one.
Misses(r, i) == barrier = copy[r] /\ runs[i] # Admission!NoRun /\ second[r][i] = Admission!NoRun

\* What it may rely on while it reads the history, and afterwards.
HistoryAgrees(r) ==
    /\ phase[r] \in {"list", "check"} => copy[r].state = "CLOSED" /\ ~Admission!Reconstructed(r)
    /\ phase[r] \in {"idle", "serving", "get"} => ~Admission!Reconstructed(r)
    /\ phase[r] = "list" =>
             \A i \in Runs \ unread[r] : Past(first[r][i], runs[i])
    /\ phase[r] = "check" =>
             /\ \A i \in Runs : /\ Past(first[r][i], snapshot[r][i])
                                /\ Past(snapshot[r][i], runs[i])
             /\ \A i \in Runs \ unread[r] :
                   Past(snapshot[r][i], second[r][i]) /\ ~Misses(r, i)
    /\ Admission!Reconstructed(r) =>
          /\ copy[r].state = "CLOSED"
          /\ first[r] = snapshot[r]
          /\ \A i \in Runs : ~Misses(r, i)

\* What an admission may rely on at each of its steps, and what it was told.
CreationAgrees(a) ==
    /\ phase[a] \in Admission!AdmitterPhases
    /\ phase[a] # "idle" => creation[a] \in Admission!Call
    /\ phase[a] = "admit" => copy[a].state # "CLOSED"
    /\ phase[a] = "taken" => Admission!RunOf(a) # Admission!NoRun /\ ~Admission!IsSameRun(a)
    /\ answer[a] # "none" => phase[a] = "done"
    /\ answer[a] \in {"created", "replayed"} => Admission!IsSameRun(a)
    /\ answer[a] = "run-conflict" => Admission!RunOf(a) # Admission!NoRun /\ ~Admission!IsSameRun(a)

\* The inductive invariant of the barrier.
BarrierInv ==
    /\ Admission!TypeOK
    /\ RowsAgree
    /\ \A r \in Residents : TransitionAgrees(r) /\ HistoryAgrees(r)
    /\ \A a \in Admitters : CreationAgrees(a)
-----------------------------------------------------------------------------
(***************************************************************************)
(* The rows only grow.                                                     *)
(***************************************************************************)
AuthorityGrows ==
    \/ coordinator' = coordinator
    \/ coordinator'.epoch = coordinator.epoch /\ ~coordinator'.active
    \/ coordinator.epoch < coordinator'.epoch

CreatedGrows(i) ==
    /\ Past(runs[i], runs'[i])
    /\ runs[i] # Admission!NoRun => runs'[i] # Admission!NoRun /\ runs'[i].content = runs[i].content
    /\ runs[i] = Admission!NoRun /\ runs'[i] # Admission!NoRun =>
          barrier.state # "CLOSED" /\ barrier' = barrier

BarrierGrows ==
    /\ AuthorityGrows
    /\ Past(barrier, barrier')
    /\ requests \subseteq requests'
    /\ \A q \in requests' \ requests : Admission!TransitionHolds(q)
    /\ \A i \in Runs : CreatedGrows(i)

StoreType ==
    /\ coordinator \in [epoch : 0..MaxEpoch, active : BOOLEAN]
    /\ barrier \in Admission!Barrier
    /\ requests \subseteq Admission!Request
    /\ runs \in Admission!History

\* What RowsAgree says of the rows alone.
RowsHold ==
    /\ Past(Admission!NoBarrier, barrier)
    /\ \A i \in Runs : runs[i] # Admission!NoRun =>
           runs[i].content \in Contents /\ runs[i].version > 0
    /\ \A q \in requests : q.predecessor.version < MaxSafe /\ Past(Admission!Successor(q), barrier)

LEMMA SuccessorType ==
    ASSUME BarrierAssumptions, NEW q \in Admission!Request, q.predecessor.version < MaxSafe
    PROVE  /\ Admission!Successor(q) \in Admission!Barrier
           /\ Admission!Successor(q).version = q.predecessor.version + 1
           /\ q.action # "reopen" => Admission!Successor(q).state = "CLOSED"
BY DEF BarrierAssumptions, Admission!Request, Admission!Barrier, Admission!Successor,
       Admission!Epochs, Admission!Actions

LEMMA TransitionGrows ==
    ASSUME BarrierAssumptions, StoreType, RowsHold, NEW q \in Admission!Request,
           q.predecessor.version < MaxSafe, Admission!CommitTransition(q)
    PROVE  StoreType' /\ RowsHold' /\ BarrierGrows
<1>1. /\ Admission!Successor(q) \in Admission!Barrier
      /\ Admission!Successor(q).version = q.predecessor.version + 1
    BY SuccessorType
<1>2. barrier' = Admission!Successor(q) /\ barrier.version = q.predecessor.version
    BY DEF Admission!CommitTransition, Admission!TransitionHolds
<1>3. barrier.version \in Nat /\ barrier'.version = barrier.version + 1
    BY <1>1, <1>2 DEF StoreType, Admission!Barrier
<1>4. StoreType'
    BY <1>1, <1>2 DEF Admission!CommitTransition, StoreType
<1>5. ASSUME NEW p \in requests'
      PROVE  p.predecessor.version < MaxSafe /\ Past(Admission!Successor(p), barrier')
    <2>1. CASE p = q
        BY <2>1, <1>2 DEF Past
    <2>2. CASE p \in requests
        <3>1. /\ p \in Admission!Request /\ p.predecessor.version < MaxSafe
              /\ Past(Admission!Successor(p), barrier)
            BY <2>2 DEF StoreType, RowsHold
        <3>2. Admission!Successor(p).version \in Nat
            BY <3>1, SuccessorType DEF Admission!Barrier, BarrierAssumptions
        <3> QED BY <3>1, <3>2, <1>3 DEF Past
    <2> QED BY <2>1, <2>2 DEF Admission!CommitTransition
<1>6. RowsHold'
    <2>1. 0 < barrier'.version
        BY <1>3
    <2> QED BY <1>5, <2>1
            DEF RowsHold, Admission!CommitTransition, Past, Admission!Successor, Admission!NoBarrier
<1>7. BarrierGrows
    BY <1>3
    DEF Admission!CommitTransition, BarrierGrows, AuthorityGrows, CreatedGrows, Past, StoreType
<1> QED BY <1>4, <1>6, <1>7

LEMMA AdmissionGrows ==
    ASSUME BarrierAssumptions, StoreType, RowsHold, NEW k \in Admission!Call, NEW g,
           g.state # "CLOSED", Admission!CommitAdmission(k, g)
    PROVE  StoreType' /\ RowsHold' /\ BarrierGrows
<1>1. runs' = [runs EXCEPT ![k.run] = [content |-> k.content, version |-> 1]]
    BY DEF Admission!CommitAdmission
<1>2. /\ [content |-> k.content, version |-> 1] \in Admission!Run /\ k.run \in Runs
      /\ k.content \in Contents
    BY DEF Admission!Call, Admission!Run, BarrierAssumptions
<1>3. StoreType'
    BY <1>1, <1>2 DEF Admission!CommitAdmission, StoreType, Admission!History
<1>4. runs[k.run] = Admission!NoRun /\ barrier.state # "CLOSED" /\ barrier' = barrier
    BY DEF Admission!CommitAdmission, Admission!AdmissionHolds
<1>5. ASSUME NEW i \in Runs
      PROVE  /\ CreatedGrows(i)
             /\ runs'[i] # Admission!NoRun =>
                    runs'[i].content \in Contents /\ runs'[i].version > 0
    <2>1. CASE i = k.run
        <3>1. runs'[i] = [content |-> k.content, version |-> 1]
            BY <2>1, <1>1, <1>2 DEF StoreType, Admission!History
        <3> QED BY <3>1, <2>1, <1>2, <1>4 DEF CreatedGrows, Past, Admission!NoRun
    <2>2. CASE i # k.run
        BY <2>2, <1>1, <1>2 DEF CreatedGrows, Past, StoreType, Admission!History, RowsHold
    <2> QED BY <2>1, <2>2
<1>6. RowsHold'
    BY <1>5 DEF RowsHold, Admission!CommitAdmission, Past, Admission!Successor
<1>7. BarrierGrows
    BY <1>5 DEF BarrierGrows, AuthorityGrows, Past, Admission!CommitAdmission
<1> QED BY <1>3, <1>6, <1>7

LEMMA RowsRest ==
    ASSUME StoreType, RowsHold, UNCHANGED <<coordinator, barrier, requests, runs>>
    PROVE  StoreType' /\ RowsHold' /\ BarrierGrows
BY DEF StoreType, RowsHold, BarrierGrows, AuthorityGrows, CreatedGrows, Past, Admission!Successor

\* Past is an order on rows.
LEMMA PastIsAnOrder ==
    ASSUME NEW a, NEW b, NEW c, a.version \in Nat, b.version \in Nat, c.version \in Nat
    PROVE  /\ Past(a, b) /\ Past(b, c) => Past(a, c)
           /\ Past(a, b) /\ Past(b, a) => a = b
BY DEF Past

LEMMA DoomedStays ==
    ASSUME BarrierAssumptions, StoreType, StoreType', BarrierGrows, NEW q \in Admission!Request,
           Doomed(q)
    PROVE  /\ Doomed(q)'
           /\ q \notin requests => q \notin requests'
<1>1. ~Admission!TransitionHolds(q)
    BY DEF Doomed, Admission!TransitionHolds, Superseded, Admission!IsCurrent, StoreType,
           Admission!Request, Admission!Barrier,
           Admission!Epochs, BarrierAssumptions
<1>2. q \notin requests => q \notin requests'
    BY <1>1 DEF BarrierGrows
<1>n. /\ q.epoch \in Nat /\ coordinator.epoch \in Nat /\ coordinator'.epoch \in Nat
      /\ q.predecessor.version \in Nat /\ barrier.version \in Nat /\ barrier'.version \in Nat
    BY DEF StoreType, Admission!Request, Admission!Barrier, Admission!Epochs, BarrierAssumptions
<1>3. CASE Superseded(q.epoch)
    <2>1. Superseded(q.epoch)'
        BY <1>3, <1>n DEF Superseded, BarrierGrows, AuthorityGrows
    <2> QED BY <1>2, <2>1 DEF Doomed
<1>4. CASE q.predecessor.version < barrier.version
    <2>1. q.predecessor.version < barrier'.version
        BY <1>4, <1>n DEF BarrierGrows, Past
    <2> QED BY <1>2, <2>1 DEF Doomed
<1>5. CASE \E p \in requests : Admission!sameRequestId(p, q)
    <2>1. PICK p \in requests : Admission!sameRequestId(p, q)
        BY <1>5
    <2>2. p \in requests' /\ Admission!sameRequestId(p, q)'
        BY <2>1 DEF BarrierGrows, Admission!sameRequestId
    <2> QED BY <1>2, <2>2 DEF Doomed
<1> QED BY <1>2, <1>3, <1>4, <1>5 DEF Doomed
-----------------------------------------------------------------------------
(***************************************************************************)
(* Who does not move keeps what it may rely on.                             *)
(***************************************************************************)
PartyType ==
    /\ phase \in [Residents \cup Admitters ->
                     Admission!ResidentPhases \cup Admission!AdmitterPhases]
    /\ token \in [Residents -> 0..MaxEpoch]
    /\ copy \in [Residents \cup Admitters -> Admission!Barrier]
    /\ step \in [Residents -> Admission!Actions]
    /\ unread \in [Residents -> SUBSET Runs]
    /\ first \in [Residents -> Admission!History]
    /\ second \in [Residents -> Admission!History]
    /\ creation \in [Admitters -> Admission!Call \cup {Admission!NoCall}]
    /\ answer \in [Admitters -> Admission!Outcomes]
    /\ snapshot \in [Residents -> Admission!History]

DelayedAgrees ==
    /\ underway \subseteq
          [kind : {"transition"}, request : Admission!Request] \cup
          [kind : {"admission"}, call : Admission!Call, generation : Admission!Barrier]
    /\ \A t \in underway : t.kind = "transition" => t.request.predecessor.version < MaxSafe
    /\ \A t \in underway : t.kind = "admission" => t.generation.state # "CLOSED"

RefusedAgrees ==
    /\ refused \subseteq Admission!Request
    /\ \A q \in refused : Doomed(q) /\ q \notin requests

LEMMA InvParts ==
    BarrierInv <=> /\ StoreType /\ RowsHold /\ PartyType /\ DelayedAgrees /\ RefusedAgrees
                   /\ \A r \in Residents : TransitionAgrees(r) /\ HistoryAgrees(r)
                   /\ \A a \in Admitters : CreationAgrees(a)
BY DEF BarrierInv, Admission!TypeOK, RowsAgree, StoreType, RowsHold, PartyType, DelayedAgrees,
       RefusedAgrees

Unmoved(p) ==
    /\ phase'[p] = phase[p] /\ copy'[p] = copy[p]
    /\ p \in Residents =>
          /\ token'[p] = token[p] /\ step'[p] = step[p] /\ unread'[p] = unread[p]
          /\ first'[p] = first[p] /\ second'[p] = second[p] /\ snapshot'[p] = snapshot[p]
    /\ p \in Admitters => creation'[p] = creation[p] /\ answer'[p] = answer[p]

LEMMA RequestType ==
    ASSUME BarrierInv, NEW r \in Residents, phase[r] # "idle"
    PROVE  Admission!RequestOf(r) \in Admission!Request
<1>1. /\ token[r] \in 0..MaxEpoch /\ token[r] # 0 /\ step[r] \in Admission!Actions
      /\ copy[r] \in Admission!Barrier
    BY DEF BarrierInv, Admission!TypeOK, TransitionAgrees
<1>2. token[r] \in Admission!Epochs
    BY <1>1 DEF Admission!Epochs
<1> QED BY <1>1, <1>2 DEF Admission!RequestOf, Admission!Request

LEMMA VersionsAreNumbers ==
    ASSUME BarrierAssumptions
    PROVE  /\ \A b \in Admission!Barrier : b.version \in Nat
           /\ \A h \in Admission!History, i \in Runs : h[i].version \in Nat
BY DEF BarrierAssumptions, Admission!Barrier, Admission!History, Admission!Run

LEMMA MissesStays ==
    ASSUME BarrierAssumptions, BarrierInv, StoreType', BarrierGrows, NEW r \in Residents,
           NEW i \in Runs,
           copy[r].state = "CLOSED", copy'[r] = copy[r], second'[r] = second[r], Misses(r, i)'
    PROVE  Misses(r, i)
<1>1. barrier' = copy[r] /\ runs'[i] # Admission!NoRun /\ second[r][i] = Admission!NoRun
    BY DEF Misses
<1>2. /\ barrier.version \in Nat /\ barrier'.version \in Nat /\ copy[r].version \in Nat
      /\ Past(copy[r], barrier) /\ Past(barrier, barrier')
    BY VersionsAreNumbers
    DEF BarrierInv, Admission!TypeOK, StoreType, TransitionAgrees, BarrierGrows
<1>3. barrier = copy[r]
    BY <1>1, <1>2 DEF Past
<1>4. runs[i] # Admission!NoRun
    BY <1>1, <1>3 DEF BarrierGrows, CreatedGrows
<1> QED BY <1>1, <1>3, <1>4 DEF Misses

LEMMA ResidentRests ==
    ASSUME BarrierAssumptions, BarrierInv, StoreType', BarrierGrows, NEW r \in Residents, Unmoved(r)
    PROVE  TransitionAgrees(r)' /\ HistoryAgrees(r)'
<1>1. TransitionAgrees(r) /\ HistoryAgrees(r) /\ StoreType /\ PartyType
    BY InvParts
<1>2. /\ coordinator.epoch \in Nat /\ coordinator'.epoch \in Nat /\ token[r] \in Nat
      /\ barrier.version \in Nat /\ barrier'.version \in Nat /\ copy[r].version \in Nat
    BY <1>1, VersionsAreNumbers DEF StoreType, PartyType, BarrierAssumptions
<1>3. token'[r] <= coordinator'.epoch
    BY <1>1, <1>2 DEF Unmoved, TransitionAgrees, BarrierGrows, AuthorityGrows
<1>4. Past(copy[r], barrier')
    BY <1>1, <1>2 DEF TransitionAgrees, BarrierGrows, Past
<1>5. phase[r] = "raced" => copy[r].version < barrier'.version
    BY <1>1, <1>2 DEF TransitionAgrees, BarrierGrows, Past
<1>6. PICK q : q = Admission!RequestOf(r)
    OBVIOUS
<1>7. q = Admission!RequestOf(r)'
    BY <1>6 DEF Admission!RequestOf, Unmoved
<1>8. /\ phase[r] \in {"readback", "refused"} => Doomed(q)'
      /\ phase[r] = "refused" => q \notin requests'
    BY <1>1, <1>6, RequestType, DoomedStays DEF TransitionAgrees
<1>9. TransitionAgrees(r)'
    <2>1. phase'[r] \in {"readback", "refused"} => Doomed(Admission!RequestOf(r))'
        BY <1>7, <1>8 DEF Unmoved, Doomed, Superseded, Admission!sameRequestId
    <2>2. phase'[r] = "refused" => Admission!RequestOf(r)' \notin requests'
        BY <1>7, <1>8 DEF Unmoved
    <2> QED BY <1>1, <1>3, <1>4, <1>5, <2>1, <2>2 DEF TransitionAgrees, Unmoved
<1>10. ASSUME NEW i \in Runs, NEW a \in Admission!Run, Past(a, runs[i])
       PROVE  Past(a, runs'[i])
    <2>1. a.version \in Nat /\ runs[i].version \in Nat /\ runs'[i].version \in Nat
        BY <1>1, VersionsAreNumbers DEF StoreType, Admission!Run, BarrierAssumptions
    <2> QED BY <2>1, <1>10 DEF BarrierGrows, CreatedGrows, Past
<1>11. phase'[r] = "list" => \A i \in Runs \ unread'[r] : Past(first'[r][i], runs'[i])
    BY <1>1, <1>10 DEF HistoryAgrees, Unmoved, PartyType, Admission!History
<1>12. phase'[r] = "check" => \A i \in Runs : Past(snapshot'[r][i], runs'[i])
    BY <1>1, <1>10 DEF HistoryAgrees, Unmoved, PartyType, Admission!History
<1>13. phase[r] = "check" \/ Admission!Reconstructed(r) =>
             \A i \in Runs : Misses(r, i)' => Misses(r, i)
    BY <1>1, MissesStays DEF HistoryAgrees, Unmoved
<1>14. HistoryAgrees(r)'
    BY <1>1, <1>11, <1>12, <1>13 DEF HistoryAgrees, Unmoved, Admission!Reconstructed
<1> QED BY <1>9, <1>14

LEMMA AdmitterRests ==
    ASSUME BarrierAssumptions, BarrierInv, StoreType', BarrierGrows, NEW a \in Admitters, Unmoved(a)
    PROVE  CreationAgrees(a)'
<1>1. CreationAgrees(a) /\ PartyType /\ StoreType
    BY InvParts
<1>2. CASE phase[a] = "idle"
    BY <1>1, <1>2 DEF CreationAgrees, Unmoved, Admission!AdmitterPhases
<1>3. CASE phase[a] # "idle"
    <2>1. creation[a].run \in Runs /\ creation[a].content \in Contents
        BY <1>1, <1>3 DEF CreationAgrees, Admission!Call
    <2>2. CreatedGrows(creation[a].run)
        BY <2>1 DEF BarrierGrows
    <2>3. Admission!IsSameRun(a) => Admission!RunOf(a) # Admission!NoRun
        BY <2>1 DEF Admission!IsSameRun, Admission!RunOf, Admission!NoRun, BarrierAssumptions
    <2>4. /\ Admission!RunOf(a) # Admission!NoRun => Admission!RunOf(a)' # Admission!NoRun
          /\ Admission!RunOf(a) # Admission!NoRun =>
                 (Admission!IsSameRun(a)' <=> Admission!IsSameRun(a))
        BY <2>2 DEF CreatedGrows, Admission!RunOf, Admission!IsSameRun, Unmoved
    <2> QED BY <1>1, <2>3, <2>4 DEF CreationAgrees, Unmoved
<1> QED BY <1>2, <1>3

LEMMA RefusedRest ==
    ASSUME BarrierAssumptions, BarrierInv, StoreType', BarrierGrows, UNCHANGED refused
    PROVE  RefusedAgrees'
<1>1. StoreType /\ RefusedAgrees
    BY InvParts
<1>2. ASSUME NEW q \in refused
      PROVE  Doomed(q)' /\ q \notin requests'
    BY <1>1, <1>2, DoomedStays DEF RefusedAgrees
<1> QED BY <1>1, <1>2 DEF RefusedAgrees

\* A step of one party is judged by the rows and by that party.
LEMMA OneMoves ==
    ASSUME BarrierAssumptions, BarrierInv, NEW p,
           StoreType', RowsHold', BarrierGrows, PartyType', DelayedAgrees', RefusedAgrees',
           \A s \in (Residents \cup Admitters) \ {p} : Unmoved(s),
           p \in Residents => TransitionAgrees(p)' /\ HistoryAgrees(p)',
           p \in Admitters => CreationAgrees(p)'
    PROVE  BarrierInv'
<1>1. ASSUME NEW r \in Residents PROVE TransitionAgrees(r)' /\ HistoryAgrees(r)'
    BY <1>1, ResidentRests
<1>2. ASSUME NEW a \in Admitters PROVE CreationAgrees(a)'
    BY <1>2, AdmitterRests
<1> QED
    <2>1. /\ StoreType' /\ RowsHold' /\ PartyType' /\ DelayedAgrees' /\ RefusedAgrees'
          /\ \A r \in Residents : TransitionAgrees(r)' /\ HistoryAgrees(r)'
          /\ \A a \in Admitters : CreationAgrees(a)'
        BY <1>1, <1>2
    <2> QED BY <2>1 DEF BarrierInv, Admission!TypeOK, RowsAgree, StoreType, RowsHold, PartyType,
                        DelayedAgrees, RefusedAgrees
-----------------------------------------------------------------------------
(***************************************************************************)
(* The steps of a resident.                                                *)
(***************************************************************************)
LEMMA RestingRows ==
    ASSUME BarrierAssumptions, BarrierInv, UNCHANGED <<coordinator, barrier, requests, runs>>
    PROVE  /\ StoreType' /\ RowsHold' /\ BarrierGrows
           /\ UNCHANGED refused => RefusedAgrees'
           /\ UNCHANGED underway => DelayedAgrees'
<1>1. StoreType' /\ RowsHold' /\ BarrierGrows
    BY InvParts, RowsRest
<1>2. UNCHANGED refused => RefusedAgrees'
    BY <1>1, RefusedRest
<1> QED BY <1>1, <1>2, InvParts DEF DelayedAgrees

NoRow == [i \in Runs |-> Admission!NoRun]

LEMMA EmptyRows == BarrierAssumptions =>
    Admission!NoBarrier \in Admission!Barrier /\ NoRow \in Admission!History
BY DEF BarrierAssumptions, Admission!NoBarrier, Admission!Barrier, NoRow, Admission!NoRun,
       Admission!History, Admission!Run

\* Nothing is known to a resident that stops or serves.
LEMMA StopAgrees ==
    ASSUME BarrierAssumptions, BarrierInv, NEW r \in Residents, NEW next \in {"idle", "serving"},
           Admission!StopAt(r, next), UNCHANGED <<token, Admission!admitter>>, StoreType',
           BarrierGrows,
           phase[r] # "idle"
    PROVE  /\ PartyType'
           /\ \A s \in (Residents \cup Admitters) \ {r} : Unmoved(s)
           /\ TransitionAgrees(r)' /\ HistoryAgrees(r)'
<1>1. StoreType /\ PartyType /\ TransitionAgrees(r)
    BY InvParts
<1>2. Admission!NoBarrier \in Admission!Barrier /\ NoRow \in Admission!History
    BY EmptyRows
<1>3. PartyType'
    BY <1>1, <1>2
    DEF PartyType, Admission!StopAt, Admission!Goto, Admission!admitter, NoRow, Admission!Actions,
        Admission!ResidentPhases
<1>4. \A s \in (Residents \cup Admitters) \ {r} : Unmoved(s)
    BY <1>1 DEF PartyType, Admission!StopAt, Admission!Goto, Admission!admitter, Unmoved
<1>5. /\ phase'[r] = next /\ copy'[r] = Admission!NoBarrier /\ step'[r] = "close"
      /\ token'[r] = token[r]
    BY <1>1 DEF PartyType, Admission!StopAt, Admission!Goto
<1>6. /\ coordinator.epoch \in Nat /\ coordinator'.epoch \in Nat /\ token[r] \in Nat
      /\ barrier'.version \in Nat
    BY <1>1, VersionsAreNumbers DEF StoreType, PartyType, BarrierAssumptions
<1>7. token'[r] <= coordinator'.epoch
    BY <1>1, <1>5, <1>6 DEF TransitionAgrees, BarrierGrows, AuthorityGrows
<1>8. Past(copy'[r], barrier')
    <2>1. barrier.version \in Nat /\ Past(Admission!NoBarrier, barrier) /\ Past(barrier, barrier')
        BY InvParts, VersionsAreNumbers DEF StoreType, RowsHold, BarrierGrows
    <2> QED BY <2>1, <1>5, <1>6 DEF Past, Admission!NoBarrier
<1> QED BY <1>1, <1>3, <1>4, <1>5, <1>7, <1>8
        DEF TransitionAgrees, HistoryAgrees, Admission!Reconstructed,
                                                   Admission!ResidentPhases

\* Between the start of a transition and its answer.
Moving == {"receipt", "current", "raced", "write", "readback", "explain", "refused", "recheck"}

\* What a resident may rely on of the rows it has read, whoever moves them.
LEMMA KnowledgeStays ==
    ASSUME BarrierAssumptions, BarrierInv, StoreType', BarrierGrows, NEW r \in Residents,
           copy'[r] = copy[r], token'[r] = token[r], step'[r] = step[r],
           first'[r] = first[r], second'[r] = second[r], snapshot'[r] = snapshot[r]
    PROVE  /\ token'[r] <= coordinator'.epoch
           /\ Past(copy'[r], barrier')
           /\ Admission!Reconstructed(r) =>
                 /\ copy'[r].state = "CLOSED" /\ first'[r] = snapshot'[r]
                 /\ \A i \in Runs : ~Misses(r, i)'
<1>1. TransitionAgrees(r) /\ HistoryAgrees(r) /\ StoreType /\ PartyType
    BY InvParts
<1>2. /\ coordinator.epoch \in Nat /\ coordinator'.epoch \in Nat /\ token[r] \in Nat
      /\ barrier.version \in Nat /\ barrier'.version \in Nat /\ copy[r].version \in Nat
    BY <1>1, VersionsAreNumbers DEF StoreType, PartyType, BarrierAssumptions
<1>3. token'[r] <= coordinator'.epoch
    BY <1>1, <1>2 DEF TransitionAgrees, BarrierGrows, AuthorityGrows
<1>4. Past(copy'[r], barrier')
    BY <1>1, <1>2 DEF TransitionAgrees, BarrierGrows, Past
<1>5. Admission!Reconstructed(r) =>
          /\ copy'[r].state = "CLOSED" /\ first'[r] = snapshot'[r]
          /\ \A i \in Runs : ~Misses(r, i)'
    BY <1>1, MissesStays DEF HistoryAgrees
<1> QED BY <1>3, <1>4, <1>5

LEMMA GotoAgrees ==
    ASSUME BarrierAssumptions, BarrierInv, StoreType', BarrierGrows, NEW r \in Residents,
           NEW next \in Moving,
           phase[r] # "idle", Admission!Goto(r, next),
           UNCHANGED <<copy, Admission!resident, Admission!admitter>>,
           next = "write" => copy[r].version < MaxSafe,
           next = "raced" => copy[r].version < barrier'.version,
           next \in {"readback", "refused"} => Doomed(Admission!RequestOf(r))',
           next = "refused" => Admission!RequestOf(r)' \notin requests'
    PROVE  /\ PartyType'
           /\ \A s \in (Residents \cup Admitters) \ {r} : Unmoved(s)
           /\ TransitionAgrees(r)' /\ HistoryAgrees(r)'
<1>1. StoreType /\ PartyType /\ TransitionAgrees(r)
    BY InvParts
<1>2. PartyType'
    BY <1>1
    DEF PartyType, Admission!Goto, Admission!resident, Admission!admitter, Admission!ResidentPhases,
        Moving
<1>3. \A s \in (Residents \cup Admitters) \ {r} : Unmoved(s)
    BY <1>1 DEF PartyType, Admission!Goto, Admission!resident, Admission!admitter, Unmoved
<1>4. phase'[r] = next /\ UNCHANGED <<copy, token, step, first, second, snapshot>>
    BY <1>1 DEF PartyType, Admission!Goto, Admission!resident
<1>5. /\ token'[r] <= coordinator'.epoch
      /\ Past(copy'[r], barrier')
      /\ Admission!Reconstructed(r) =>
            /\ copy'[r].state = "CLOSED" /\ first'[r] = snapshot'[r]
            /\ \A i \in Runs : ~Misses(r, i)'
    BY <1>4, KnowledgeStays
<1>6. TransitionAgrees(r)'
    BY <1>1, <1>4, <1>5 DEF TransitionAgrees, Moving, Admission!ResidentPhases
<1>7. HistoryAgrees(r)'
    BY <1>4, <1>5 DEF HistoryAgrees, Admission!Reconstructed, Moving
<1> QED BY <1>2, <1>3, <1>6, <1>7

LEMMA ContinueAgrees ==
    ASSUME BarrierAssumptions, BarrierInv, StoreType', BarrierGrows, NEW r \in Residents,
           NEW b \in Admission!Barrier,
           phase[r] # "idle", Admission!Continue(r, b), UNCHANGED Admission!admitter,
           Past(b, barrier'), step[r] # "reopen" => b.state = "CLOSED"
    PROVE  /\ PartyType'
           /\ \A s \in (Residents \cup Admitters) \ {r} : Unmoved(s)
           /\ TransitionAgrees(r)' /\ HistoryAgrees(r)'
<1>1. StoreType /\ PartyType /\ TransitionAgrees(r)
    BY InvParts
<1>2. CASE step[r] = "reopen"
    <2>1. Admission!Goto(r, "recheck") /\ UNCHANGED <<copy, Admission!resident>>
        BY <1>2 DEF Admission!Continue, Admission!Accepted, Admission!resident
    <2> QED BY <2>1, GotoAgrees DEF Moving
<1>3. CASE step[r] # "reopen"
    <2>1. /\ Admission!Goto(r, "list") /\ copy' = [copy EXCEPT ![r] = b]
          /\ unread' = [unread EXCEPT ![r] = Runs]
          /\ UNCHANGED <<token, step, first, second, refused, snapshot>>
        BY <1>3 DEF Admission!Continue, Admission!Accepted
    <2>2. PartyType'
        BY <1>1, <2>1 DEF PartyType, Admission!Goto, Admission!admitter, Admission!ResidentPhases
    <2>3. \A s \in (Residents \cup Admitters) \ {r} : Unmoved(s)
        BY <1>1, <2>1 DEF PartyType, Admission!Goto, Admission!admitter, Unmoved
    <2>4. phase'[r] = "list" /\ copy'[r] = b /\ unread'[r] = Runs /\ step'[r] = step[r]
        BY <1>1, <2>1 DEF PartyType, Admission!Goto
    <2>5. token'[r] <= coordinator'.epoch
        <3>1. coordinator.epoch \in Nat /\ coordinator'.epoch \in Nat /\ token[r] \in Nat
            BY <1>1 DEF StoreType, PartyType, BarrierAssumptions
        <3> QED BY <1>1, <2>1, <3>1 DEF TransitionAgrees, BarrierGrows, AuthorityGrows
    <2>6. TransitionAgrees(r)'
        BY <1>1, <2>1, <2>4, <2>5 DEF TransitionAgrees, Admission!ResidentPhases
    <2>7. HistoryAgrees(r)'
        BY <1>3, <2>4 DEF HistoryAgrees, Admission!Reconstructed
    <2> QED BY <2>2, <2>3, <2>6, <2>7
<1> QED BY <1>2, <1>3

\* A receipt proves the transition it names.
LEMMA ReceiptContinues ==
    ASSUME BarrierAssumptions, BarrierInv, NEW r \in Residents, phase[r] # "idle",
           Admission!RequestOf(r) \in requests
    PROVE  /\ Admission!Successor(Admission!RequestOf(r)) \in Admission!Barrier
           /\ Past(Admission!Successor(Admission!RequestOf(r)), barrier)
           /\ step[r] # "reopen" => Admission!Successor(Admission!RequestOf(r)).state = "CLOSED"
<1>1. RowsHold /\ Admission!RequestOf(r) \in Admission!Request
    BY InvParts, RequestType
<1>2. /\ Admission!RequestOf(r).predecessor.version < MaxSafe
      /\ Past(Admission!Successor(Admission!RequestOf(r)), barrier)
    BY <1>1 DEF RowsHold
<1>3. Admission!RequestOf(r).action = step[r]
    BY DEF Admission!RequestOf
<1> QED BY <1>1, <1>2, <1>3, SuccessorType
-----------------------------------------------------------------------------
LEMMA GrantStep ==
    ASSUME BarrierAssumptions, BarrierInv, NEW r \in Residents, Admission!Grant(r)
    PROVE  BarrierInv'
<1>1. StoreType /\ RowsHold /\ PartyType /\ DelayedAgrees /\ TransitionAgrees(r) /\ HistoryAgrees(r)
    BY InvParts
<1>2. coordinator.epoch \in Nat /\ coordinator' = [epoch |-> coordinator.epoch + 1, active |-> TRUE]
    BY <1>1 DEF Admission!Grant, StoreType, BarrierAssumptions
<1>3. /\ coordinator'.epoch = coordinator.epoch + 1
      /\ coordinator' \in [epoch : 0..MaxEpoch, active : BOOLEAN]
    BY <1>2 DEF Admission!Grant, BarrierAssumptions
<1>4. StoreType' /\ RowsHold' /\ BarrierGrows
    BY <1>1, <1>2, <1>3
    DEF Admission!Grant, StoreType, RowsHold, BarrierGrows, AuthorityGrows, CreatedGrows, Past,
                           Admission!Successor
<1>5. DelayedAgrees' /\ RefusedAgrees'
    BY <1>1, <1>4, RefusedRest DEF Admission!Grant, DelayedAgrees
<1>6. PartyType'
    BY <1>1, <1>3
    DEF Admission!Grant, PartyType, Admission!Goto, Admission!admitter, Admission!ResidentPhases
<1>7. \A s \in (Residents \cup Admitters) \ {r} : Unmoved(s)
    BY <1>1 DEF Admission!Grant, PartyType, Admission!Goto, Admission!admitter, Unmoved
<1>8. /\ phase'[r] = "get" /\ token'[r] = coordinator'.epoch
      /\ UNCHANGED <<copy, step, barrier>>
    BY <1>1, <1>3 DEF Admission!Grant, PartyType, Admission!Goto
<1>9. TransitionAgrees(r)'
    BY <1>1, <1>2, <1>3, <1>8 DEF TransitionAgrees, Admission!ResidentPhases
<1>10. HistoryAgrees(r)'
    BY <1>1, <1>8 DEF Admission!Grant, HistoryAgrees, Admission!Reconstructed
<1>11. r \notin Admitters
    BY DEF BarrierAssumptions
<1> QED BY <1>4, <1>5, <1>6, <1>7, <1>9, <1>10, <1>11, OneMoves

\* A step that leaves the rows alone and is judged by its resident.
LEMMA ResidentMoves ==
    ASSUME BarrierAssumptions, BarrierInv, NEW r \in Residents,
           UNCHANGED <<Admission!table, refused>>, PartyType',
           \A s \in (Residents \cup Admitters) \ {r} : Unmoved(s),
           TransitionAgrees(r)', HistoryAgrees(r)'
    PROVE  BarrierInv'
<1>1. r \notin Admitters
    BY DEF BarrierAssumptions
<1>2. StoreType' /\ RowsHold' /\ BarrierGrows /\ RefusedAgrees' /\ DelayedAgrees'
    BY RestingRows DEF Admission!table
<1> QED BY <1>1, <1>2, OneMoves

LEMMA StopsQuietly ==
    ASSUME BarrierAssumptions, BarrierInv, NEW r \in Residents, NEW next \in {"idle", "serving"},
           Admission!StopAt(r, next),
           UNCHANGED <<token, refused, Admission!admitter, Admission!table>>, phase[r] # "idle"
    PROVE  BarrierInv'
<1>1. StoreType' /\ BarrierGrows
    BY RestingRows DEF Admission!table
<1> QED BY <1>1, StopAgrees, ResidentMoves

LEMMA GoesQuietly ==
    ASSUME BarrierAssumptions, BarrierInv, NEW r \in Residents, NEW next \in Moving,
           phase[r] # "idle", Admission!Goto(r, next),
           UNCHANGED <<copy, Admission!resident, Admission!admitter, Admission!table>>,
           next = "write" => copy[r].version < MaxSafe,
           next = "raced" => copy[r].version < barrier.version,
           next \in {"readback", "refused"} => Doomed(Admission!RequestOf(r)),
           next = "refused" => Admission!RequestOf(r) \notin requests
    PROVE  BarrierInv'
<1>1. StoreType' /\ BarrierGrows
    BY RestingRows DEF Admission!table
<1>2. UNCHANGED <<coordinator, barrier, requests, token, step, refused>>
    BY DEF Admission!table, Admission!resident
<1>3. Admission!RequestOf(r)' = Admission!RequestOf(r)
    BY <1>2 DEF Admission!RequestOf
<1>4. next \in {"readback", "refused"} => Doomed(Admission!RequestOf(r))'
    BY <1>2, <1>3 DEF Doomed, Superseded, Admission!sameRequestId
<1>5. /\ PartyType'
      /\ \A s \in (Residents \cup Admitters) \ {r} : Unmoved(s)
      /\ TransitionAgrees(r)' /\ HistoryAgrees(r)'
    BY <1>1, <1>2, <1>3, <1>4, GotoAgrees
<1> QED BY <1>2, <1>5, ResidentMoves

LEMMA ContinuesQuietly ==
    ASSUME BarrierAssumptions, BarrierInv, NEW r \in Residents, phase[r] # "idle",
           Admission!RequestOf(r) \in requests,
           Admission!Continue(r, Admission!Successor(Admission!RequestOf(r))),
           UNCHANGED <<Admission!table, Admission!admitter>>
    PROVE  BarrierInv'
<1>1. StoreType' /\ BarrierGrows /\ UNCHANGED <<barrier, refused>>
    BY RestingRows DEF Admission!table, Admission!Continue
<1>2. /\ PartyType'
      /\ \A s \in (Residents \cup Admitters) \ {r} : Unmoved(s)
      /\ TransitionAgrees(r)' /\ HistoryAgrees(r)'
    BY <1>1, ReceiptContinues, ContinueAgrees
<1> QED BY <1>1, <1>2, ResidentMoves

LEMMA ResumeStep ==
    ASSUME BarrierAssumptions, BarrierInv, NEW r \in Residents, Admission!Resume(r)
    PROVE  BarrierInv'
<1>1. PartyType /\ TransitionAgrees(r) /\ HistoryAgrees(r)
    BY InvParts
<1>2. /\ Admission!Goto(r, "get")
      /\ UNCHANGED <<Admission!table, copy, Admission!resident, Admission!admitter>>
      /\ phase[r] = "idle" /\ token[r] > 0
    BY DEF Admission!Resume
<1>3. PartyType'
    BY <1>1, <1>2
    DEF PartyType, Admission!Goto, Admission!resident, Admission!admitter, Admission!ResidentPhases
<1>4. \A s \in (Residents \cup Admitters) \ {r} : Unmoved(s)
    BY <1>1, <1>2 DEF PartyType, Admission!Goto, Admission!resident, Admission!admitter, Unmoved
<1>5. phase'[r] = "get"
    BY <1>1, <1>2 DEF PartyType, Admission!Goto
<1>6. TransitionAgrees(r)'
    BY <1>1, <1>2, <1>5
    DEF TransitionAgrees, Admission!ResidentPhases, Admission!table, Admission!resident, PartyType
<1>7. HistoryAgrees(r)'
    BY <1>1, <1>2, <1>5 DEF HistoryAgrees, Admission!Reconstructed, Admission!resident
<1> QED BY <1>2, <1>3, <1>4, <1>6, <1>7, ResidentMoves DEF Admission!resident

LEMMA StopStep ==
    ASSUME BarrierAssumptions, BarrierInv, NEW r \in Residents, Admission!Stop(r)
    PROVE  BarrierInv'
<1>1. StoreType /\ RowsHold /\ DelayedAgrees
    BY InvParts
<1>2. StoreType' /\ RowsHold' /\ BarrierGrows
    <2>1. coordinator' = coordinator \/ coordinator' = [coordinator EXCEPT !.active = FALSE]
        BY DEF Admission!Stop
    <2>2. coordinator' \in [epoch : 0..MaxEpoch, active : BOOLEAN] /\ AuthorityGrows
        BY <1>1, <2>1 DEF StoreType, AuthorityGrows
    <2> QED BY <1>1, <2>2
            DEF Admission!Stop, StoreType, RowsHold, BarrierGrows, CreatedGrows, Past,
                Admission!Successor
<1>3. DelayedAgrees' /\ RefusedAgrees'
    BY <1>1, <1>2, RefusedRest DEF Admission!Stop, DelayedAgrees
<1>4. /\ PartyType'
      /\ \A s \in (Residents \cup Admitters) \ {r} : Unmoved(s)
      /\ TransitionAgrees(r)' /\ HistoryAgrees(r)'
    BY <1>2, StopAgrees DEF Admission!Stop
<1>5. r \notin Admitters
    BY DEF BarrierAssumptions
<1> QED BY <1>2, <1>3, <1>4, <1>5, OneMoves

LEMMA SelectStep ==
    ASSUME BarrierAssumptions, BarrierInv, NEW r \in Residents, Admission!Select(r)
    PROVE  BarrierInv'
<1>1. StoreType /\ PartyType /\ TransitionAgrees(r) /\ HistoryAgrees(r) /\ phase[r] = "get"
    BY InvParts DEF Admission!Select
<1>2. UNCHANGED <<Admission!table, Admission!admitter, token, refused>>
    BY DEF Admission!Select
<1>3. CASE Admission!StopAt(r, "idle")
    BY <1>1, <1>2, <1>3, StopsQuietly
<1>4. CASE /\ copy' = [copy EXCEPT ![r] = barrier]
           /\ unread' = [unread EXCEPT ![r] = Runs]
           /\ Admission!Goto(r, "list") /\ barrier.state = "CLOSED"
           /\ UNCHANGED <<step, first, second, snapshot>>
    <2>1. PartyType'
        BY <1>1, <1>2, <1>4
        DEF PartyType, Admission!Goto, Admission!admitter, Admission!ResidentPhases, StoreType
    <2>2. \A s \in (Residents \cup Admitters) \ {r} : Unmoved(s)
        BY <1>1, <1>2, <1>4 DEF PartyType, Admission!Goto, Admission!admitter, Unmoved
    <2>3. phase'[r] = "list" /\ copy'[r] = barrier /\ unread'[r] = Runs /\ step'[r] = step[r]
        BY <1>1, <1>4 DEF PartyType, Admission!Goto
    <2>4. TransitionAgrees(r)'
        BY <1>1, <1>2, <2>3 DEF TransitionAgrees, Admission!ResidentPhases, Admission!table, Past
    <2>5. HistoryAgrees(r)'
        BY <1>1, <1>4, <2>3 DEF HistoryAgrees, Admission!Reconstructed
    <2> QED BY <1>2, <2>1, <2>2, <2>4, <2>5, ResidentMoves
<1>5. CASE /\ copy' = [copy EXCEPT ![r] = barrier]
           /\ step' = [step EXCEPT ![r] = "adopt"] \/ step' = [step EXCEPT ![r] = "close"]
           /\ Admission!Goto(r, "receipt")
           /\ UNCHANGED <<unread, first, second, snapshot>>
    <2>1. PartyType'
        BY <1>1, <1>2, <1>5
        DEF PartyType, Admission!Goto, Admission!admitter, Admission!ResidentPhases, StoreType,
            Admission!Actions
    <2>2. \A s \in (Residents \cup Admitters) \ {r} : Unmoved(s)
        BY <1>1, <1>2, <1>5 DEF PartyType, Admission!Goto, Admission!admitter, Unmoved
    <2>3. phase'[r] = "receipt" /\ copy'[r] = barrier /\ step'[r] \in {"close", "adopt"}
        BY <1>1, <1>5 DEF PartyType, Admission!Goto
    <2>4. TransitionAgrees(r)'
        BY <1>1, <1>2, <2>3 DEF TransitionAgrees, Admission!ResidentPhases, Admission!table, Past
    <2>5. HistoryAgrees(r)'
        BY <2>3 DEF HistoryAgrees, Admission!Reconstructed
    <2> QED BY <1>2, <2>1, <2>2, <2>4, <2>5, ResidentMoves
<1> QED BY <1>3, <1>4, <1>5 DEF Admission!Select

LEMMA ReadReceiptStep ==
    ASSUME BarrierAssumptions, BarrierInv, NEW r \in Residents, Admission!ReadReceipt(r)
    PROVE  BarrierInv'
<1>1. /\ phase[r] \in {"receipt", "raced", "readback"}
      /\ UNCHANGED <<Admission!table, Admission!admitter>>
      /\ PartyType /\ StoreType /\ TransitionAgrees(r)
    BY InvParts DEF Admission!ReadReceipt
<1>2. CASE /\ Admission!RequestOf(r) \in requests
           /\ Admission!Continue(r, Admission!Successor(Admission!RequestOf(r)))
    BY <1>1, <1>2, ContinuesQuietly
<1>3. CASE Admission!StopAt(r, "idle") /\ UNCHANGED <<token, refused>>
    BY <1>1, <1>3, StopsQuietly
<1>4. CASE /\ Admission!Receipts(r) = {} /\ UNCHANGED <<copy, Admission!resident>>
           /\ Admission!Goto(r, IF phase[r] = "receipt" THEN "current" ELSE "refused")
    <2>1. Admission!RequestOf(r) \notin requests
        BY <1>4 DEF Admission!Receipts, Admission!sameRequestId
    <2>2. phase[r] = "raced" => Doomed(Admission!RequestOf(r))
        BY <1>1 DEF TransitionAgrees, Doomed, Admission!RequestOf
    <2>3. phase[r] # "receipt" => Doomed(Admission!RequestOf(r))
        BY <1>1, <2>2 DEF TransitionAgrees
    <2> DEFINE next == IF phase[r] = "receipt" THEN "current" ELSE "refused"
    <2>4. next \in Moving /\ next \notin {"write", "raced", "readback"}
        BY DEF Moving
    <2>5. next = "refused" => phase[r] # "receipt"
        OBVIOUS
    <2> HIDE DEF next
    <2>6. Admission!Goto(r, next)
        BY <1>4 DEF next
    <2> QED BY <1>1, <1>4, <2>1, <2>3, <2>4, <2>5, <2>6, GoesQuietly
<1> QED BY <1>1, <1>2, <1>3, <1>4 DEF Admission!ReadReceipt

LEMMA ReadBarrierStep ==
    ASSUME BarrierAssumptions, BarrierInv, NEW r \in Residents, Admission!ReadBarrier(r)
    PROVE  BarrierInv'
<1>1. /\ phase[r] = "current" /\ UNCHANGED <<Admission!table, Admission!admitter>>
      /\ PartyType /\ StoreType /\ TransitionAgrees(r)
    BY InvParts DEF Admission!ReadBarrier
<1>2. CASE barrier # copy[r] /\ Admission!Goto(r, "raced") /\ UNCHANGED <<copy, Admission!resident>>
    <2>1. copy[r].version < barrier.version
        BY <1>1, <1>2 DEF TransitionAgrees, Past
    <2> QED BY <1>1, <1>2, <2>1, GoesQuietly DEF Moving
<1>3. CASE barrier = copy[r] /\ barrier.version < MaxSafe /\ Admission!Goto(r, "write")
           /\ UNCHANGED <<copy, Admission!resident>>
    BY <1>1, <1>3, GoesQuietly DEF Moving
<1>4. CASE Admission!StopAt(r, "idle") /\ UNCHANGED <<token, refused>>
    BY <1>1, <1>4, StopsQuietly
<1> QED BY <1>2, <1>3, <1>4 DEF Admission!ReadBarrier

LEMMA PostponeAgrees ==
    ASSUME DelayedAgrees, NEW t, Admission!Postpone(t),
           \/ /\ t \in [kind : {"transition"}, request : Admission!Request]
              /\ t.request.predecessor.version < MaxSafe
           \/ /\ t \in [kind : {"admission"}, call : Admission!Call, generation : Admission!Barrier]
              /\ t.generation.state # "CLOSED"
    PROVE  DelayedAgrees'
BY DEF Admission!Postpone, DelayedAgrees

LEMMA WriteTransitionStep ==
    ASSUME BarrierAssumptions, BarrierInv, NEW r \in Residents, Admission!WriteTransition(r)
    PROVE  BarrierInv'
<1>1. /\ phase[r] = "write" /\ UNCHANGED Admission!admitter /\ r \notin Admitters
      /\ PartyType /\ StoreType /\ RowsHold /\ DelayedAgrees /\ TransitionAgrees(r)
    BY InvParts DEF Admission!WriteTransition, BarrierAssumptions
<1>2. /\ Admission!RequestOf(r) \in Admission!Request
      /\ Admission!RequestOf(r).predecessor.version < MaxSafe
      /\ Admission!RequestOf(r).action = step[r] /\ Admission!RequestOf(r).epoch = token[r]
    BY <1>1, RequestType DEF TransitionAgrees, Admission!RequestOf
<1>3. CASE Admission!CommitTransition(Admission!RequestOf(r)) /\ UNCHANGED <<underway, refused>>
           /\ \/ Admission!Continue(r, Admission!Successor(Admission!RequestOf(r)))
              \/ Admission!Goto(r, "explain") /\ UNCHANGED <<copy, Admission!resident>>
    <2>1. StoreType' /\ RowsHold' /\ BarrierGrows
        BY <1>1, <1>2, <1>3, TransitionGrows
    <2>2. DelayedAgrees' /\ RefusedAgrees'
        BY <1>1, <1>3, <2>1, RefusedRest DEF DelayedAgrees
    <2>3. /\ Admission!Successor(Admission!RequestOf(r)) \in Admission!Barrier
          /\ Past(Admission!Successor(Admission!RequestOf(r)), barrier')
          /\ step[r] # "reopen" => Admission!Successor(Admission!RequestOf(r)).state = "CLOSED"
        BY <1>2, <1>3, SuccessorType DEF Admission!CommitTransition, Past
    <2>4. /\ PartyType'
          /\ \A s \in (Residents \cup Admitters) \ {r} : Unmoved(s)
          /\ TransitionAgrees(r)' /\ HistoryAgrees(r)'
        BY <1>1, <1>3, <2>1, <2>3, ContinueAgrees, GotoAgrees DEF Moving
    <2> QED BY <1>1, <2>1, <2>2, <2>4, OneMoves
<1>4. CASE ~Admission!TransitionHolds(Admission!RequestOf(r)) /\ Admission!Goto(r, "readback")
           /\ UNCHANGED <<Admission!table, copy, Admission!resident>>
    <2>1. Doomed(Admission!RequestOf(r))
        <3>1. CASE ~Admission!IsCurrent(Admission!RequestOf(r).epoch)
            <4>1. token[r] \in Nat /\ coordinator.epoch \in Nat
                BY <1>1 DEF PartyType, StoreType, BarrierAssumptions
            <4> QED BY <1>1, <1>2, <3>1, <4>1
                    DEF Admission!IsCurrent, Doomed, Superseded, TransitionAgrees
        <3>2. CASE barrier # Admission!RequestOf(r).predecessor
            BY <1>1, <3>2 DEF Doomed, TransitionAgrees, Past, Admission!RequestOf
        <3>3. CASE ~\A q \in requests : ~Admission!sameRequestId(q, Admission!RequestOf(r))
            BY <3>3 DEF Doomed
        <3> QED BY <1>4, <3>1, <3>2, <3>3 DEF Admission!TransitionHolds
    <2> QED BY <1>1, <1>4, <2>1, GoesQuietly DEF Moving
<1>5. CASE /\ Admission!Postpone([kind |-> "transition", request |-> Admission!RequestOf(r)])
           /\ Admission!Goto(r, "explain")
           /\ UNCHANGED <<coordinator, barrier, requests, runs, copy, Admission!resident>>
    <2>1. StoreType' /\ RowsHold' /\ BarrierGrows /\ RefusedAgrees'
        BY <1>5, RestingRows DEF Admission!resident
    <2>2. DelayedAgrees'
        BY <1>1, <1>2, <1>5, PostponeAgrees
    <2>3. /\ PartyType'
          /\ \A s \in (Residents \cup Admitters) \ {r} : Unmoved(s)
          /\ TransitionAgrees(r)' /\ HistoryAgrees(r)'
        BY <1>1, <1>5, <2>1, GotoAgrees DEF Moving
    <2> QED BY <1>1, <2>1, <2>2, <2>3, OneMoves
<1> QED BY <1>3, <1>4, <1>5 DEF Admission!WriteTransition, Admission!Continue, Admission!resident

LEMMA ReadAfterFailureStep ==
    ASSUME BarrierAssumptions, BarrierInv, NEW r \in Residents, Admission!ReadAfterFailure(r)
    PROVE  BarrierInv'
BY ContinuesQuietly, StopsQuietly DEF Admission!ReadAfterFailure

LEMMA RefuseStep ==
    ASSUME BarrierAssumptions, BarrierInv, NEW r \in Residents, Admission!Refuse(r)
    PROVE  BarrierInv'
<1>1. /\ phase[r] = "refused" /\ Admission!StopAt(r, "idle")
      /\ UNCHANGED <<Admission!table, token, Admission!admitter>>
      /\ refused' = {Admission!RequestOf(r)} /\ r \notin Admitters /\ TransitionAgrees(r)
    BY InvParts DEF Admission!Refuse, BarrierAssumptions
<1>2. StoreType' /\ RowsHold' /\ BarrierGrows /\ DelayedAgrees'
    BY <1>1, RestingRows DEF Admission!table
<1>3. /\ PartyType'
      /\ \A s \in (Residents \cup Admitters) \ {r} : Unmoved(s)
      /\ TransitionAgrees(r)' /\ HistoryAgrees(r)'
    BY <1>1, <1>2, StopAgrees
<1>4. RefusedAgrees'
    <2>1. PICK q : q = Admission!RequestOf(r)
        OBVIOUS
    <2>2. q \in Admission!Request /\ Doomed(q) /\ q \notin requests
        BY <1>1, <2>1, RequestType DEF TransitionAgrees
    <2>3. refused' = {q} /\ UNCHANGED <<coordinator, barrier, requests>>
        BY <1>1, <2>1 DEF Admission!table
    <2> QED BY <2>2, <2>3 DEF RefusedAgrees, Doomed, Superseded, Admission!sameRequestId
<1> QED BY <1>1, <1>2, <1>3, <1>4, OneMoves

\* Reads of the history change nothing of the transition.
LEMMA ReadRunStep ==
    ASSUME BarrierAssumptions, BarrierInv, NEW r \in Residents, Admission!ReadRun(r)
    PROVE  BarrierInv'
<1>1. PICK i \in unread[r] :
          /\ phase[r] \in {"list", "check"}
          /\ IF Admission!FirstPass(r)
             THEN first' = [first EXCEPT ![r][i] = runs[i]] /\ UNCHANGED second
             ELSE second' = [second EXCEPT ![r][i] = runs[i]] /\ UNCHANGED first
          /\ unread' = [unread EXCEPT ![r] = @ \ {i}]
          /\ UNCHANGED <<Admission!table, phase, token, copy, step, refused, snapshot,
                         Admission!admitter>>
    BY DEF Admission!ReadRun
<1>2. PartyType /\ StoreType /\ TransitionAgrees(r) /\ HistoryAgrees(r)
    BY InvParts
<1>3. i \in Runs /\ runs[i] \in Admission!Run /\ unread'[r] = unread[r] \ {i}
    BY <1>1, <1>2 DEF PartyType, StoreType, Admission!History
<1>4. ASSUME NEW h \in [Residents -> Admission!History], NEW g, g = [h EXCEPT ![r][i] = runs[i]]
      PROVE  /\ g \in [Residents -> Admission!History] /\ g[r][i] = runs[i]
             /\ \A j \in Runs \ {i} : g[r][j] = h[r][j]
             /\ \A s \in Residents \ {r} : g[s] = h[s]
    BY <1>3, <1>4 DEF Admission!History
<1>5. first' \in [Residents -> Admission!History] /\ second' \in [Residents -> Admission!History]
    BY <1>1, <1>2, <1>4 DEF PartyType
<1>6. PartyType'
    BY <1>1, <1>2, <1>5 DEF PartyType, Admission!admitter
<1>7. \A s \in (Residents \cup Admitters) \ {r} : Unmoved(s)
    BY <1>1, <1>2, <1>4 DEF PartyType, Admission!admitter, Unmoved
<1>8. TransitionAgrees(r)'
    BY <1>1, <1>2
    DEF TransitionAgrees, Admission!table, Admission!RequestOf, Doomed, Superseded,
        Admission!sameRequestId, Past
<1>9. CASE phase[r] = "list"
    <2>1. /\ first'[r][i] = runs[i] /\ \A j \in Runs \ {i} : first'[r][j] = first[r][j]
        <3>1. /\ first' = [first EXCEPT ![r][i] = runs[i]]
              /\ first \in [Residents -> Admission!History]
            BY <1>1, <1>2, <1>9 DEF Admission!FirstPass, PartyType
        <3>2. first[r] \in [Runs -> Admission!Run] /\ first'[r] = [first[r] EXCEPT ![i] = runs[i]]
            BY <3>1 DEF Admission!History
        <3> QED BY <3>2, <1>3
    <2>2. \A j \in Runs \ unread'[r] : Past(first'[r][j], runs'[j])
        BY <1>1, <1>2, <1>3, <1>9, <2>1 DEF HistoryAgrees, Past, Admission!table
    <2>3. /\ phase'[r] = "list" /\ copy'[r].state = "CLOSED" /\ step'[r] = step[r]
          /\ ~Admission!Reconstructed(r)
        BY <1>1, <1>2, <1>9 DEF HistoryAgrees
    <2> QED BY <1>1, <1>6, <1>7, <1>8, <2>2, <2>3, ResidentMoves
            DEF HistoryAgrees, Admission!Reconstructed
<1>10. CASE phase[r] = "check"
    <2>1. /\ second'[r][i] = runs[i] /\ \A j \in Runs \ {i} : second'[r][j] = second[r][j]
          /\ first' = first
        <3>1. /\ second' = [second EXCEPT ![r][i] = runs[i]]
              /\ second \in [Residents -> Admission!History]
              /\ first' = first
            BY <1>1, <1>2, <1>10 DEF Admission!FirstPass, PartyType
        <3>2. /\ second[r] \in [Runs -> Admission!Run]
              /\ second'[r] = [second[r] EXCEPT ![i] = runs[i]]
            BY <3>1 DEF Admission!History
        <3> QED BY <3>1, <3>2, <1>3
    <2>2. ASSUME NEW j \in Runs \ unread'[r]
          PROVE  Past(snapshot'[r][j], second'[r][j]) /\ ~Misses(r, j)'
        BY <1>1, <1>2, <1>3, <1>10, <2>1 DEF HistoryAgrees, Misses, Admission!table
    <2>3. \A j \in Runs : Past(first'[r][j], snapshot'[r][j]) /\ Past(snapshot'[r][j], runs'[j])
        BY <1>1, <1>2, <1>10, <2>1 DEF HistoryAgrees, Admission!table, Past
    <2>4. /\ phase'[r] = "check" /\ copy'[r].state = "CLOSED" /\ step'[r] = step[r]
          /\ ~Admission!Reconstructed(r)
        BY <1>1, <1>2, <1>10 DEF HistoryAgrees
    <2>5. HistoryAgrees(r)'
        BY <2>2, <2>3, <2>4 DEF HistoryAgrees, Admission!Reconstructed
    <2> QED BY <1>1, <1>6, <1>7, <1>8, <2>5, ResidentMoves
<1> QED BY <1>1, <1>9, <1>10

LEMMA BeginSecondPassStep ==
    ASSUME BarrierAssumptions, BarrierInv, NEW r \in Residents, Admission!BeginSecondPass(r)
    PROVE  BarrierInv'
<1>1. PartyType /\ StoreType /\ TransitionAgrees(r) /\ HistoryAgrees(r)
    BY InvParts
<1>2. /\ phase[r] = "list" /\ unread[r] = {} /\ Admission!Goto(r, "check")
      /\ unread' = [unread EXCEPT ![r] = Runs]
      /\ snapshot' = [snapshot EXCEPT ![r] = runs]
      /\ UNCHANGED <<Admission!table, token, copy, step, first, second, refused,
                     Admission!admitter>>
    BY DEF Admission!BeginSecondPass, Admission!FirstPass
<1>3. PartyType'
    BY <1>1, <1>2
    DEF PartyType, StoreType, Admission!Goto, Admission!admitter, Admission!ResidentPhases
<1>4. \A s \in (Residents \cup Admitters) \ {r} : Unmoved(s)
    BY <1>1, <1>2 DEF PartyType, Admission!Goto, Admission!admitter, Unmoved
<1>5. phase'[r] = "check" /\ unread'[r] = Runs /\ snapshot'[r] = runs
    BY <1>1, <1>2 DEF PartyType, Admission!Goto
<1>6. TransitionAgrees(r)'
    BY <1>1, <1>2, <1>5 DEF TransitionAgrees, Admission!ResidentPhases, Admission!table, Past
<1>7. \A i \in Runs : Past(first'[r][i], snapshot'[r][i]) /\ Past(snapshot'[r][i], runs'[i])
    BY <1>1, <1>2, <1>5 DEF HistoryAgrees, Admission!table, Past
<1>8. HistoryAgrees(r)'
    BY <1>1, <1>2, <1>5, <1>7 DEF HistoryAgrees, Admission!Reconstructed
<1> QED BY <1>2, <1>3, <1>4, <1>6, <1>8, ResidentMoves

\* Both passes read every run before and after one moment; what did not change
\* between them is what was there at that moment.
LEMMA PassesEnclose ==
    ASSUME BarrierAssumptions, BarrierInv, NEW r \in Residents,
           phase[r] = "check", unread[r] = {}, first[r] = second[r]
    PROVE  first[r] = snapshot[r]
<1>1. /\ first[r] \in Admission!History /\ snapshot[r] \in Admission!History
      /\ \A i \in Runs : Past(first[r][i], snapshot[r][i]) /\ Past(snapshot[r][i], first[r][i])
    BY InvParts DEF PartyType, HistoryAgrees
<1>2. \A i \in Runs : first[r][i] = snapshot[r][i]
    BY <1>1, VersionsAreNumbers, PastIsAnOrder
<1> QED BY <1>1, <1>2 DEF Admission!History

LEMMA EndReconstructionStep ==
    ASSUME BarrierAssumptions, BarrierInv, NEW r \in Residents, Admission!EndReconstruction(r)
    PROVE  BarrierInv'
<1>1. /\ PartyType /\ StoreType /\ TransitionAgrees(r) /\ HistoryAgrees(r)
      /\ phase[r] = "check" /\ unread[r] = {} /\ UNCHANGED <<Admission!table, Admission!admitter>>
    BY InvParts DEF Admission!EndReconstruction
<1>2. CASE Admission!StopAt(r, "idle") /\ UNCHANGED <<token, refused>>
    BY <1>1, <1>2, StopsQuietly
<1>3. CASE /\ first[r] = second[r] /\ step' = [step EXCEPT ![r] = "reopen"]
           /\ Admission!Goto(r, "receipt")
           /\ UNCHANGED <<token, copy, unread, first, second, refused, snapshot>>
    <2>1. PartyType'
        BY <1>1, <1>3
        DEF PartyType, Admission!Goto, Admission!admitter, Admission!ResidentPhases,
            Admission!Actions
    <2>2. \A s \in (Residents \cup Admitters) \ {r} : Unmoved(s)
        BY <1>1, <1>3 DEF PartyType, Admission!Goto, Admission!admitter, Unmoved
    <2>3. phase'[r] = "receipt"
        BY <1>1, <1>3 DEF PartyType, Admission!Goto
    <2>4. TransitionAgrees(r)'
        BY <1>1, <1>3, <2>3 DEF TransitionAgrees, Admission!ResidentPhases, Admission!table, Past
    <2>5. first'[r] = snapshot'[r] /\ copy'[r].state = "CLOSED" /\ \A i \in Runs : ~Misses(r, i)'
        BY <1>1, <1>3, PassesEnclose DEF HistoryAgrees, Misses, Admission!table
    <2>6. HistoryAgrees(r)'
        BY <2>3, <2>5 DEF HistoryAgrees
    <2> QED BY <1>1, <1>3, <2>1, <2>2, <2>4, <2>6, ResidentMoves
<1> QED BY <1>2, <1>3 DEF Admission!EndReconstruction, Admission!Agree

LEMMA ServeStep ==
    ASSUME BarrierAssumptions, BarrierInv, NEW r \in Residents, Admission!Serve(r)
    PROVE  BarrierInv'
BY StopsQuietly DEF Admission!Serve

LEMMA ResidentStep ==
    ASSUME BarrierAssumptions, BarrierInv, NEW r \in Residents, Admission!ResidentNext(r)
    PROVE  BarrierInv'
BY GrantStep, ResumeStep, StopStep, SelectStep, ReadReceiptStep, ReadBarrierStep,
   WriteTransitionStep, ReadAfterFailureStep, RefuseStep, ReadRunStep, BeginSecondPassStep,
   EndReconstructionStep, ServeStep DEF Admission!ResidentNext
-----------------------------------------------------------------------------
(***************************************************************************)
(* The steps of a caller, of a late transaction and of the writers of runs. *)
(***************************************************************************)
LEMMA AdmitterMoves ==
    ASSUME BarrierAssumptions, BarrierInv, NEW a \in Admitters,
           UNCHANGED <<Admission!table, Admission!resident>>,
           phase' \in [Residents \cup Admitters ->
                         Admission!ResidentPhases \cup Admission!AdmitterPhases],
           copy' \in [Residents \cup Admitters -> Admission!Barrier],
           creation' \in [Admitters -> Admission!Call \cup {Admission!NoCall}],
           answer' \in [Admitters -> Admission!Outcomes],
           \A s \in (Residents \cup Admitters) \ {a} :
               /\ phase'[s] = phase[s] /\ copy'[s] = copy[s]
               /\ s \in Admitters => creation'[s] = creation[s] /\ answer'[s] = answer[s],
           CreationAgrees(a)'
    PROVE  BarrierInv'
<1>1. a \notin Residents /\ PartyType
    BY InvParts DEF BarrierAssumptions
<1>2. PartyType'
    BY <1>1 DEF PartyType, Admission!resident
<1>3. \A s \in (Residents \cup Admitters) \ {a} : Unmoved(s)
    BY DEF Unmoved, Admission!resident
<1>4. StoreType' /\ RowsHold' /\ BarrierGrows /\ RefusedAgrees' /\ DelayedAgrees'
    BY RestingRows DEF Admission!table, Admission!resident
<1> QED BY <1>1, <1>2, <1>3, <1>4, OneMoves

\* A caller goes on with its call.
LEMMA CallGoesOn ==
    ASSUME BarrierAssumptions, BarrierInv, NEW a \in Admitters,
           NEW next \in Admission!AdmitterPhases \ {"idle"},
           phase[a] \notin {"idle", "done"}, Admission!Goto(a, next),
           UNCHANGED <<Admission!table, Admission!resident, creation, copy, answer>>,
           next = "admit" => copy[a].state # "CLOSED",
           next = "taken" => Admission!RunOf(a) # Admission!NoRun /\ ~Admission!IsSameRun(a)
    PROVE  BarrierInv'
<1>1. PartyType /\ CreationAgrees(a)
    BY InvParts
<1>2. phase'[a] = next
    BY <1>1 DEF PartyType, Admission!Goto
<1>3. CreationAgrees(a)'
    BY <1>1, <1>2
    DEF CreationAgrees, Admission!RunOf, Admission!IsSameRun, Admission!table, PartyType
<1> QED BY <1>1, <1>3, AdmitterMoves DEF PartyType, Admission!Goto

LEMMA CallReturns ==
    ASSUME BarrierAssumptions, BarrierInv, NEW a \in Admitters, NEW o \in Admission!Outcomes,
           phase[a] # "idle", Admission!Return(a, o),
           UNCHANGED <<Admission!table, Admission!resident, creation>>,
           o \in {"created", "replayed"} => Admission!IsSameRun(a),
           o = "run-conflict" => Admission!RunOf(a) # Admission!NoRun /\ ~Admission!IsSameRun(a)
    PROVE  BarrierInv'
<1>1. PartyType /\ CreationAgrees(a) /\ Admission!NoBarrier \in Admission!Barrier
    BY InvParts, EmptyRows
<1>2. phase'[a] = "done" /\ answer'[a] = o
    BY <1>1 DEF PartyType, Admission!Return, Admission!Goto
<1>3. CreationAgrees(a)'
    BY <1>1, <1>2
    DEF CreationAgrees, Admission!RunOf, Admission!IsSameRun, Admission!table,
        Admission!AdmitterPhases
<1> QED BY <1>1, <1>3, AdmitterMoves
        DEF PartyType, Admission!Return, Admission!Goto, Admission!AdmitterPhases

LEMMA BeginStep ==
    ASSUME BarrierAssumptions, BarrierInv, NEW a \in Admitters, Admission!Begin(a)
    PROVE  BarrierInv'
<1>1. PartyType /\ CreationAgrees(a)
    BY InvParts
<1>2. PICK k \in Admission!Call : creation' = [creation EXCEPT ![a] = k]
    BY DEF Admission!Begin
<1>3. phase'[a] = "existing" /\ creation'[a] = k /\ answer'[a] = "none"
    BY <1>1, <1>2 DEF Admission!Begin, PartyType, Admission!Goto, CreationAgrees
<1>4. CreationAgrees(a)'
    BY <1>3 DEF CreationAgrees, Admission!AdmitterPhases
<1> QED BY <1>1, <1>2, <1>4, AdmitterMoves
        DEF Admission!Begin, PartyType, Admission!Goto, Admission!AdmitterPhases

LEMMA ReadExistingStep ==
    ASSUME BarrierAssumptions, BarrierInv, NEW a \in Admitters, Admission!ReadExisting(a)
    PROVE  BarrierInv'
BY CallReturns, CallGoesOn DEF Admission!ReadExisting, Admission!Outcomes, Admission!AdmitterPhases

LEMMA PrepareAdmissionStep ==
    ASSUME BarrierAssumptions, BarrierInv, NEW a \in Admitters, Admission!PrepareAdmission(a)
    PROVE  BarrierInv'
<1>1. PartyType /\ StoreType /\ CreationAgrees(a) /\ phase[a] \in {"barrier", "again"}
    BY InvParts DEF Admission!PrepareAdmission
<1>2. CASE /\ barrier.state # "CLOSED" /\ copy' = [copy EXCEPT ![a] = barrier]
           /\ Admission!Goto(a, "admit")
           /\ UNCHANGED <<answer, Admission!table, Admission!resident, creation>>
    <2>1. phase'[a] = "admit" /\ copy'[a] = barrier
        BY <1>1, <1>2 DEF PartyType, Admission!Goto
    <2>2. CreationAgrees(a)'
        BY <1>1, <1>2, <2>1 DEF CreationAgrees, Admission!AdmitterPhases
    <2> QED BY <1>1, <1>2, <2>2, AdmitterMoves
            DEF PartyType, StoreType, Admission!Goto, Admission!AdmitterPhases
<1> QED BY <1>1, <1>2, CallReturns, CallGoesOn
        DEF Admission!PrepareAdmission, Admission!Outcomes, Admission!AdmitterPhases

LEMMA ReadClosedAuthorityStep ==
    ASSUME BarrierAssumptions, BarrierInv, NEW a \in Admitters, Admission!ReadClosedAuthority(a)
    PROVE  BarrierInv'
BY CallReturns DEF Admission!ReadClosedAuthority, Admission!Outcomes

LEMMA ReadRacedStep ==
    ASSUME BarrierAssumptions, BarrierInv, NEW a \in Admitters, Admission!ReadRaced(a)
    PROVE  BarrierInv'
BY CallReturns, CallGoesOn DEF Admission!ReadRaced, Admission!Outcomes, Admission!AdmitterPhases

LEMMA ReadAuthorityStep ==
    ASSUME BarrierAssumptions, BarrierInv, NEW a \in Admitters, Admission!ReadAuthority(a)
    PROVE  BarrierInv'
<1>1. phase[a] = "taken" => Admission!RunOf(a) # Admission!NoRun /\ ~Admission!IsSameRun(a)
    BY InvParts DEF CreationAgrees
<1> QED BY <1>1, CallReturns, CallGoesOn
        DEF Admission!ReadAuthority, Admission!Outcomes, Admission!AdmitterPhases

LEMMA ReadCreatedStep ==
    ASSUME BarrierAssumptions, BarrierInv, NEW a \in Admitters, Admission!ReadCreated(a)
    PROVE  BarrierInv'
BY CallReturns DEF Admission!ReadCreated, Admission!Outcomes

LEMMA LeaveStep ==
    ASSUME BarrierAssumptions, BarrierInv, NEW a \in Admitters, Admission!Leave(a)
    PROVE  BarrierInv'
<1>1. PartyType /\ Admission!NoBarrier \in Admission!Barrier
    BY InvParts, EmptyRows
<1>2. phase'[a] = "idle" /\ answer'[a] = "none"
    BY <1>1 DEF Admission!Leave, PartyType, Admission!Goto
<1>3. CreationAgrees(a)'
    BY <1>2 DEF CreationAgrees, Admission!AdmitterPhases
<1> QED BY <1>1, <1>3, AdmitterMoves
        DEF Admission!Leave, PartyType, Admission!Goto, Admission!AdmitterPhases, Admission!Outcomes

LEMMA WriteAdmissionStep ==
    ASSUME BarrierAssumptions, BarrierInv, NEW a \in Admitters, Admission!WriteAdmission(a)
    PROVE  BarrierInv'
<1>1. /\ phase[a] = "admit" /\ UNCHANGED <<Admission!resident, creation>> /\ a \notin Residents
      /\ PartyType /\ StoreType /\ RowsHold /\ DelayedAgrees /\ CreationAgrees(a)
      /\ Admission!NoBarrier \in Admission!Barrier
    BY InvParts, EmptyRows DEF Admission!WriteAdmission, BarrierAssumptions
<1>2. creation[a] \in Admission!Call /\ copy[a] \in Admission!Barrier /\ copy[a].state # "CLOSED"
    BY <1>1 DEF CreationAgrees, PartyType
<1>3. ASSUME \/ Admission!Goto(a, "confirm") /\ UNCHANGED <<copy, answer>>
             \/ Admission!Return(a, "failed")
      PROVE  /\ PartyType' /\ CreationAgrees(a)'
             /\ \A s \in (Residents \cup Admitters) \ {a} : Unmoved(s)
    <2>1. PartyType'
        BY <1>1, <1>3
        DEF PartyType, Admission!Goto, Admission!Return, Admission!resident,
            Admission!AdmitterPhases, Admission!Outcomes
    <2>2. phase'[a] \in {"confirm", "done"} /\ answer'[a] \in {"none", "failed"}
          /\ (answer'[a] # "none" => phase'[a] = "done")
        BY <1>1, <1>3 DEF PartyType, Admission!Goto, Admission!Return, CreationAgrees
    <2>3. CreationAgrees(a)'
        BY <1>1, <1>2, <2>2 DEF CreationAgrees, Admission!AdmitterPhases
    <2>4. \A s \in (Residents \cup Admitters) \ {a} : Unmoved(s)
        BY <1>1, <1>3 DEF PartyType, Admission!Goto, Admission!Return, Admission!resident, Unmoved
    <2> QED BY <2>1, <2>3, <2>4
<1>4. CASE /\ Admission!CommitAdmission(creation[a], copy[a]) /\ UNCHANGED underway
           /\ \/ Admission!Goto(a, "confirm") /\ UNCHANGED <<copy, answer>>
              \/ Admission!Return(a, "failed")
    <2>1. StoreType' /\ RowsHold' /\ BarrierGrows
        BY <1>1, <1>2, <1>4, AdmissionGrows
    <2>2. DelayedAgrees' /\ RefusedAgrees'
        BY <1>1, <1>4, <2>1, RefusedRest DEF DelayedAgrees, Admission!resident
    <2> QED BY <1>1, <1>3, <1>4, <2>1, <2>2, OneMoves
<1>5. CASE ~Admission!AdmissionHolds(creation[a], copy[a]) /\ Admission!Goto(a, "raced")
           /\ UNCHANGED <<Admission!table, copy, answer>>
    BY <1>1, <1>5, CallGoesOn DEF Admission!AdmitterPhases
<1>6. CASE /\ Admission!Postpone([kind |-> "admission", call |-> creation[a],
                                    generation |-> copy[a]])
           /\ Admission!Return(a, "failed") /\ UNCHANGED <<coordinator, barrier, requests, runs>>
    <2>1. StoreType' /\ RowsHold' /\ BarrierGrows /\ RefusedAgrees'
        BY <1>1, <1>6, RestingRows DEF Admission!resident
    <2>2. DelayedAgrees'
        BY <1>1, <1>2, <1>6, PostponeAgrees
    <2> QED BY <1>1, <1>3, <1>6, <2>1, <2>2, OneMoves
<1> QED BY <1>1, <1>4, <1>5, <1>6 DEF Admission!WriteAdmission

LEMMA AdmitterStep ==
    ASSUME BarrierAssumptions, BarrierInv, NEW a \in Admitters, Admission!AdmitterNext(a)
    PROVE  BarrierInv'
BY BeginStep, ReadExistingStep, PrepareAdmissionStep, ReadClosedAuthorityStep, WriteAdmissionStep,
   ReadRacedStep, ReadAuthorityStep, ReadCreatedStep, LeaveStep DEF Admission!AdmitterNext

\* A step that moves rows and no party.
LEMMA RowsMove ==
    ASSUME BarrierAssumptions, BarrierInv, StoreType', RowsHold', BarrierGrows, DelayedAgrees',
           UNCHANGED <<phase, copy, Admission!resident, Admission!admitter>>
    PROVE  BarrierInv'
<1>1. PartyType' /\ RefusedAgrees'
    BY InvParts, RefusedRest DEF PartyType, Admission!resident, Admission!admitter
<1>2. \A s : Unmoved(s)
    BY DEF Unmoved, Admission!resident, Admission!admitter
<1>3. /\ \A r \in Residents : TransitionAgrees(r)' /\ HistoryAgrees(r)'
      /\ \A a \in Admitters : CreationAgrees(a)'
    BY <1>2, ResidentRests, AdmitterRests
<1> QED BY <1>1, <1>3 DEF BarrierInv, Admission!TypeOK, RowsAgree, StoreType, RowsHold, PartyType,
                          DelayedAgrees, RefusedAgrees

LEMMA DeliverStep ==
    ASSUME BarrierAssumptions, BarrierInv, NEW t \in underway, Admission!Deliver(t)
    PROVE  BarrierInv'
<1>1. StoreType /\ RowsHold /\ DelayedAgrees
    BY InvParts
<1>2. /\ t.kind = "transition" =>
            t.request \in Admission!Request /\ t.request.predecessor.version < MaxSafe
      /\ t.kind = "admission" => t.call \in Admission!Call /\ t.generation.state # "CLOSED"
    BY <1>1 DEF DelayedAgrees
<1>3. StoreType' /\ RowsHold' /\ BarrierGrows
    BY <1>1, <1>2, TransitionGrows, AdmissionGrows, RowsRest DEF Admission!Deliver
<1>4. DelayedAgrees' /\ UNCHANGED <<phase, copy, Admission!resident, Admission!admitter>>
    BY <1>1 DEF Admission!Deliver, DelayedAgrees
<1> QED BY <1>3, <1>4, RowsMove

LEMMA AdvanceStep ==
    ASSUME BarrierAssumptions, BarrierInv, NEW i \in Runs, Admission!Advance(i)
    PROVE  BarrierInv'
<1>1. StoreType /\ RowsHold /\ DelayedAgrees
    BY InvParts
<1>2. /\ runs[i] # Admission!NoRun /\ runs[i] \in Admission!Run /\ runs[i].version < MaxMoves
      /\ runs[i].version \in Nat /\ runs[i].content \in Contents
      /\ runs' = [runs EXCEPT ![i].version = @ + 1]
    BY <1>1
    DEF Admission!Advance, StoreType, RowsHold, Admission!History, Admission!Run, BarrierAssumptions
<1>3. /\ runs'[i].version = runs[i].version + 1 /\ runs'[i].content = runs[i].content
      /\ runs'[i] \in Admission!Run /\ \A j \in Runs \ {i} : runs'[j] = runs[j]
      /\ runs' \in Admission!History
    BY <1>1, <1>2 DEF StoreType, Admission!History, Admission!Run, BarrierAssumptions
<1>4. StoreType' /\ RowsHold'
    BY <1>1, <1>2, <1>3 DEF Admission!Advance, StoreType, RowsHold, Past, Admission!Successor
<1>5. \A j \in Runs : CreatedGrows(j)
    BY <1>2, <1>3 DEF CreatedGrows, Past, Admission!NoRun
<1>6. BarrierGrows
    BY <1>5 DEF BarrierGrows, Admission!Advance, AuthorityGrows, Past
<1> QED BY <1>1, <1>4, <1>6, RowsMove DEF Admission!Advance, DelayedAgrees

LEMMA BarrierStutter ==
    ASSUME BarrierAssumptions, BarrierInv, UNCHANGED Admission!vars
    PROVE  BarrierInv'
BY RestingRows, RowsMove DEF Admission!vars, Admission!table

LEMMA BarrierInit == BarrierAssumptions /\ Admission!Init => BarrierInv
<1> SUFFICES ASSUME BarrierAssumptions, Admission!Init PROVE BarrierInv
    OBVIOUS
<1>1. Admission!NoBarrier \in Admission!Barrier /\ NoRow \in Admission!History
    BY EmptyRows
<1>2. Admission!TypeOK
    BY <1>1
    DEF Admission!Init, Admission!TypeOK, NoRow, Admission!NoCall, Admission!ResidentPhases,
        Admission!AdmitterPhases, Admission!Outcomes, Admission!Actions,
                 BarrierAssumptions
<1>3. RowsAgree
    BY DEF Admission!Init, RowsAgree, Past
<1>4. ASSUME NEW r \in Residents PROVE TransitionAgrees(r) /\ HistoryAgrees(r)
    BY <1>4
    DEF Admission!Init, TransitionAgrees, HistoryAgrees, Admission!Reconstructed, Past,
        Admission!ResidentPhases
<1>5. ASSUME NEW a \in Admitters PROVE CreationAgrees(a)
    BY <1>5 DEF Admission!Init, CreationAgrees, Admission!AdmitterPhases
<1> QED BY <1>2, <1>3, <1>4, <1>5 DEF BarrierInv

LEMMA BarrierCorrect == Admission!Spec => []BarrierInv
<1> USE BarrierAssumed
<1>1. Admission!Init => BarrierInv
    BY BarrierInit
<1>2. BarrierInv /\ [Admission!Next]_(Admission!vars) => BarrierInv'
    BY ResidentStep, AdmitterStep, DeliverStep, AdvanceStep, BarrierStutter DEF Admission!Next
<1> QED BY <1>1, <1>2, PTL DEF Admission!Spec

\* What a resident took for the history of a quiescent generation was the history
\* at one moment, though it read the rows one by one, twice.
THEOREM SnapshotRead == Admission!Spec => []ReconstructionIsASnapshot
<1>1. BarrierInv => ReconstructionIsASnapshot
    BY DEF BarrierInv, HistoryAgrees, ReconstructionIsASnapshot, Admission!ReconstructionIsASnapshot
<1> QED BY <1>1, BarrierCorrect, PTL

\* And while that generation lasts no run is created that it has not read.
THEOREM HistoryComplete == Admission!Spec => []QuiescentHistoryIsComplete
<1>1. BarrierInv => QuiescentHistoryIsComplete
    BY DEF BarrierInv, HistoryAgrees, QuiescentHistoryIsComplete,
           Admission!QuiescentHistoryIsComplete, Misses, Admission!Admitted
<1> QED BY <1>1, BarrierCorrect, PTL

\* What an admission and a transition were told of a run and of a refusal is so.
THEOREM AnswersHold == Admission!Spec => []BarrierAnswersHold
<1> USE BarrierAssumed
<1>1. ASSUME BarrierInv PROVE BarrierAnswersHold
    <2>1. Admission!RefusedTransitionsNeverHappen
        BY <1>1 DEF BarrierInv, RowsAgree, Admission!RefusedTransitionsNeverHappen
    <2>2. ASSUME NEW a \in Admitters
          PROVE  /\ answer[a] \in {"created", "replayed"} =>
                        Admission!RunOf(a).content = creation[a].content
                 /\ answer[a] = "run-conflict" =>
                        Admission!RunOf(a).content \notin {None, creation[a].content}
        <3>1. CreationAgrees(a) /\ StoreType /\ RowsHold
            BY <1>1, InvParts
        <3>2. answer[a] # "none" => creation[a].run \in Runs
            BY <3>1 DEF CreationAgrees, Admission!Call
        <3> QED BY <1>1, <3>1, <3>2
                DEF CreationAgrees, RowsHold, Admission!IsSameRun, Admission!RunOf,
                    BarrierAssumptions
    <2> QED BY <2>1, <2>2
            DEF BarrierAnswersHold, Admission!BarrierAnswersHold, Admission!AdmissionAnswersHold
<1> QED BY <1>1, BarrierCorrect, PTL
-----------------------------------------------------------------------------
(***************************************************************************)
(* The workflow.                                                            *)
(***************************************************************************)
\* The commands that may be sent, and what they name.
Sent == UNION {Commands[k] : k \in Senders}
Ids == {order.id : order \in Sent}
Signals == {order.signal : order \in Sent}

Verdicts == {"accepted", "early", "late", "unexpected"}
Endings == {"completed", "failed", "cancelled", "unusable"}
Answers == Verdicts \cup {"conflict", "requested", "terminal", "not-ready", "invalid", "unknown"}

WorkflowAssumptions ==
    /\ \A p \in Plans : Len(p) \in Nat \ {0} /\ DOMAIN p = 1..Len(p)
    /\ \A order \in Sent :
          /\ order.op = "deliver" => order.id \in Deliveries
          /\ order.id # None
    /\ None \notin Deliveries
    /\ None \notin Workers
    /\ None \notin Endings
    /\ None \notin [version : Nat, by : Workers]
    /\ None \notin [signal : Signals, verdict : Verdicts]

LEMMA WorkflowAssumed == WorkflowAssumptions
<1>1. \A order \in Sent : /\ order.op = "deliver" => order.id \in Deliveries
                          /\ order.id # None
    BY CommandsAreNamed DEF Sent
<1>2. None \notin [signal : Signals, verdict : Verdicts]
    <2> SUFFICES ASSUME NEW k \in Senders, NEW order \in Commands[k],
                        None \in [signal : {order.signal}, verdict : Verdicts]
                 PROVE  FALSE
        BY DEF Signals, Sent
    <2> QED BY CommandsAreNamed DEF Verdicts
<1> QED BY <1>1, <1>2, NoneIsNothing, PlansHaveSteps DEF WorkflowAssumptions, Endings

Decision == [signal : Signals, verdict : Verdicts]

RunRecord ==
    [status : {"RUNNING", "BLOCKED", "COMPLETED", "FAILED", "CANCELLED"},
     version : Nat, request : Ids \cup {None}, step : Workflow!Steps,
     at : {"runnable", "timer", "signal", "running", "uncertain", "completed", "failed",
           "cancelled"},
     generation : Nat,
     attempt : {"none", "claimed", "started", "abandoned", "ended", "cancelled"},
     outputs : SUBSET Workflow!Steps, consumed : [Workflow!Steps -> Deliveries \cup {None}]]

Row == [kind : {"ACTIVITY", "RECOVERY", "TIMER"}, step : Nat, generation : Nat,
        attempt : {"none", "claimed", "started", "abandoned", "ended", "cancelled"}, version : Nat]

DriverRecord ==
    [pc : {"off", "idle", "resolve", "repair", "claim", "start", "dispatch", "execute",
           "finish", "settle", "fire"},
     step : Nat, generation : Nat, version : Nat, row : Row \cup {None},
     expected : SUBSET Row, aborted : BOOLEAN, outcome : Endings \cup {None}]

CallRecord ==
    [pc : {"idle", "write", "answered"}, op : {None, "deliver", "cancel"},
     id : Ids \cup {None}, signal : Signals \cup {None}, via : Workers \cup {None},
     version : Nat, verdict : Verdicts \cup {None}, port : (Nat \X Nat) \cup {None},
     answer : Answers \cup {None}]

WorkflowType ==
    /\ plan \in Plans
    /\ wf \in RunRecord
    /\ ready \subseteq Row
    /\ decisions \in [Deliveries -> Decision \cup {None}]
    /\ holder \in Workers \cup {None}
    /\ driver \in [Workers -> DriverRecord]
    /\ command \in [Senders -> CallRecord]
    /\ late \in [version : Nat, by : Workers] \cup {None}
    /\ started \in [Workflow!Steps -> Nat]
    /\ begun \in [Workflow!Steps -> Nat]
    /\ ended \in [Workflow!Steps -> Endings \cup {None}]

\* The cursor, its attempt and the status of the run go together.
CursorAgrees ==
    /\ wf.at \in {"runnable", "timer", "signal", "running"} <=> wf.status = "RUNNING"
    /\ wf.at = "uncertain" <=> wf.status = "BLOCKED"
    /\ wf.at = "completed" <=> wf.status = "COMPLETED"
    /\ wf.at = "failed" <=> wf.status = "FAILED"
    /\ wf.at \in {"runnable", "running", "uncertain"} => plan[wf.step] = "activity"
    /\ wf.at = "timer" => plan[wf.step] = "timer"
    /\ wf.at = "signal" => plan[wf.step] \notin {"activity", "timer"}
    /\ wf.at = "running" <=> wf.attempt \in {"claimed", "started"}
    /\ wf.outputs = 1..(IF wf.at = "completed" THEN Len(plan) ELSE wf.step - 1)
    /\ wf.request # None =>
          wf.at \in {"uncertain", "completed", "failed", "cancelled"} \/ wf.attempt = "started"

\* A step is started once, when its claim becomes a start.
StartsAgree ==
    /\ \A s \in Workflow!Steps : begun[s] <= started[s] /\ started[s] <= 1
    /\ \A s \in Workflow!Steps : begun[s] = 0 => ended[s] = None
    /\ \A s \in Workflow!Steps : s > wf.step => started[s] = 0
    /\ wf.at \in {"runnable", "timer", "signal"} \/ wf.attempt = "claimed" =>
          started[wf.step] = 0
    /\ wf.at = "uncertain" \/ wf.attempt = "started" => started[wf.step] = 1
    /\ late # None => late.version = wf.version /\ wf.attempt = "claimed"

\* A step gave its output because its code ran or its wait was met.
OutputsAgree ==
    \A s \in Workflow!Steps :
        /\ s \in wf.outputs =>
              IF plan[s] = "activity" THEN begun[s] = 1 /\ ended[s] \in {None, "completed"}
              ELSE plan[s] = "timer" \/ wf.consumed[s] # None
        /\ ended[s] = "cancelled" => wf.request # None

Executing == {"dispatch", "execute", "finish"}

\* What a process may rely on, as long as the run is at the version it read and
\* whatever became of the run.
DriverAgrees(r) ==
    LET d == driver[r]
        fresh == d.version = wf.version
    IN  /\ d.version <= wf.version
        /\ d.aborted => wf.request # None
        /\ d.pc = "repair" /\ fresh => d.expected = Workflow!Expected(wf)
        /\ d.pc = "claim" /\ fresh =>
              wf.at = "runnable" /\ wf.step = d.step /\ wf.generation = d.generation
        /\ d.pc = "start" /\ fresh => Workflow!Mine(r) /\ wf.attempt = "claimed"
        /\ d.pc \in Executing =>
              /\ fresh => Workflow!Mine(r) /\ wf.attempt = "started"
              /\ d.step \in Workflow!Steps /\ started[d.step] = 1
              /\ begun[d.step] = IF d.pc = "dispatch" THEN 0 ELSE 1
              /\ d.pc = "finish" =>
                     ended[d.step] = d.outcome /\ d.outcome \in Endings \ {"unusable"}
              /\ d.pc # "finish" => ended[d.step] = None /\ d.step \notin wf.outputs

\* The code of a step is in the hands of one process.
OneExecutes ==
    \A r, q \in Workers :
        driver[r].pc \in Executing /\ driver[q].pc \in Executing
            /\ driver[r].step = driver[q].step => r = q

\* What a caller may rely on, and what it was told.
CommandAgrees(k) ==
    LET c == command[k] IN
    /\ c.pc = "write" =>
          /\ c.version <= wf.version
          /\ c.op \in {"deliver", "cancel"} /\ c.id \in Ids
    /\ c.pc = "write" /\ c.op = "deliver" =>
          /\ c.id \in Deliveries /\ c.signal \in Signals /\ c.verdict \in Verdicts
          /\ c.version = wf.version => c.verdict = Workflow!Verdict(wf, c.signal)
    /\ c.pc = "write" /\ c.op = "cancel" /\ c.version = wf.version =>
          wf.request = None /\ ~Workflow!Terminal(wf)
    /\ c.pc = "answered" =>
          /\ c.answer \in Verdicts =>
                /\ c.id \in Deliveries /\ decisions[c.id] # None
                /\ decisions[c.id] = [signal |-> c.signal, verdict |-> c.answer]
          /\ c.answer = "conflict" =>
                /\ c.id \in Deliveries
                /\ decisions[c.id] # None /\ decisions[c.id].signal # c.signal
          /\ c.answer = "requested" => wf.request # None
          /\ c.answer = "terminal" => wf.request = None /\ Workflow!Terminal(wf)

Accepted(d) == decisions[d] # None /\ decisions[d].verdict = "accepted"

\* An accepted delivery met one wait, and a wait was met by one.
WaitsAgree ==
    /\ \A d \in Deliveries : Accepted(d) => \E s \in Workflow!Steps : wf.consumed[s] = d
    /\ \A s \in Workflow!Steps : wf.consumed[s] # None =>
          /\ s \in wf.outputs /\ Accepted(wf.consumed[s])
          /\ decisions[wf.consumed[s]].signal = plan[s]
    /\ \A s, t \in Workflow!Steps :
           wf.consumed[s] = wf.consumed[t] /\ wf.consumed[s] # None => s = t

\* The inductive invariant of the workflow.
WorkflowInv ==
    /\ WorkflowType
    /\ ready = Workflow!Expected(wf)
    /\ CursorAgrees /\ StartsAgree /\ OutputsAgree /\ WaitsAgree
    /\ \A r \in Workers : DriverAgrees(r)
    /\ OneExecutes
    /\ \A k \in Senders : CommandAgrees(k)
-----------------------------------------------------------------------------
(***************************************************************************)
(* The run as a value.                                                     *)
(***************************************************************************)
LEMMA StepsAreNumbers ==
    ASSUME WorkflowType
    PROVE  Len(plan) \in Nat \ {0} /\ Workflow!Steps = 1..Len(plan) /\ Workflow!Steps \subseteq Nat
BY WorkflowAssumed DEF WorkflowAssumptions, WorkflowType, Workflow!Steps

LEMMA ExpectedType ==
    ASSUME WorkflowType, NEW w \in RunRecord
    PROVE  Workflow!Expected(w) \subseteq Row
<1>1. w.step \in Nat
    BY StepsAreNumbers DEF RunRecord
<1> QED BY <1>1 DEF Workflow!Expected, Row, RunRecord

\* What a commit leaves behind.
LEMMA Committed ==
    ASSUME WorkflowInv, NEW w \in RunRecord, Workflow!Commit(w), UNCHANGED plan
    PROVE  /\ wf' = [w EXCEPT !.version = wf.version + 1]
           /\ wf' \in RunRecord /\ wf'.version = wf.version + 1
           /\ wf'.status = w.status /\ wf'.request = w.request /\ wf'.step = w.step
           /\ wf'.at = w.at /\ wf'.generation = w.generation /\ wf'.attempt = w.attempt
           /\ wf'.outputs = w.outputs /\ wf'.consumed = w.consumed
           /\ ready' = Workflow!Expected(wf)' /\ ready' \subseteq Row
           /\ late' = None
           /\ RunRecord' = RunRecord
<1>1. wf.version \in Nat /\ ready = Workflow!Expected(wf)
    BY DEF WorkflowInv, WorkflowType, RunRecord
<1>2. /\ wf' = [w EXCEPT !.version = wf.version + 1] /\ late' = None
      /\ ready' = (ready \ Workflow!Expected(wf)) \cup Workflow!Expected(wf')
    BY DEF Workflow!Commit
<1>3. /\ wf' \in RunRecord /\ wf'.version = wf.version + 1
      /\ wf'.status = w.status /\ wf'.request = w.request /\ wf'.step = w.step
      /\ wf'.at = w.at /\ wf'.generation = w.generation /\ wf'.attempt = w.attempt
      /\ wf'.outputs = w.outputs /\ wf'.consumed = w.consumed
    BY <1>1, <1>2 DEF RunRecord
<1>4. RunRecord' = RunRecord
    BY DEF RunRecord, Workflow!Steps
<1>5. ready' = Workflow!Expected(wf')
    BY <1>1, <1>2
<1>6. Workflow!Expected(wf') \subseteq Row
    BY <1>3, ExpectedType DEF WorkflowInv
<1>7. Workflow!Expected(wf)' = Workflow!Expected(wf')
    BY DEF Workflow!Expected
<1> QED BY <1>2, <1>3, <1>4, <1>5, <1>6, <1>7
-----------------------------------------------------------------------------
(***************************************************************************)
(* Who does not move keeps what it may rely on.                             *)
(***************************************************************************)
\* The run goes on: it keeps a request, a decision, and how it ended.
WorkflowGrows ==
    /\ wf.version < wf'.version
    /\ wf.request # None => wf'.request # None
    /\ Workflow!Terminal(wf) => Workflow!Terminal(wf') /\ wf'.request = wf.request
    /\ \A d \in Deliveries : decisions[d] # None => decisions'[d] = decisions[d]

\* Code under way is not touched.
CodeStays(r) ==
    LET s == driver[r].step IN
    driver[r].pc \in Executing =>
        /\ started'[s] = started[s] /\ begun'[s] = begun[s] /\ ended'[s] = ended[s]
        /\ driver[r].pc # "finish" => s \notin wf'.outputs

LEMMA DriverRests ==
    ASSUME WorkflowInv, NEW r \in Workers, driver'[r] = driver[r], UNCHANGED plan,
           UNCHANGED wf \/ (WorkflowType' /\ WorkflowGrows), CodeStays(r)
    PROVE  DriverAgrees(r)'
<1>1. DriverAgrees(r) /\ driver[r] \in DriverRecord /\ wf \in RunRecord
    BY DEF WorkflowInv, WorkflowType
<1>2. driver[r].version \in Nat /\ wf.version \in Nat
    BY <1>1 DEF DriverRecord, RunRecord
<1>3. CASE UNCHANGED wf
    BY <1>1, <1>3
    DEF DriverAgrees, CodeStays, Workflow!Mine, Workflow!Expected, Executing, Workflow!Steps
<1>4. CASE WorkflowType' /\ WorkflowGrows
    <2>1. wf'.version \in Nat
        BY <1>4 DEF WorkflowType, RunRecord
    <2>2. driver'[r].version < wf'.version
        BY <1>1, <1>2, <1>4, <2>1 DEF WorkflowGrows, DriverAgrees
    <2> QED BY <1>1, <1>2, <1>4, <2>1, <2>2
            DEF DriverAgrees, CodeStays, WorkflowGrows, Executing, Workflow!Steps
<1> QED BY <1>3, <1>4

LEMMA CallRests ==
    ASSUME WorkflowInv, NEW k \in Senders, command'[k] = command[k], UNCHANGED plan,
           UNCHANGED <<wf, decisions>> \/ (WorkflowType' /\ WorkflowGrows)
    PROVE  CommandAgrees(k)'
<1>1. CommandAgrees(k) /\ command[k] \in CallRecord /\ wf \in RunRecord
    BY DEF WorkflowInv, WorkflowType
<1>2. command[k].version \in Nat /\ wf.version \in Nat
    BY <1>1 DEF CallRecord, RunRecord
<1>3. CASE UNCHANGED <<wf, decisions>>
    BY <1>1, <1>3 DEF CommandAgrees, Workflow!Verdict, Workflow!Terminal, Workflow!Steps
<1>4. CASE WorkflowType' /\ WorkflowGrows
    <2>1. wf'.version \in Nat
        BY <1>4 DEF WorkflowType, RunRecord
    <2>2. command[k].pc = "write" => command[k].version < wf'.version
        BY <1>1, <1>2, <1>4, <2>1 DEF WorkflowGrows, CommandAgrees
    <2>3. command[k].pc = "answered" /\ command[k].answer \in Verdicts \cup {"conflict"} =>
                 decisions'[command[k].id] = decisions[command[k].id]
        BY <1>1, <1>4 DEF WorkflowGrows, CommandAgrees
    <2>4. Workflow!Terminal(wf)' <=> Workflow!Terminal(wf')
        BY DEF Workflow!Terminal
    <2>5. \* what waits
          command'[k].pc = "write" =>
            /\ command'[k].version < wf'.version
            /\ command'[k].op \in {"deliver", "cancel"} /\ command'[k].id \in Ids
            /\ command'[k].op = "deliver" =>
                  command'[k].id \in Deliveries /\ command'[k].signal \in Signals
                     /\ command'[k].verdict \in Verdicts
        BY <1>1, <2>2 DEF CommandAgrees
    <2>6. command'[k].pc = "answered" =>
          /\ command'[k].answer \in Verdicts =>
                /\ command'[k].id \in Deliveries /\ decisions'[command'[k].id] # None
                /\ decisions'[command'[k].id] =
                       [signal |-> command'[k].signal, verdict |-> command'[k].answer]
          /\ command'[k].answer = "conflict" =>
                /\ command'[k].id \in Deliveries
                /\ decisions'[command'[k].id] # None
                /\ decisions'[command'[k].id].signal # command'[k].signal
          /\ command'[k].answer = "requested" => wf'.request # None
          /\ command'[k].answer = "terminal" => wf'.request = None /\ Workflow!Terminal(wf')
        BY <1>1, <1>4, <2>3 DEF CommandAgrees, WorkflowGrows
    <2> QED BY <1>2, <2>1, <2>4, <2>5, <2>6 DEF CommandAgrees
<1> QED BY <1>3, <1>4

\* A step of the processes and callers that leaves the run alone.
LEMMA RunRests ==
    ASSUME WorkflowInv, UNCHANGED <<plan, wf, ready, decisions, started, begun, ended>>,
           late' \in {late, None}, holder' \in Workers \cup {None},
           driver' \in [Workers -> DriverRecord], command' \in [Senders -> CallRecord],
           \A r \in Workers : driver'[r] = driver[r] \/ DriverAgrees(r)',
           \A r \in Workers : driver'[r].pc \in Executing =>
               driver[r].pc \in Executing /\ driver'[r].step = driver[r].step,
           \A k \in Senders : command'[k] = command[k] \/ CommandAgrees(k)'
    PROVE  WorkflowInv'
<1>1. WorkflowType'
    BY DEF WorkflowInv, WorkflowType, RunRecord, Workflow!Steps
<1>2. ready' = Workflow!Expected(wf)'
    BY DEF WorkflowInv, Workflow!Expected
<1>3. CursorAgrees' /\ StartsAgree' /\ OutputsAgree' /\ WaitsAgree'
    BY DEF WorkflowInv, CursorAgrees, StartsAgree, OutputsAgree, WaitsAgree, Accepted,
           Workflow!Steps
<1>4. \A r \in Workers : DriverAgrees(r)'
    <2> SUFFICES ASSUME NEW r \in Workers, driver'[r] = driver[r] PROVE DriverAgrees(r)'
        OBVIOUS
    <2>1. CodeStays(r)
        BY DEF CodeStays, WorkflowInv, DriverAgrees, Executing
    <2> QED BY <2>1, DriverRests
<1>5. OneExecutes'
    BY DEF WorkflowInv, OneExecutes
<1>6. \A k \in Senders : CommandAgrees(k)'
    BY CallRests
<1> QED BY <1>1, <1>2, <1>3, <1>4, <1>5, <1>6 DEF WorkflowInv
-----------------------------------------------------------------------------
(***************************************************************************)
(* Steps that leave the run alone.                                         *)
(***************************************************************************)
LEMMA AtRest ==
    /\ Workflow!Off \in DriverRecord /\ Workflow!Idle \in DriverRecord
    /\ Workflow!Off.pc = "off" /\ Workflow!Idle.pc = "idle"
    /\ Workflow!Off.version = 0 /\ Workflow!Idle.version = 0
    /\ Workflow!Off.aborted = FALSE /\ Workflow!Idle.aborted = FALSE
BY DEF Workflow!Off, Workflow!Idle, DriverRecord

\* A process that does nothing for the run relies on nothing.
LEMMA RestAgrees ==
    ASSUME NEW r \in Workers, driver'[r] \in {Workflow!Off, Workflow!Idle}, wf'.version \in Nat
    PROVE  DriverAgrees(r)'
BY AtRest DEF DriverAgrees, Executing

LEMMA UnknownAgrees ==
    ASSUME NEW k \in Senders, NEW c \in CallRecord, command'[k] = Workflow!Answer(c, "unknown")
    PROVE  command'[k] \in CallRecord /\ CommandAgrees(k)'
<1>1. command'[k] \in CallRecord
    <2>1. command'[k] = [pc |-> "answered", op |-> c.op, id |-> c.id, signal |-> c.signal,
                         via |-> None, version |-> 0, verdict |-> None, port |-> None,
                         answer |-> "unknown"]
        BY DEF Workflow!Answer, CallRecord
    <2>2. /\ c.op \in {None, "deliver", "cancel"} /\ c.id \in Ids \cup {None}
          /\ c.signal \in Signals \cup {None}
        BY DEF CallRecord
    <2> QED BY <2>1, <2>2 DEF CallRecord, Answers
<1>2. command'[k].pc = "answered" /\ command'[k].answer = "unknown"
    BY DEF Workflow!Answer, CallRecord
<1> QED BY <1>1, <1>2 DEF CommandAgrees, Verdicts

LEMMA BeginsInv ==
    ASSUME WorkflowInv, NEW r \in Workers, Workflow!Boot(r) \/ Workflow!TakeOver(r)
    PROVE  WorkflowInv'
<1>1. /\ UNCHANGED <<plan, wf, ready, decisions, started, begun, ended, command>>
      /\ late' = None /\ holder' = r
      /\ driver' = [driver EXCEPT ![r] = Workflow!Idle]
    BY DEF Workflow!Boot, Workflow!TakeOver, Workflow!Rest, Workflow!code
<1>2. driver \in [Workers -> DriverRecord] /\ command \in [Senders -> CallRecord]
      /\ wf.version \in Nat
    BY DEF WorkflowInv, WorkflowType, RunRecord
<1>3. driver'[r] = Workflow!Idle /\ driver' \in [Workers -> DriverRecord]
    BY <1>1, <1>2, AtRest
<1>4. \A q \in Workers : driver'[q] = driver[q] \/ DriverAgrees(q)'
    BY <1>1, <1>2, <1>3, RestAgrees
<1>5. \A q \in Workers : driver'[q].pc \in Executing =>
          driver[q].pc \in Executing /\ driver'[q].step = driver[q].step
    BY <1>1, <1>2, <1>3, AtRest DEF Executing
<1> QED BY <1>1, <1>2, <1>3, <1>4, <1>5, RunRests

LEMMA EndsInv ==
    ASSUME WorkflowInv, NEW r \in Workers, Workflow!Crash(r) \/ Workflow!Fenced(r)
    PROVE  WorkflowInv'
<1>1. /\ UNCHANGED <<plan, wf, ready, decisions, late, started, begun, ended>>
      /\ Workflow!Ends(r)
    BY DEF Workflow!Crash, Workflow!Fenced, Workflow!run, Workflow!code
<1>2. driver \in [Workers -> DriverRecord] /\ command \in [Senders -> CallRecord]
      /\ wf.version \in Nat /\ holder \in Workers \cup {None}
    BY DEF WorkflowInv, WorkflowType, RunRecord
<1>3. driver' = [driver EXCEPT ![r] = Workflow!Off] /\ holder' \in Workers \cup {None}
    BY <1>1, <1>2 DEF Workflow!Ends
<1>4. driver'[r] = Workflow!Off /\ driver' \in [Workers -> DriverRecord]
    BY <1>2, <1>3, AtRest
<1>5. \A q \in Workers : driver'[q] = driver[q] \/ DriverAgrees(q)'
    BY <1>1, <1>2, <1>3, <1>4, RestAgrees
<1>6. \A q \in Workers : driver'[q].pc \in Executing =>
          driver[q].pc \in Executing /\ driver'[q].step = driver[q].step
    BY <1>2, <1>3, <1>4, AtRest DEF Executing
<1>7. \A k \in Senders : command'[k] \in CallRecord
          /\ (command'[k] = command[k] \/ CommandAgrees(k)')
    <2> SUFFICES ASSUME NEW k \in Senders
                 PROVE command'[k] \in CallRecord /\ (command'[k] = command[k] \/ CommandAgrees(k)')
        OBVIOUS
    <2>1. command'[k] = command[k] \/ command'[k] = Workflow!Answer(command[k], "unknown")
        BY <1>1 DEF Workflow!Ends
    <2>2. command[k] \in CallRecord
        BY <1>2
    <2> QED BY <2>1, <2>2, UnknownAgrees
<1>8. command' \in [Senders -> CallRecord]
    BY <1>1, <1>7 DEF Workflow!Ends
<1> QED BY <1>1, <1>3, <1>4, <1>5, <1>6, <1>7, <1>8, RunRests

\* A process looks at the ready work and at the run, or thinks again.
LEMMA LooksInv ==
    ASSUME WorkflowInv, NEW r \in Workers, NEW d \in DriverRecord,
           driver' = [driver EXCEPT ![r] = d],
           UNCHANGED <<plan, wf, decisions, started, begun, ended, holder, command>>,
           ready' = ready, late' \in {late, None},
           DriverAgrees(r)',
           d.pc \in Executing => driver[r].pc \in Executing /\ d.step = driver[r].step
    PROVE  WorkflowInv'
<1>1. driver \in [Workers -> DriverRecord] /\ command \in [Senders -> CallRecord]
      /\ holder \in Workers \cup {None}
    BY DEF WorkflowInv, WorkflowType
<1>2. driver'[r] = d /\ driver' \in [Workers -> DriverRecord]
    BY <1>1
<1>3. \A q \in Workers : driver'[q] = driver[q] \/ DriverAgrees(q)'
    BY <1>1
<1>4. \A q \in Workers : driver'[q].pc \in Executing =>
          driver[q].pc \in Executing /\ driver'[q].step = driver[q].step
    BY <1>1, <1>2
<1> QED BY <1>1, <1>2, <1>3, <1>4, RunRests

LEMMA ScanInv ==
    ASSUME WorkflowInv, NEW r \in Workers, Workflow!Scan(r)
    PROVE  WorkflowInv'
<1>1. PICK row \in ready : driver' = [driver EXCEPT ![r].pc = "resolve", ![r].row = row]
    BY DEF Workflow!Scan
<1> DEFINE d == [driver[r] EXCEPT !.pc = "resolve", !.row = row]
<1>2. /\ driver[r] \in DriverRecord /\ driver \in [Workers -> DriverRecord]
      /\ row \in Row /\ DriverAgrees(r)
    BY DEF WorkflowInv, WorkflowType
<1>3. d \in DriverRecord /\ d.pc = "resolve" /\ d.version = driver[r].version
      /\ d.aborted = driver[r].aborted
    BY <1>2 DEF DriverRecord
<1>4. driver' = [driver EXCEPT ![r] = d] /\ driver'[r] = d
    BY <1>1, <1>2
<1>5. UNCHANGED <<plan, wf, ready, decisions, late, started, begun, ended, holder, command>>
    BY DEF Workflow!Scan, Workflow!run, Workflow!code
<1>6. DriverAgrees(r)'
    BY <1>2, <1>3, <1>4, <1>5 DEF DriverAgrees, Executing
<1> HIDE DEF d
<1> QED BY <1>3, <1>4, <1>5, <1>6, LooksInv DEF Executing

LEMMA ResolveInv ==
    ASSUME WorkflowInv, NEW r \in Workers, Workflow!Resolve(r)
    PROVE  WorkflowInv'
<1> DEFINE row == driver[r].row
           found == [Workflow!Idle EXCEPT !.step = wf.step, !.generation = wf.generation,
                                          !.version = wf.version]
           d == IF row \notin Workflow!Expected(wf)
                THEN [found EXCEPT !.pc = "repair", !.row = row, !.expected = Workflow!Expected(wf)]
                ELSE [found EXCEPT !.pc = CASE row.kind = "ACTIVITY" -> "claim"
                                            [] row.kind = "RECOVERY" -> "settle"
                                            [] OTHER -> "fire"]
<1>1. /\ driver[r] \in DriverRecord /\ driver \in [Workers -> DriverRecord]
      /\ wf \in RunRecord /\ wf.version \in Nat /\ wf.generation \in Nat /\ wf.step \in Nat
      /\ Workflow!Expected(wf) \subseteq Row /\ row \in Row \cup {None}
    BY StepsAreNumbers, ExpectedType DEF WorkflowInv, WorkflowType, RunRecord, DriverRecord
<1>2. found \in DriverRecord /\ found.version = wf.version /\ found.aborted = FALSE
      /\ found.step = wf.step /\ found.generation = wf.generation
    BY <1>1, AtRest DEF DriverRecord
<1>3. driver' = [driver EXCEPT ![r] = d] /\ driver'[r] = d
    BY <1>1 DEF Workflow!Resolve
<1>4. UNCHANGED <<plan, wf, ready, decisions, late, started, begun, ended, holder, command>>
    BY DEF Workflow!Resolve, Workflow!run, Workflow!code
<1> HIDE DEF found, row
<1>5. CASE row \notin Workflow!Expected(wf)
    <2>1. d \in DriverRecord /\ d.pc = "repair" /\ d.expected = Workflow!Expected(wf)
          /\ d.version = wf.version /\ d.aborted = FALSE
        BY <1>1, <1>2, <1>5 DEF DriverRecord
    <2>2. Workflow!Expected(wf)' = Workflow!Expected(wf)
        BY <1>4
    <2>3. DriverAgrees(r)'
        BY <1>1, <1>3, <1>4, <2>1, <2>2 DEF DriverAgrees, Executing
    <2> HIDE DEF d
    <2> QED BY <1>3, <1>4, <2>1, <2>3, LooksInv DEF Executing
<1>6. CASE row \in Workflow!Expected(wf)
    <2>1. /\ d \in DriverRecord /\ d.pc \in {"claim", "settle", "fire"}
          /\ d.version = wf.version /\ d.aborted = FALSE
          /\ d.step = wf.step /\ d.generation = wf.generation
          /\ d.pc = "claim" => row.kind = "ACTIVITY"
        BY <1>1, <1>2, <1>6 DEF DriverRecord
    <2>2. row.kind = "ACTIVITY" => wf.at = "runnable"
        BY <1>6 DEF Workflow!Expected
    <2>3. DriverAgrees(r)'
        BY <1>1, <1>3, <1>4, <2>1, <2>2 DEF DriverAgrees, Executing
    <2> HIDE DEF d
    <2> QED BY <1>3, <1>4, <2>1, <2>3, LooksInv DEF Executing
<1> QED BY <1>5, <1>6

LEMMA RepairInv ==
    ASSUME WorkflowInv, NEW r \in Workers, Workflow!Repair(r)
    PROVE  WorkflowInv'
<1>1. /\ driver' = [driver EXCEPT ![r] = Workflow!Idle]
      /\ UNCHANGED <<plan, wf, decisions, late, started, begun, ended, holder, command>>
      /\ driver[r].pc = "repair"
    BY DEF Workflow!Repair, Workflow!Rest, Workflow!At, Workflow!code
<1>2. /\ DriverAgrees(r) /\ ready = Workflow!Expected(wf) /\ wf.version \in Nat
      /\ driver \in [Workers -> DriverRecord]
    BY DEF WorkflowInv, WorkflowType, RunRecord
<1>3. ready' = ready
    <2>1. CASE wf.version = driver[r].version
        <3>1. driver[r].expected = ready
            BY <1>1, <1>2, <2>1 DEF DriverAgrees
        <3>2. ready' = {row \in ready : \A other \in driver[r].expected \union {driver[r].row} :
                            Workflow!Key(row) # Workflow!Key(other)} \union driver[r].expected
            BY <2>1 DEF Workflow!Repair
        <3> QED BY <3>1, <3>2
    <2>2. CASE wf.version # driver[r].version
        BY <2>2 DEF Workflow!Repair
    <2> QED BY <2>1, <2>2
<1>4. DriverAgrees(r)'
    BY <1>1, <1>2, RestAgrees
<1> QED BY <1>1, <1>3, <1>4, AtRest, LooksInv DEF Executing

\* A process that gives its attempt up keeps nothing it relied on.
LEMMA GivesUpInv ==
    ASSUME WorkflowInv, NEW r \in Workers,
           \/ driver' = [driver EXCEPT ![r].pc = "settle"]
           \/ driver' = [driver EXCEPT ![r] = Workflow!Idle],
           UNCHANGED <<plan, wf, ready, decisions, started, begun, ended, holder, command>>,
           late' \in {late, None}
    PROVE  WorkflowInv'
<1>1. /\ DriverAgrees(r) /\ driver[r] \in DriverRecord /\ wf.version \in Nat
      /\ driver \in [Workers -> DriverRecord]
    BY DEF WorkflowInv, WorkflowType, RunRecord
<1>2. CASE driver' = [driver EXCEPT ![r] = Workflow!Idle]
    <2>1. DriverAgrees(r)'
        BY <1>1, <1>2, RestAgrees
    <2> QED BY <1>2, <2>1, AtRest, LooksInv DEF Executing
<1>3. CASE driver' = [driver EXCEPT ![r].pc = "settle"]
    <2> DEFINE d == [driver[r] EXCEPT !.pc = "settle"]
    <2>1. d \in DriverRecord /\ d.pc = "settle" /\ d.version = driver[r].version
          /\ d.aborted = driver[r].aborted
        BY <1>1 DEF DriverRecord
    <2>2. driver' = [driver EXCEPT ![r] = d] /\ driver'[r] = d
        BY <1>1, <1>3
    <2>3. DriverAgrees(r)'
        BY <1>1, <2>1, <2>2 DEF DriverAgrees, Executing
    <2> HIDE DEF d
    <2> QED BY <2>1, <2>2, <2>3, LooksInv DEF Executing
<1> QED BY <1>2, <1>3

LEMMA StopBeforeInv ==
    ASSUME WorkflowInv, NEW r \in Workers, Workflow!StopBefore(r)
    PROVE  WorkflowInv'
BY GivesUpInv DEF Workflow!StopBefore, Workflow!Goto, Workflow!run, Workflow!code

\* A process reads the version its attempt is at again.
LEMMA ReadsAgainInv ==
    ASSUME WorkflowInv, NEW r \in Workers,
           driver' = [driver EXCEPT ![r].version = wf.version],
           \/ /\ driver[r].pc = "claim"
              /\ wf.at = "runnable"
              /\ wf.step = driver[r].step /\ wf.generation = driver[r].generation
           \/ driver[r].pc = "start" /\ Workflow!Mine(r) /\ wf.attempt = "claimed"
           \/ driver[r].pc = "finish" /\ Workflow!Mine(r) /\ wf.attempt = "started",
           UNCHANGED <<plan, wf, ready, decisions, late, started, begun, ended, holder, command>>
    PROVE  WorkflowInv'
<1> DEFINE d == [driver[r] EXCEPT !.version = wf.version]
<1>1. /\ DriverAgrees(r) /\ driver[r] \in DriverRecord /\ wf.version \in Nat
      /\ driver \in [Workers -> DriverRecord]
    BY DEF WorkflowInv, WorkflowType, RunRecord
<1>2. /\ d \in DriverRecord /\ d.version = wf.version
      /\ d.pc = driver[r].pc /\ d.aborted = driver[r].aborted /\ d.step = driver[r].step
      /\ d.generation = driver[r].generation /\ d.outcome = driver[r].outcome
    BY <1>1 DEF DriverRecord
<1>3. driver' = [driver EXCEPT ![r] = d] /\ driver'[r] = d
    BY <1>1
<1> HIDE DEF d
<1>4. DriverAgrees(r)'
    BY <1>1, <1>2, <1>3 DEF DriverAgrees, Executing, Workflow!Mine, Workflow!Steps
<1> QED BY <1>2, <1>3, <1>4, LooksInv

-----------------------------------------------------------------------------
(***************************************************************************)
(* Callers that ask, and what they are told.                               *)
(***************************************************************************)
LEMMA AsksInv ==
    ASSUME WorkflowInv, NEW k \in Senders, NEW c \in CallRecord,
           command' = [command EXCEPT ![k] = c], CommandAgrees(k)',
           UNCHANGED <<plan, wf, ready, decisions, late, started, begun, ended, holder, driver>>
    PROVE  WorkflowInv'
<1>1. driver \in [Workers -> DriverRecord] /\ command \in [Senders -> CallRecord]
      /\ holder \in Workers \cup {None}
    BY DEF WorkflowInv, WorkflowType
<1> QED BY <1>1, RunRests

LEMMA VerdictType ==
    ASSUME NEW w, NEW s
    PROVE  Workflow!Verdict(w, s) \in Verdicts
BY DEF Workflow!Verdict, Verdicts

LEMMA ConsideredAgrees ==
    ASSUME WorkflowInv, UNCHANGED <<plan, wf, decisions>>, NEW k \in Senders,
           NEW c \in CallRecord, command'[k] = Workflow!Considered(c),
           c.op = "deliver", c.id \in Deliveries \cap Ids, c.signal \in Signals
    PROVE  command'[k] \in CallRecord /\ CommandAgrees(k)'
<1>1. wf.version \in Nat /\ decisions[c.id] \in Decision \cup {None}
    BY DEF WorkflowInv, WorkflowType, RunRecord
<1>2. CASE decisions[c.id] = None
    <2>1. command'[k] = [c EXCEPT !.pc = "write", !.version = wf.version,
                                  !.verdict = Workflow!Verdict(wf, c.signal)]
        BY <1>2 DEF Workflow!Considered
    <2>2. Workflow!Verdict(wf, c.signal) \in Verdicts
        BY VerdictType
    <2>3. /\ command'[k] \in CallRecord /\ command'[k].pc = "write"
          /\ command'[k].version = wf.version
          /\ command'[k].verdict = Workflow!Verdict(wf, c.signal)
          /\ command'[k].op = c.op /\ command'[k].id = c.id /\ command'[k].signal = c.signal
        BY <1>1, <2>1, <2>2 DEF CallRecord
    <2> QED BY <1>1, <2>2, <2>3 DEF CommandAgrees, Workflow!Verdict, Workflow!Steps
<1>3. CASE decisions[c.id] # None
    <2> DEFINE a == IF decisions[c.id].signal = c.signal
                    THEN decisions[c.id].verdict ELSE "conflict"
    <2>1. command'[k] = [pc |-> "answered", op |-> c.op, id |-> c.id, signal |-> c.signal,
                         via |-> None, version |-> 0, verdict |-> None, port |-> None,
                         answer |-> a]
        BY <1>3 DEF Workflow!Considered, Workflow!Answer, CallRecord
    <2>2. decisions[c.id] \in Decision
        BY <1>1, <1>3
    <2>3. decisions[c.id] = [signal |-> decisions[c.id].signal, verdict |-> decisions[c.id].verdict]
          /\ decisions[c.id].verdict \in Verdicts
        BY <2>2 DEF Decision
    <2>4. a \in Answers
        BY <2>3 DEF Answers
    <2>5. /\ c.op \in {None, "deliver", "cancel"} /\ c.id \in Ids \cup {None}
          /\ c.signal \in Signals \cup {None}
        BY DEF CallRecord
    <2> HIDE DEF a
    <2>6. command'[k] \in CallRecord
        BY <2>1, <2>4, <2>5 DEF CallRecord
    <2>7. /\ a \in Verdicts => decisions[c.id].signal = c.signal /\ decisions[c.id].verdict = a
          /\ a = "conflict" => decisions[c.id].signal # c.signal
          /\ a \in Verdicts \cup {"conflict"}
        BY <2>3 DEF a, Verdicts
    <2> QED BY <1>3, <2>1, <2>3, <2>6, <2>7 DEF CommandAgrees, Verdicts
<1> QED BY <1>2, <1>3

LEMMA ExaminedAgrees ==
    ASSUME WorkflowInv, UNCHANGED <<plan, wf, decisions>>, NEW k \in Senders,
           NEW c \in CallRecord, command'[k] = Workflow!Examined(c), c.op = "cancel", c.id \in Ids
    PROVE  command'[k] \in CallRecord /\ CommandAgrees(k)'
<1>1. wf.version \in Nat
    BY DEF WorkflowInv, WorkflowType, RunRecord
<1>2. \/ /\ command'[k] = [c EXCEPT !.pc = "write", !.version = wf.version]
         /\ wf.request = None /\ ~Workflow!Terminal(wf)
      \/ \E a \in {"requested", "terminal", "not-ready"} :
            /\ command'[k] = Workflow!Answer(c, a)
            /\ a = "requested" => wf.request # None
            /\ a = "terminal" => wf.request = None /\ Workflow!Terminal(wf)
    BY DEF Workflow!Examined
<1>3. CASE /\ command'[k] = [c EXCEPT !.pc = "write", !.version = wf.version]
           /\ wf.request = None /\ ~Workflow!Terminal(wf)
    <2>1. /\ command'[k] \in CallRecord /\ command'[k].pc = "write"
          /\ command'[k].version = wf.version
          /\ command'[k].op = c.op /\ command'[k].id = c.id
        BY <1>1, <1>3 DEF CallRecord
    <2> QED BY <1>1, <1>3, <2>1 DEF CommandAgrees, Workflow!Terminal
<1>4. ASSUME NEW a \in {"requested", "terminal", "not-ready"}, command'[k] = Workflow!Answer(c, a),
             a = "requested" => wf.request # None,
             a = "terminal" => wf.request = None /\ Workflow!Terminal(wf)
      PROVE  command'[k] \in CallRecord /\ CommandAgrees(k)'
    <2>1. command'[k] = [pc |-> "answered", op |-> c.op, id |-> c.id, signal |-> c.signal,
                         via |-> None, version |-> 0, verdict |-> None, port |-> None,
                         answer |-> a]
        BY <1>4 DEF Workflow!Answer, CallRecord
    <2>2. /\ c.op \in {None, "deliver", "cancel"} /\ c.id \in Ids \cup {None}
          /\ c.signal \in Signals \cup {None}
        BY DEF CallRecord
    <2>3. command'[k] \in CallRecord
        BY <2>1, <2>2 DEF CallRecord, Answers
    <2> QED BY <1>4, <2>1, <2>3 DEF CommandAgrees, Verdicts, Workflow!Terminal
<1> QED BY <1>2, <1>3, <1>4

LEMMA AskType ==
    ASSUME WorkflowInv, NEW order \in Sent, order.op \in {"deliver", "cancel"}
    PROVE  /\ Workflow!Ask(order) \in CallRecord
           /\ Workflow!Ask(order).op = order.op /\ Workflow!Ask(order).id = order.id
           /\ Workflow!Ask(order).signal = order.signal
           /\ order.id \in Ids /\ order.signal \in Signals
           /\ order.op = "deliver" => order.id \in Deliveries
<1>1. Workflow!Quiet \in CallRecord
    BY DEF Workflow!Quiet, CallRecord
<1>2. order.id \in Ids /\ order.signal \in Signals /\ holder \in Workers \cup {None}
    BY DEF Ids, Signals, WorkflowInv, WorkflowType
<1>3. order.op = "deliver" => order.id \in Deliveries
    BY WorkflowAssumed DEF WorkflowAssumptions
<1> QED BY <1>1, <1>2, <1>3 DEF Workflow!Ask, CallRecord

LEMMA DeliverSignalInv ==
    ASSUME WorkflowInv, NEW k \in Senders, Workflow!DeliverSignal(k)
    PROVE  WorkflowInv'
<1>1. PICK order \in Commands[k] :
          /\ order.op = "deliver"
          /\ command' = [command EXCEPT ![k] = Workflow!Considered(Workflow!Ask(order))]
    BY DEF Workflow!DeliverSignal
<1>2. order \in Sent
    BY DEF Sent
<1>3. UNCHANGED <<plan, wf, ready, decisions, late, started, begun, ended, holder, driver>>
    BY DEF Workflow!DeliverSignal, Workflow!run, Workflow!code
<1>4. command'[k] = Workflow!Considered(Workflow!Ask(order))
    BY <1>1 DEF WorkflowInv, WorkflowType
<1>5. command'[k] \in CallRecord /\ CommandAgrees(k)'
    BY <1>1, <1>2, <1>3, <1>4, AskType, ConsideredAgrees
<1>6. command' = [command EXCEPT ![k] = command'[k]]
    BY <1>1, <1>4
<1> QED BY <1>3, <1>5, <1>6, AsksInv

LEMMA RequestCancellationInv ==
    ASSUME WorkflowInv, NEW k \in Senders, Workflow!RequestCancellation(k)
    PROVE  WorkflowInv'
<1>1. PICK order \in Commands[k] :
          /\ order.op = "cancel"
          /\ command' = [command EXCEPT ![k] = Workflow!Examined([Workflow!Ask(order) EXCEPT
                        !.port = IF Workflow!Running(wf) THEN Workflow!Port(holder) ELSE None])]
    BY DEF Workflow!RequestCancellation
<1> DEFINE port == IF Workflow!Running(wf) THEN Workflow!Port(holder) ELSE None
           c == [Workflow!Ask(order) EXCEPT !.port = port]
<1>2. order \in Sent
    BY DEF Sent
<1>3. UNCHANGED <<plan, wf, ready, decisions, late, started, begun, ended, holder, driver>>
      /\ holder # None
    BY DEF Workflow!RequestCancellation, Workflow!run, Workflow!code
<1>4. port \in (Nat \X Nat) \cup {None}
    <2>1. driver[holder] \in DriverRecord
        BY <1>3 DEF WorkflowInv, WorkflowType
    <2>2. driver[holder].step \in Nat /\ driver[holder].generation \in Nat
        BY <2>1 DEF DriverRecord
    <2> QED BY <2>2 DEF Workflow!Port
<1> HIDE DEF port
<1>5. c \in CallRecord /\ c.op = "cancel" /\ c.id \in Ids
    BY <1>1, <1>2, <1>4, AskType DEF CallRecord
<1>6. command'[k] = Workflow!Examined(c)
    BY <1>1 DEF WorkflowInv, WorkflowType, port
<1> HIDE DEF c
<1>7. command'[k] \in CallRecord /\ CommandAgrees(k)'
    BY <1>3, <1>5, <1>6, ExaminedAgrees
<1>8. command' = [command EXCEPT ![k] = command'[k]]
    BY <1>1, <1>6 DEF c, port
<1> QED BY <1>3, <1>7, <1>8, AsksInv

LEMMA RefuseInv ==
    ASSUME WorkflowInv, NEW k \in Senders, Workflow!Refuse(k)
    PROVE  WorkflowInv'
<1>1. UNCHANGED <<plan, wf, ready, decisions, late, started, begun, ended, holder, driver>>
      /\ command' = [command EXCEPT ![k] = Workflow!Answer(command[k], "unknown")]
    BY DEF Workflow!Refuse, Workflow!run, Workflow!code
<1>2. command[k] \in CallRecord /\ command \in [Senders -> CallRecord]
    BY DEF WorkflowInv, WorkflowType
<1>3. command'[k] = Workflow!Answer(command[k], "unknown")
    BY <1>1, <1>2
<1>4. command'[k] \in CallRecord /\ CommandAgrees(k)'
    BY <1>2, <1>3, UnknownAgrees
<1> QED BY <1>1, <1>2, <1>3, <1>4, AsksInv
-----------------------------------------------------------------------------
(***************************************************************************)
(* The code of a step begins and ends.                                     *)
(***************************************************************************)
LEMMA CodeMovesInv ==
    ASSUME WorkflowInv, NEW r \in Workers, driver[r].pc \in {"dispatch", "execute"},
           NEW d \in DriverRecord, d.step = driver[r].step,
           driver' = [driver EXCEPT ![r] = d], DriverAgrees(r)',
           NEW e \in Endings \cup {None},
           begun' = [begun EXCEPT ![d.step] = 1], ended' = [ended EXCEPT ![d.step] = e],
           e = "cancelled" => wf.request # None,
           UNCHANGED <<plan, wf, ready, decisions, late, started, holder, command>>
    PROVE  WorkflowInv'
<1> DEFINE s == d.step
<1>1. /\ WorkflowType /\ DriverAgrees(r) /\ driver \in [Workers -> DriverRecord]
      /\ begun \in [Workflow!Steps -> Nat] /\ started \in [Workflow!Steps -> Nat]
      /\ ended \in [Workflow!Steps -> Endings \cup {None}]
      /\ Workflow!Steps' = Workflow!Steps /\ Workflow!Steps \subseteq Nat
    BY StepsAreNumbers DEF WorkflowInv, WorkflowType, Workflow!Steps
<1>2. s \in Workflow!Steps /\ started[s] = 1 /\ s \notin wf.outputs
    BY <1>1 DEF DriverAgrees, Executing
<1>3. /\ driver'[r] = d /\ \A q \in Workers \ {r} : driver'[q] = driver[q]
      /\ driver' \in [Workers -> DriverRecord]
    BY <1>1
<1>4. /\ begun' \in [Workflow!Steps -> Nat] /\ begun'[s] = 1
      /\ ended' \in [Workflow!Steps -> Endings \cup {None}] /\ ended'[s] = e
      /\ \A t \in Workflow!Steps \ {s} : begun'[t] = begun[t] /\ ended'[t] = ended[t]
    BY <1>1, <1>2
<1> HIDE DEF s
<1>5. WorkflowType'
    <2>1. wf' \in RunRecord'
        BY <1>1 DEF WorkflowType, RunRecord
    <2> QED BY <1>1, <1>3, <1>4, <2>1 DEF WorkflowType
<1>6. ready' = Workflow!Expected(wf)'
    BY DEF WorkflowInv, Workflow!Expected
<1>7. CursorAgrees'
    BY DEF WorkflowInv, CursorAgrees
<1>8. StartsAgree'
    BY <1>1, <1>2, <1>4 DEF WorkflowInv, StartsAgree
<1>9. OutputsAgree'
    BY <1>1, <1>2, <1>4 DEF WorkflowInv, OutputsAgree
<1>10. WaitsAgree'
    BY DEF WorkflowInv, WaitsAgree, Accepted, Workflow!Steps
<1>11. \A q \in Workers : DriverAgrees(q)'
    <2> SUFFICES ASSUME NEW q \in Workers, q # r PROVE DriverAgrees(q)'
        OBVIOUS
    <2>1. driver[q].pc \in Executing => driver[q].step # s /\ driver[q].step \in Workflow!Steps
        BY DEF WorkflowInv, OneExecutes, Executing, DriverAgrees, s
    <2>2. CodeStays(q)
        <3>1. driver[q].pc # "finish" /\ driver[q].pc \in Executing =>
                  driver[q].step \notin wf.outputs
            BY DEF WorkflowInv, DriverAgrees
        <3> QED BY <1>4, <2>1, <3>1 DEF CodeStays
    <2> QED BY <1>3, <2>2, DriverRests
<1>12. OneExecutes'
    <2>1. driver[r].pc \in Executing /\ driver[r].step = s /\ driver'[r].step = s
        BY <1>3 DEF Executing, s
    <2> QED BY <1>3, <2>1 DEF WorkflowInv, OneExecutes
<1>13. \A k \in Senders : CommandAgrees(k)'
    BY CallRests
<1> QED BY <1>5, <1>6, <1>7, <1>8, <1>9, <1>10, <1>11, <1>12, <1>13 DEF WorkflowInv

LEMMA DispatchInv ==
    ASSUME WorkflowInv, NEW r \in Workers, Workflow!Dispatch(r)
    PROVE  WorkflowInv'
<1> DEFINE d == [driver[r] EXCEPT !.pc = "execute"]
           s == driver[r].step
<1>1. /\ DriverAgrees(r) /\ driver[r] \in DriverRecord /\ wf.version \in Nat
      /\ driver \in [Workers -> DriverRecord] /\ begun \in [Workflow!Steps -> Nat]
      /\ ended \in [Workflow!Steps -> Endings \cup {None}]
    BY DEF WorkflowInv, WorkflowType, RunRecord
<1>2. /\ driver[r].pc = "dispatch"
      /\ driver' = [driver EXCEPT ![r].pc = "execute"]
      /\ begun' = [begun EXCEPT ![s] = @ + 1] /\ ended' = ended
      /\ UNCHANGED <<plan, wf, ready, decisions, late, started, holder, command>>
    BY DEF Workflow!Dispatch, Workflow!At, Workflow!Goto, Workflow!run
<1>3. /\ d \in DriverRecord /\ d.pc = "execute" /\ d.step = s
      /\ d.version = driver[r].version /\ d.generation = driver[r].generation
      /\ d.aborted = driver[r].aborted
    BY <1>1 DEF DriverRecord
<1>4. driver' = [driver EXCEPT ![r] = d] /\ driver'[r] = d
    BY <1>1, <1>2
<1>5. s \in Workflow!Steps /\ begun[s] = 0 /\ ended[s] = None
    BY <1>1, <1>2 DEF DriverAgrees, Executing
<1>6. begun' = [begun EXCEPT ![s] = 1] /\ ended' = [ended EXCEPT ![s] = None] /\ begun'[s] = 1
    BY <1>1, <1>2, <1>5
<1> HIDE DEF d, s
<1>7. DriverAgrees(r)'
    BY <1>1, <1>2, <1>3, <1>4, <1>5, <1>6
    DEF DriverAgrees, Executing, Workflow!Mine, Workflow!Steps, s
<1>8. driver[r].pc \in {"dispatch", "execute"} /\ d.step = driver[r].step
    BY <1>2, <1>3 DEF s
<1>9. /\ begun' = [begun EXCEPT ![d.step] = 1] /\ ended' = [ended EXCEPT ![d.step] = None]
      /\ None \in Endings \cup {None} /\ (None = "cancelled" => wf.request # None)
    BY <1>3, <1>6, WorkflowAssumed DEF WorkflowAssumptions, Endings
<1> QED BY <1>2, <1>3, <1>4, <1>7, <1>8, <1>9, CodeMovesInv

LEMMA EndExecutionInv ==
    ASSUME WorkflowInv, NEW r \in Workers, Workflow!EndExecution(r)
    PROVE  WorkflowInv'
<1>1. PICK ending \in Endings :
        /\ ending = "cancelled" => driver[r].aborted
        /\ driver' = [driver EXCEPT
                ![r].pc = IF ending = "unusable" THEN "settle" ELSE "finish",
                ![r].outcome = ending]
        /\ ended' = [ended EXCEPT ![driver[r].step] = ending]
    BY DEF Workflow!EndExecution, Endings
<1> DEFINE then == IF ending = "unusable" THEN "settle" ELSE "finish"
           d == [driver[r] EXCEPT !.pc = then, !.outcome = ending]
           s == driver[r].step
<1>2. /\ DriverAgrees(r) /\ driver[r] \in DriverRecord /\ wf.version \in Nat
      /\ driver \in [Workers -> DriverRecord] /\ begun \in [Workflow!Steps -> Nat]
      /\ ended \in [Workflow!Steps -> Endings \cup {None}]
    BY DEF WorkflowInv, WorkflowType, RunRecord
<1>3. /\ driver[r].pc = "execute" /\ begun' = begun
      /\ UNCHANGED <<plan, wf, ready, decisions, late, started, holder, command>>
    BY DEF Workflow!EndExecution, Workflow!At, Workflow!run
<1>4. then \in {"settle", "finish"} /\ (then = "finish" => ending # "unusable")
    OBVIOUS
<1> HIDE DEF then
<1>5. /\ d \in DriverRecord /\ d.pc = then /\ d.step = s /\ d.outcome = ending
      /\ d.version = driver[r].version /\ d.generation = driver[r].generation
      /\ d.aborted = driver[r].aborted
    BY <1>2, <1>4 DEF DriverRecord
<1>6. driver' = [driver EXCEPT ![r] = d] /\ driver'[r] = d
    BY <1>1, <1>2 DEF then
<1>7. s \in Workflow!Steps /\ begun[s] = 1
    BY <1>2, <1>3 DEF DriverAgrees, Executing
<1>8. begun' = [begun EXCEPT ![s] = 1] /\ ended' = [ended EXCEPT ![s] = ending]
      /\ ended'[s] = ending
    BY <1>1, <1>2, <1>3, <1>7
<1> HIDE DEF d, s
<1>9. DriverAgrees(r)'
    BY <1>2, <1>3, <1>4, <1>5, <1>6, <1>7, <1>8
    DEF DriverAgrees, Executing, Workflow!Mine, Workflow!Steps, s
<1>10. driver[r].pc \in {"dispatch", "execute"} /\ d.step = driver[r].step
       /\ (ending = "cancelled" => wf.request # None)
    BY <1>1, <1>2, <1>3, <1>5 DEF s, DriverAgrees
<1>11. /\ begun' = [begun EXCEPT ![d.step] = 1] /\ ended' = [ended EXCEPT ![d.step] = ending]
       /\ ending \in Endings \cup {None}
    BY <1>5, <1>8
<1> QED BY <1>3, <1>5, <1>6, <1>9, <1>10, <1>11, CodeMovesInv
-----------------------------------------------------------------------------
(***************************************************************************)
(* A transaction on the run.                                               *)
(***************************************************************************)
LEMMA CommitInv ==
    ASSUME WorkflowInv, NEW w \in RunRecord, Workflow!Commit(w), UNCHANGED <<plan, begun, ended>>,
           holder' = holder, started' \in [Workflow!Steps -> Nat],
           wf.request # None => w.request # None,
           Workflow!Terminal(wf) => Workflow!Terminal(w) /\ w.request = wf.request,
           decisions' \in [Deliveries -> Decision \cup {None}],
           \A d \in Deliveries : decisions[d] # None => decisions'[d] = decisions[d],
           driver' \in [Workers -> DriverRecord],
           \A r \in Workers : (driver'[r] = driver[r] /\ CodeStays(r)) \/ DriverAgrees(r)',
           OneExecutes',
           command' \in [Senders -> CallRecord],
           \A k \in Senders : command'[k] = command[k] \/ CommandAgrees(k)',
           CursorAgrees', StartsAgree', OutputsAgree', WaitsAgree'
    PROVE  WorkflowInv'
<1>1. /\ wf' \in RunRecord /\ wf'.version = wf.version + 1
      /\ wf'.status = w.status /\ wf'.request = w.request
      /\ ready' = Workflow!Expected(wf)' /\ ready' \subseteq Row
      /\ late' = None
      /\ RunRecord' = RunRecord
    BY Committed
<1>2. wf.version \in Nat /\ Workflow!Steps' = Workflow!Steps
    BY DEF WorkflowInv, WorkflowType, RunRecord, Workflow!Steps
<1>3. WorkflowType'
    BY <1>1, <1>2 DEF WorkflowInv, WorkflowType
<1>4. WorkflowGrows
    BY <1>1, <1>2 DEF WorkflowGrows, Workflow!Terminal
<1>5. \A r \in Workers : DriverAgrees(r)'
    BY <1>3, <1>4, DriverRests
<1>6. \A k \in Senders : CommandAgrees(k)'
    BY <1>3, <1>4, CallRests
<1> QED BY <1>1, <1>3, <1>5, <1>6 DEF WorkflowInv

\* Nobody begins to execute.
LEMMA OneStillExecutes ==
    ASSUME WorkflowInv,
           \A r \in Workers : driver'[r].pc \in Executing =>
               driver[r].pc \in Executing /\ driver'[r].step = driver[r].step
    PROVE  OneExecutes'
BY DEF WorkflowInv, OneExecutes

\* The facts of the run most steps look at.
LEMMA Facts ==
    ASSUME WorkflowInv
    PROVE  /\ wf \in RunRecord /\ wf.version \in Nat /\ wf.generation \in Nat
           /\ wf.step \in Workflow!Steps /\ wf.step \in Nat /\ wf.request \in Ids \cup {None}
           /\ wf.outputs \subseteq Workflow!Steps
           /\ wf.consumed \in [Workflow!Steps -> Deliveries \cup {None}]
           /\ decisions \in [Deliveries -> Decision \cup {None}]
           /\ driver \in [Workers -> DriverRecord] /\ command \in [Senders -> CallRecord]
           /\ started \in [Workflow!Steps -> Nat] /\ begun \in [Workflow!Steps -> Nat]
           /\ ended \in [Workflow!Steps -> Endings \cup {None}]
           /\ CursorAgrees /\ StartsAgree /\ OutputsAgree /\ WaitsAgree
           /\ Workflow!Steps = 1..Len(plan) /\ Len(plan) \in Nat \ {0}
BY StepsAreNumbers DEF WorkflowInv, WorkflowType, RunRecord

\* The code under way belongs to steps that were started and gave nothing yet,
\* unless its end is about to be told.
LEMMA Underway ==
    ASSUME WorkflowInv, NEW r \in Workers, driver[r].pc \in Executing
    PROVE  /\ driver[r].step \in Workflow!Steps /\ started[driver[r].step] = 1
           /\ driver[r].pc # "finish" => driver[r].step \notin wf.outputs
           /\ driver[r].pc # "dispatch" => begun[driver[r].step] = 1
           /\ driver[r].pc = "dispatch" => begun[driver[r].step] = 0
BY DEF WorkflowInv, DriverAgrees

LEMMA ActivationType ==
    ASSUME NEW s
    PROVE  /\ Workflow!Activation(s) \in {"runnable", "timer", "signal"}
           /\ Workflow!Activation(s) = "runnable" <=> plan[s] = "activity"
           /\ Workflow!Activation(s) = "timer" <=> plan[s] = "timer"
BY DEF Workflow!Activation

LEMMA AdvancedIs ==
    ASSUME WorkflowInv, NEW w \in RunRecord, w.step = wf.step
    PROVE  /\ Workflow!Advanced(w) \in RunRecord
           /\ Workflow!Advanced(w).outputs = w.outputs \cup {w.step}
           /\ Workflow!Advanced(w).request = w.request /\ Workflow!Advanced(w).consumed = w.consumed
           /\ Workflow!Advanced(w).version = w.version
           /\ w.step = Len(plan) =>
                 /\ Workflow!Advanced(w).status = "COMPLETED"
                 /\ Workflow!Advanced(w).at = "completed"
                 /\ Workflow!Advanced(w).step = w.step /\ Workflow!Advanced(w).attempt = w.attempt
           /\ w.step # Len(plan) =>
                 /\ Workflow!Advanced(w).status = "RUNNING"
                 /\ Workflow!Advanced(w).at = Workflow!Activation(w.step + 1)
                 /\ Workflow!Advanced(w).step = w.step + 1 /\ Workflow!Advanced(w).attempt = "none"
                 /\ w.step + 1 \in Workflow!Steps
<1>1. /\ w.step \in Workflow!Steps /\ w.step \in Nat /\ Workflow!Steps = 1..Len(plan)
      /\ Len(plan) \in Nat
    BY Facts
<1>2. w.step # Len(plan) => w.step + 1 \in Workflow!Steps
    BY <1>1
<1> DEFINE given == [w EXCEPT !.outputs = @ \union {w.step}, !.status = "RUNNING"]
<1>3. /\ given \in RunRecord /\ given.outputs = w.outputs \cup {w.step}
      /\ given.status = "RUNNING" /\ given.request = w.request /\ given.step = w.step
      /\ given.consumed = w.consumed /\ given.version = w.version /\ given.attempt = w.attempt
    BY <1>1, ZenonT(60) DEF RunRecord
<1>4. Workflow!Advanced(w) = IF w.step = Len(plan)
                             THEN [given EXCEPT !.status = "COMPLETED", !.at = "completed"]
                             ELSE Workflow!Entered(given, w.step + 1)
    BY DEF Workflow!Advanced
<1> HIDE DEF given
<1>5. CASE w.step = Len(plan)
    BY <1>3, <1>4, <1>5 DEF RunRecord
<1>6. CASE w.step # Len(plan)
    <2>1. Workflow!Advanced(w) = [given EXCEPT !.step = w.step + 1,
                                               !.at = Workflow!Activation(w.step + 1),
                                               !.generation = 0, !.attempt = "none"]
        BY <1>4, <1>6 DEF Workflow!Entered
    <2>2. Workflow!Activation(w.step + 1) \in {"runnable", "timer", "signal"}
        BY ActivationType
    <2>3. Workflow!Advanced(w) \in RunRecord
        <3> DEFINE next == w.step + 1
                   at == Workflow!Activation(w.step + 1)
        <3>1. next \in Workflow!Steps /\ at \in {"runnable", "timer", "signal"} /\ 0 \in Nat
            BY <1>2, <1>6, <2>2
        <3>2. Workflow!Advanced(w) = [given EXCEPT !.step = next, !.at = at, !.generation = 0,
                                                   !.attempt = "none"]
            BY <2>1
        <3> HIDE DEF next, at
        <3> QED BY <1>3, <3>1, <3>2, ZenonT(60) DEF RunRecord
    <2>4. /\ Workflow!Advanced(w).outputs = given.outputs
          /\ Workflow!Advanced(w).request = given.request
          /\ Workflow!Advanced(w).consumed = given.consumed
          /\ Workflow!Advanced(w).version = given.version
          /\ Workflow!Advanced(w).status = given.status
          /\ Workflow!Advanced(w).at = Workflow!Activation(w.step + 1)
          /\ Workflow!Advanced(w).step = w.step + 1 /\ Workflow!Advanced(w).attempt = "none"
        BY <1>3, <2>1 DEF RunRecord
    <2> QED BY <1>2, <1>3, <1>6, <2>3, <2>4
<1> QED BY <1>5, <1>6

\* The current step gives its output.
LEMMA AdvanceCommits ==
    ASSUME WorkflowInv, NEW w \in RunRecord, w.step = wf.step, w.outputs = wf.outputs,
           w.request = wf.request, wf.at # "completed",
           wf.request = None \/ wf.step = Len(plan),
           w.attempt \notin {"claimed", "started"},
           \A s \in Workflow!Steps : wf.consumed[s] # None => w.consumed[s] # None,
           IF plan[wf.step] = "activity"
           THEN begun[wf.step] = 1 /\ ended[wf.step] \in {None, "completed"}
           ELSE plan[wf.step] = "timer" \/ w.consumed[wf.step] # None,
           Workflow!Commit(Workflow!Advanced(w)), UNCHANGED <<plan, begun, ended, started>>
    PROVE  /\ CursorAgrees' /\ StartsAgree' /\ OutputsAgree'
           /\ wf'.outputs = wf.outputs \cup {wf.step} /\ wf'.request = wf.request
           /\ wf'.consumed = w.consumed
<1>1. /\ Workflow!Advanced(w) \in RunRecord
      /\ Workflow!Advanced(w).outputs = w.outputs \cup {w.step}
      /\ Workflow!Advanced(w).request = w.request /\ Workflow!Advanced(w).consumed = w.consumed
    BY AdvancedIs
<1>2. /\ wf'.status = Workflow!Advanced(w).status /\ wf'.request = wf.request
      /\ wf'.step = Workflow!Advanced(w).step /\ wf'.at = Workflow!Advanced(w).at
      /\ wf'.attempt = Workflow!Advanced(w).attempt
      /\ wf'.outputs = wf.outputs \cup {wf.step} /\ wf'.consumed = w.consumed
      /\ late' = None
    BY <1>1, Committed
<1>3. /\ wf.outputs = 1..(wf.step - 1) /\ wf.step \in Nat \ {0} /\ Workflow!Steps' = Workflow!Steps
      /\ Workflow!Steps = 1..Len(plan) /\ wf.step \in Workflow!Steps /\ Len(plan) \in Nat
    <2>1. wf.step \in Nat \ {0}
        BY Facts
    <2> QED BY <2>1, Facts DEF CursorAgrees, Workflow!Steps
<1>4. wf'.outputs = 1..wf.step
    BY <1>2, <1>3
<1>5. CASE wf.step = Len(plan)
    <2>1. /\ wf'.status = "COMPLETED" /\ wf'.at = "completed" /\ wf'.step = wf.step
          /\ wf'.attempt = w.attempt
        BY <1>2, <1>5, AdvancedIs
    <2>2. CursorAgrees'
        BY <1>4, <1>5, <2>1 DEF CursorAgrees
    <2>3. StartsAgree'
        BY <1>2, <1>3, <2>1, Facts DEF StartsAgree
    <2>4. OutputsAgree'
        BY <1>2, <1>3, Facts DEF OutputsAgree
    <2> QED BY <1>2, <2>2, <2>3, <2>4
<1>6. CASE wf.step # Len(plan)
    <2>1. /\ wf'.status = "RUNNING" /\ wf'.at = Workflow!Activation(wf.step + 1)
          /\ wf'.step = wf.step + 1 /\ wf'.attempt = "none" /\ wf.step + 1 \in Workflow!Steps
        BY <1>2, <1>6, AdvancedIs
    <2>2. /\ wf'.at \in {"runnable", "timer", "signal"}
          /\ wf'.at = "runnable" => plan[wf.step + 1] = "activity"
          /\ wf'.at = "timer" => plan[wf.step + 1] = "timer"
          /\ wf'.at = "signal" => plan[wf.step + 1] \notin {"activity", "timer"}
        BY <2>1, ActivationType
    <2>3. CursorAgrees'
        BY <1>2, <1>3, <1>4, <1>6, <2>1, <2>2 DEF CursorAgrees
    <2>4. StartsAgree'
        BY <1>2, <1>3, <2>1, <2>2, Facts DEF StartsAgree
    <2>5. OutputsAgree'
        BY <1>2, <1>3, Facts DEF OutputsAgree
    <2> QED BY <1>2, <2>3, <2>4, <2>5
<1> QED BY <1>5, <1>6
-----------------------------------------------------------------------------
(***************************************************************************)
(* The transactions of the worker.                                         *)
(***************************************************************************)
\* A transaction that tells no caller, whose process rests or goes on.
LEMMA WorkerCommitInv ==
    ASSUME WorkflowInv, NEW w \in RunRecord, Workflow!Commit(w),
           UNCHANGED <<plan, begun, ended, decisions, holder, command>>,
           started' \in [Workflow!Steps -> Nat],
           wf.request # None => w.request # None,
           ~Workflow!Terminal(wf),
           NEW r \in Workers, NEW d \in DriverRecord,
           driver' = [driver EXCEPT ![r] = d] \/ driver' = driver,
           driver'[r] = driver[r] \/ DriverAgrees(r)',
           \A q \in Workers : driver'[q] = driver[q] => CodeStays(q),
           OneExecutes',
           CursorAgrees', StartsAgree', OutputsAgree', WaitsAgree'
    PROVE  WorkflowInv'
<1>1. driver' \in [Workers -> DriverRecord] /\ command' \in [Senders -> CallRecord]
      /\ decisions' \in [Deliveries -> Decision \cup {None}]
    BY Facts
<1>2. \A q \in Workers : (driver'[q] = driver[q] /\ CodeStays(q)) \/ DriverAgrees(q)'
    BY Facts
<1> QED BY <1>1, <1>2, CommitInv

\* Waits are told by what was consumed, decided and given.
LEMMA WaitsRest ==
    ASSUME WorkflowInv, UNCHANGED <<plan, decisions>>,
           wf'.consumed = wf.consumed, wf.outputs \subseteq wf'.outputs
    PROVE  WaitsAgree'
BY DEF WorkflowInv, WaitsAgree, Accepted, Workflow!Steps

LEMMA ClaimInv ==
    ASSUME WorkflowInv, NEW r \in Workers, Workflow!Claim(r)
    PROVE  WorkflowInv'
<1>1. /\ driver[r].pc = "claim"
      /\ UNCHANGED <<plan, begun, ended, decisions, started, holder, command>>
    BY DEF Workflow!Claim, Workflow!At, Workflow!code
<1>2. DriverAgrees(r) /\ driver[r] \in DriverRecord
    BY Facts DEF WorkflowInv
<1>3. CASE /\ wf.version = driver[r].version /\ Workflow!Commit(Workflow!Claimed(wf))
           /\ \/ driver' = [driver EXCEPT ![r].pc = "start", ![r].version = wf'.version,
                                          ![r].generation = wf'.generation]
              \/ Workflow!Rest(r)
    <2> DEFINE w == Workflow!Claimed(wf)
    <2>1. wf.at = "runnable" /\ wf.step = driver[r].step /\ wf.request = None
          /\ wf.status = "RUNNING"
        BY <1>1, <1>2, <1>3, Facts DEF DriverAgrees, CursorAgrees
    <2>2. /\ w \in RunRecord /\ w.status = wf.status /\ w.request = wf.request
          /\ w.step = wf.step /\ w.at = "running" /\ w.generation = wf.generation + 1
          /\ w.attempt = "claimed" /\ w.outputs = wf.outputs /\ w.consumed = wf.consumed
        <3> DEFINE g == wf.generation + 1
        <3>1. g \in Nat /\ w = [wf EXCEPT !.at = "running", !.generation = g, !.attempt = "claimed"]
            BY Facts DEF Workflow!Claimed
        <3> HIDE DEF g, w
        <3>2. w \in RunRecord /\ w.generation = g
            BY <3>1, Facts DEF RunRecord
        <3> QED BY <3>1, <3>2, Facts DEF RunRecord, g
    <2> HIDE DEF w
    <2>3. /\ wf' \in RunRecord /\ wf'.version = wf.version + 1
          /\ wf'.status = wf.status /\ wf'.request = wf.request /\ wf'.step = wf.step
          /\ wf'.at = "running" /\ wf'.generation = wf.generation + 1
          /\ wf'.attempt = "claimed" /\ wf'.outputs = wf.outputs /\ wf'.consumed = wf.consumed
          /\ late' = None
        BY <1>1, <1>3, <2>2, Committed DEF w
    <2>4. CursorAgrees' /\ StartsAgree' /\ OutputsAgree' /\ WaitsAgree'
        <3>1. CursorAgrees'
            BY <1>1, <2>1, <2>3, Facts DEF CursorAgrees
        <3>2. StartsAgree'
            BY <1>1, <2>1, <2>3, Facts DEF StartsAgree, Workflow!Steps
        <3>3. OutputsAgree'
            BY <1>1, <2>3, Facts DEF OutputsAgree, Workflow!Steps
        <3> QED BY <1>1, <2>3, <3>1, <3>2, <3>3, WaitsRest
    <2>5. \A q \in Workers : CodeStays(q)
        BY <1>1, <2>3, Underway DEF CodeStays
    <2>6. ~Workflow!Terminal(wf)
        BY <2>1 DEF Workflow!Terminal
    <2>7. CASE Workflow!Rest(r)
        <3>1. driver' = [driver EXCEPT ![r] = Workflow!Idle] /\ driver'[r] = Workflow!Idle
            BY <2>7, Facts DEF Workflow!Rest
        <3>2. wf'.version \in Nat
            BY <2>3, Facts
        <3>3. DriverAgrees(r)'
            BY <3>1, <3>2, RestAgrees
        <3>4. OneExecutes'
            BY <3>1, AtRest, Facts, OneStillExecutes DEF Executing
        <3> QED BY <1>1, <1>3, <2>1, <2>2, <2>4, <2>5, <2>6, <3>1, <3>3, <3>4, AtRest, Facts,
                   WorkerCommitInv DEF w
    <2>8. CASE driver' = [driver EXCEPT ![r].pc = "start", ![r].version = wf'.version,
                                        ![r].generation = wf'.generation]
        <3> DEFINE d == [driver[r] EXCEPT !.pc = "start", !.version = wf'.version,
                                          !.generation = wf'.generation]
        <3>1. wf'.version \in Nat /\ wf'.generation \in Nat
            BY <2>3, Facts
        <3>2. /\ d \in DriverRecord /\ d.pc = "start" /\ d.version = wf'.version
              /\ d.generation = wf'.generation /\ d.step = driver[r].step
              /\ d.aborted = driver[r].aborted
            BY <1>2, <3>1 DEF DriverRecord
        <3>3. driver' = [driver EXCEPT ![r] = d] /\ driver'[r] = d
            BY <2>8, Facts
        <3> HIDE DEF d
        <3>4. DriverAgrees(r)'
            BY <1>2, <2>1, <2>3, <3>1, <3>2, <3>3 DEF DriverAgrees, Executing, Workflow!Mine
        <3>5. OneExecutes'
            BY <3>2, <3>3, Facts, OneStillExecutes DEF Executing
        <3> QED BY <1>1, <1>3, <2>1, <2>2, <2>4, <2>5, <2>6, <3>2, <3>3, <3>4, <3>5, Facts,
                   WorkerCommitInv DEF w
    <2> QED BY <1>3, <2>7, <2>8
<1>4. CASE /\ wf.at = "runnable"
           /\ wf.step = driver[r].step /\ wf.generation = driver[r].generation
           /\ driver' = [driver EXCEPT ![r].version = wf.version]
           /\ UNCHANGED <<wf, ready, late>>
    BY <1>1, <1>4, ReadsAgainInv
<1>5. CASE Workflow!Rest(r) /\ UNCHANGED <<wf, ready, late>>
    BY <1>1, <1>5, GivesUpInv DEF Workflow!Rest
<1> QED BY <1>3, <1>4, <1>5 DEF Workflow!Claim

\* A claim becomes a start, whoever is told.
LEMMA StartCommits ==
    ASSUME WorkflowInv, wf.attempt = "claimed", Workflow!Commit(Workflow!Started(wf)),
           Workflow!CountStart,
           UNCHANGED <<plan, begun, ended, decisions, holder, command>>
    PROVE  /\ Workflow!Started(wf) \in RunRecord /\ Workflow!Started(wf).request = wf.request
           /\ wf' \in RunRecord /\ wf'.version = wf.version + 1
           /\ wf'.step = wf.step /\ wf'.generation = wf.generation /\ wf'.at = "running"
           /\ wf'.attempt = "started" /\ wf'.request = wf.request
           /\ wf'.outputs = wf.outputs
           /\ started' \in [Workflow!Steps -> Nat] /\ started'[wf.step] = 1
           /\ begun[wf.step] = 0 /\ ended[wf.step] = None /\ wf.step \notin wf.outputs
           /\ ~Workflow!Terminal(wf)
           /\ \A q \in Workers : CodeStays(q)
           /\ \A q \in Workers : driver[q].pc \in Executing => driver[q].step # wf.step
           /\ CursorAgrees' /\ StartsAgree' /\ OutputsAgree' /\ WaitsAgree'
<1> DEFINE w == Workflow!Started(wf)
<1>1. wf.at = "running" /\ wf.status = "RUNNING" /\ wf.request = None
      /\ started[wf.step] = 0
    BY Facts DEF CursorAgrees, StartsAgree
<1>2. /\ w \in RunRecord /\ w.status = wf.status /\ w.request = wf.request
      /\ w.step = wf.step /\ w.at = "running" /\ w.generation = wf.generation
      /\ w.attempt = "started" /\ w.outputs = wf.outputs /\ w.consumed = wf.consumed
    BY <1>1, Facts DEF Workflow!Started, RunRecord
<1> HIDE DEF w
<1>3. /\ wf' \in RunRecord /\ wf'.version = wf.version + 1
      /\ wf'.status = wf.status /\ wf'.request = wf.request /\ wf'.step = wf.step
      /\ wf'.at = "running" /\ wf'.generation = wf.generation
      /\ wf'.attempt = "started" /\ wf'.outputs = wf.outputs /\ wf'.consumed = wf.consumed
      /\ late' = None
    BY <1>2, Committed DEF w
<1>4. /\ started' \in [Workflow!Steps -> Nat] /\ started'[wf.step] = 1
      /\ \A s \in Workflow!Steps \ {wf.step} : started'[s] = started[s]
    BY <1>1, Facts DEF Workflow!CountStart
<1>5. begun[wf.step] = 0 /\ ended[wf.step] = None /\ wf.step \notin wf.outputs
    <2>1. begun[wf.step] = 0
        BY <1>1, Facts DEF StartsAgree
    <2>2. wf.outputs = 1..(wf.step - 1)
        BY <1>1, Facts DEF CursorAgrees
    <2> QED BY <2>1, <2>2, Facts DEF StartsAgree
<1>6. \A q \in Workers : driver[q].pc \in Executing => driver[q].step # wf.step
    BY <1>1, Underway
<1>7. \A q \in Workers : CodeStays(q)
    BY <1>3, <1>4, <1>6, Underway DEF CodeStays
<1>8. CursorAgrees'
    BY <1>1, <1>3, Facts DEF CursorAgrees
<1>9. StartsAgree'
    BY <1>1, <1>3, <1>4, <1>5, Facts DEF StartsAgree, Workflow!Steps
<1>10. OutputsAgree'
    BY <1>3, Facts DEF OutputsAgree, Workflow!Steps
<1>11. WaitsAgree'
    BY <1>3, WaitsRest
<1> QED BY <1>1, <1>2, <1>3, <1>4, <1>5, <1>6, <1>7, <1>8, <1>9, <1>10, <1>11
        DEF w, Workflow!Terminal

LEMMA ArriveLateInv ==
    ASSUME WorkflowInv, Workflow!ArriveLate
    PROVE  WorkflowInv'
<1>1. /\ Workflow!Commit(Workflow!Started(wf)) /\ Workflow!CountStart /\ late # None
      /\ UNCHANGED <<plan, begun, ended, decisions, holder, driver, command>>
    BY DEF Workflow!ArriveLate, Workflow!code
<1>2. wf.attempt = "claimed"
    BY <1>1, Facts DEF StartsAgree
<1>3. OneExecutes'
    BY <1>1, OneStillExecutes
<1> QED BY <1>1, <1>2, <1>3, StartCommits, Facts, CommitInv

LEMMA StartInv ==
    ASSUME WorkflowInv, NEW r \in Workers, Workflow!Start(r)
    PROVE  WorkflowInv'
<1>1. /\ driver[r].pc = "start" /\ UNCHANGED <<plan, begun, ended, decisions, holder, command>>
    BY DEF Workflow!Start, Workflow!At, Workflow!code
<1>2. DriverAgrees(r) /\ driver[r] \in DriverRecord
    BY Facts DEF WorkflowInv
<1>3. CASE /\ wf.version = driver[r].version
           /\ Workflow!Commit(Workflow!Started(wf)) /\ Workflow!CountStart
           /\ driver' = [driver EXCEPT ![r].pc = "dispatch", ![r].version = wf'.version]
    <2>1. Workflow!Mine(r) /\ wf.attempt = "claimed"
        BY <1>1, <1>2, <1>3 DEF DriverAgrees
    <2> DEFINE d == [driver[r] EXCEPT !.pc = "dispatch", !.version = wf'.version]
    <2>2. /\ Workflow!Started(wf) \in RunRecord /\ Workflow!Started(wf).request = wf.request
          /\ wf' \in RunRecord /\ wf'.version = wf.version + 1
          /\ wf'.step = wf.step /\ wf'.generation = wf.generation /\ wf'.at = "running"
          /\ wf'.attempt = "started" /\ wf'.request = wf.request /\ wf'.outputs = wf.outputs
          /\ started' \in [Workflow!Steps -> Nat] /\ started'[wf.step] = 1
          /\ begun[wf.step] = 0 /\ ended[wf.step] = None /\ wf.step \notin wf.outputs
          /\ ~Workflow!Terminal(wf)
          /\ \A q \in Workers : CodeStays(q)
          /\ \A q \in Workers : driver[q].pc \in Executing => driver[q].step # wf.step
          /\ CursorAgrees' /\ StartsAgree' /\ OutputsAgree' /\ WaitsAgree'
        BY <1>1, <1>3, <2>1, StartCommits
    <2>3. wf'.version \in Nat
        BY <2>2, Facts
    <2>4. /\ d \in DriverRecord /\ d.pc = "dispatch" /\ d.version = wf'.version
          /\ d.generation = driver[r].generation /\ d.step = driver[r].step
          /\ d.aborted = driver[r].aborted
        BY <1>2, <2>3 DEF DriverRecord
    <2>5. driver' = [driver EXCEPT ![r] = d] /\ driver'[r] = d
        BY <1>3, Facts
    <2> HIDE DEF d
    <2>6. /\ driver[r].step = wf.step /\ driver[r].generation = wf.generation
          /\ wf.step \in Workflow!Steps
        BY <2>1, Facts DEF Workflow!Mine
    <2>7. DriverAgrees(r)'
        BY <1>1, <1>2, <2>2, <2>3, <2>4, <2>5, <2>6
        DEF DriverAgrees, Executing, Workflow!Mine, Workflow!Steps
    <2>8. OneExecutes'
        BY <2>2, <2>4, <2>5, <2>6, Facts DEF OneExecutes, WorkflowInv
    <2> QED BY <1>1, <1>3, <2>2, <2>4, <2>5, <2>7, <2>8, WorkerCommitInv
<1>4. CASE /\ wf.version = driver[r].version
           /\ late' = [version |-> wf.version, by |-> r]
           /\ driver' = driver \/ Workflow!Goto(r, "settle")
           /\ UNCHANGED <<wf, ready, started>>
    <2>1. wf.attempt = "claimed"
        BY <1>1, <1>2, <1>4 DEF DriverAgrees
    <2>2. /\ late' \in [version : Nat, by : Workers] /\ late'.version = wf.version
        BY <1>4, Facts
    <2>3. driver' = driver \/ driver' = [driver EXCEPT ![r].pc = "settle"]
        BY <1>4 DEF Workflow!Goto
    <2>4. driver' \in [Workers -> DriverRecord]
        <3>1. [driver[r] EXCEPT !.pc = "settle"] \in DriverRecord
            BY <1>2 DEF DriverRecord
        <3> QED BY <2>3, <3>1, Facts
    <2>5. WorkflowType'
        BY <1>1, <1>4, <2>2, <2>4 DEF WorkflowInv, WorkflowType, RunRecord, Workflow!Steps
    <2>6. StartsAgree'
        BY <1>1, <1>4, <2>1, <2>2, Facts DEF StartsAgree, Workflow!Steps
    <2>7. CursorAgrees' /\ OutputsAgree' /\ WaitsAgree' /\ ready' = Workflow!Expected(wf)'
        BY <1>1, <1>4
        DEF WorkflowInv, CursorAgrees, OutputsAgree, WaitsAgree, Accepted, Workflow!Steps,
           Workflow!Expected
    <2>8. \A q \in Workers : CodeStays(q)
        BY <1>1, <1>4, Underway DEF CodeStays
    <2>9. \A q \in Workers : driver'[q] = driver[q] => DriverAgrees(q)'
        BY <1>1, <1>4, <2>8, DriverRests
    <2>10. driver'[r] = driver[r] \/ DriverAgrees(r)'
        <3> SUFFICES ASSUME driver' = [driver EXCEPT ![r].pc = "settle"] PROVE DriverAgrees(r)'
            BY <2>3
        <3>1. driver'[r].pc = "settle" /\ driver'[r].version = driver[r].version
              /\ driver'[r].aborted = driver[r].aborted
            BY <1>2, Facts DEF DriverRecord
        <3> QED BY <1>2, <1>4, <3>1 DEF DriverAgrees, Executing
    <2>11. \A q \in Workers : DriverAgrees(q)'
        BY <2>3, <2>9, <2>10, Facts
    <2>12. OneExecutes'
        <3>1. \A q \in Workers : driver'[q].pc \in Executing =>
                  driver[q].pc \in Executing /\ driver'[q].step = driver[q].step
            <4>1. driver' = [driver EXCEPT ![r].pc = "settle"] => driver'[r].pc = "settle"
                BY <1>2, Facts DEF DriverRecord
            <4> QED BY <2>3, <4>1, Facts DEF Executing
        <3> QED BY <3>1, OneStillExecutes
    <2>13. \A k \in Senders : CommandAgrees(k)'
        BY <1>1, <1>4, CallRests
    <2> QED BY <2>5, <2>6, <2>7, <2>11, <2>12, <2>13 DEF WorkflowInv
<1>5. CASE /\ CASE ~Workflow!Mine(r) -> Workflow!Rest(r)
                [] Workflow!Mine(r) /\ wf.attempt = "started" -> Workflow!Goto(r, "settle")
                [] OTHER -> \/ driver' = [driver EXCEPT ![r].version = wf.version]
                            \/ Workflow!Goto(r, "settle")
           /\ UNCHANGED <<wf, ready, late, started>>
    <2>1. \/ driver' = [driver EXCEPT ![r] = Workflow!Idle]
          \/ driver' = [driver EXCEPT ![r].pc = "settle"]
          \/ /\ driver' = [driver EXCEPT ![r].version = wf.version]
             /\ Workflow!Mine(r) /\ wf.attempt # "started"
        BY <1>5 DEF Workflow!Rest, Workflow!Goto
    <2>2. Workflow!Mine(r) /\ wf.attempt # "started" => wf.attempt = "claimed"
        BY Facts DEF Workflow!Mine, CursorAgrees
    <2> QED BY <1>1, <1>5, <2>1, <2>2, GivesUpInv, ReadsAgainInv
<1> QED BY <1>3, <1>4, <1>5 DEF Workflow!Start

\* The run takes the terminal of its current step.
LEMMA TerminalCommits ==
    ASSUME WorkflowInv, NEW ending \in {"completed", "failed", "cancelled"},
           wf.attempt = "started" \/ wf.at = "uncertain",
           begun[wf.step] = 1,
           ended[wf.step] = ending \/ (ended[wf.step] = None /\ ending # "cancelled"),
           \A q \in Workers : driver[q].pc \in {"dispatch", "execute"} =>
               driver[q].step # wf.step,
           Workflow!Commit(Workflow!Terminated(wf, ending)),
           UNCHANGED <<plan, begun, ended, decisions, started>>
    PROVE  /\ Workflow!Terminated(wf, ending) \in RunRecord
           /\ Workflow!Terminated(wf, ending).request = wf.request
           /\ ~Workflow!Terminal(wf) /\ wf'.version \in Nat
           /\ \A q \in Workers : CodeStays(q)
           /\ CursorAgrees' /\ StartsAgree' /\ OutputsAgree' /\ WaitsAgree'
<1> DEFINE w2 == [wf EXCEPT !.attempt = IF @ = "started" THEN "ended" ELSE @]
           w == Workflow!Terminated(wf, ending)
<1>1. /\ wf.at \in {"running", "uncertain"} /\ plan[wf.step] = "activity"
      /\ wf.outputs = 1..(wf.step - 1) /\ ~Workflow!Terminal(wf) /\ wf.at # "completed"
      /\ wf.attempt # "claimed"
    BY Facts DEF CursorAgrees, Workflow!Terminal
<1>2. /\ w2 \in RunRecord /\ w2.attempt \notin {"claimed", "started"}
      /\ w2.step = wf.step /\ w2.outputs = wf.outputs /\ w2.request = wf.request
      /\ w2.consumed = wf.consumed /\ w2.version = wf.version /\ w2.generation = wf.generation
    BY <1>1, Facts DEF RunRecord
<1>3. \/ w = Workflow!Advanced(w2) /\ ending = "completed" /\ ~Workflow!Suppressed(wf)
      \/ w = [w2 EXCEPT !.status = "FAILED", !.at = "failed"]
      \/ w = [w2 EXCEPT !.status = "CANCELLED", !.at = "cancelled"]
    BY DEF Workflow!Terminated
<1>4. Workflow!Commit(w)
    OBVIOUS
<1> HIDE DEF w2, w
<1>5. ASSUME NEW at \in {"failed", "cancelled"}, NEW status \in {"FAILED", "CANCELLED"},
             at = "failed" <=> status = "FAILED",
             w = [w2 EXCEPT !.status = status, !.at = at]
      PROVE  /\ w \in RunRecord /\ w.request = wf.request
             /\ CursorAgrees' /\ StartsAgree' /\ OutputsAgree'
             /\ wf'.outputs = wf.outputs /\ wf'.consumed = wf.consumed
    <2>1. /\ w \in RunRecord /\ w.status = status /\ w.at = at /\ w.attempt = w2.attempt
          /\ w.step = wf.step /\ w.outputs = wf.outputs /\ w.request = wf.request
          /\ w.consumed = wf.consumed
        BY <1>2, <1>5 DEF RunRecord
    <2>2. /\ wf'.status = status /\ wf'.at = at /\ wf'.attempt \notin {"claimed", "started"}
          /\ wf'.step = wf.step /\ wf'.outputs = wf.outputs /\ wf'.request = wf.request
          /\ wf'.consumed = wf.consumed /\ late' = None
        BY <1>2, <1>4, <2>1, Committed
    <2>3. CursorAgrees'
        BY <1>1, <1>5, <2>2 DEF CursorAgrees
    <2>4. StartsAgree'
        BY <1>5, <2>2, Facts DEF StartsAgree, Workflow!Steps
    <2>5. OutputsAgree'
        BY <2>2, Facts DEF OutputsAgree, Workflow!Steps
    <2> QED BY <2>1, <2>2, <2>3, <2>4, <2>5
<1>6. ASSUME w = Workflow!Advanced(w2), ending = "completed", ~Workflow!Suppressed(wf)
      PROVE  /\ w \in RunRecord /\ w.request = wf.request
             /\ CursorAgrees' /\ StartsAgree' /\ OutputsAgree'
             /\ wf'.outputs = wf.outputs \cup {wf.step} /\ wf'.consumed = wf.consumed
    <2>1. wf.request = None \/ wf.step = Len(plan)
        BY <1>6, Facts DEF Workflow!Suppressed
    <2>2. w \in RunRecord /\ w.request = wf.request
        BY <1>2, <1>6, AdvancedIs
    <2>3. Workflow!Commit(Workflow!Advanced(w2))
        BY <1>4, <1>6
    <2>4. \A s \in Workflow!Steps : wf.consumed[s] # None => w2.consumed[s] # None
        BY <1>2
    <2>5. IF plan[wf.step] = "activity"
          THEN begun[wf.step] = 1 /\ ended[wf.step] \in {None, "completed"}
          ELSE plan[wf.step] = "timer" \/ w2.consumed[wf.step] # None
        BY <1>1, <1>6
    <2>6. /\ CursorAgrees' /\ StartsAgree' /\ OutputsAgree'
          /\ wf'.outputs = wf.outputs \cup {wf.step} /\ wf'.consumed = wf.consumed
        <3>1. UNCHANGED <<plan, begun, ended, started>>
            OBVIOUS
        <3>2. /\ CursorAgrees' /\ StartsAgree' /\ OutputsAgree'
              /\ wf'.outputs = wf.outputs \cup {wf.step} /\ wf'.consumed = w2.consumed
            BY ONLY WorkflowInv, <1>1, <1>2, <2>1, <2>3, <2>4, <2>5, <3>1, AdvanceCommits
        <3> QED BY <1>2, <3>2
    <2> QED BY <2>2, <2>6
<1>7. /\ w \in RunRecord /\ w.request = wf.request
      /\ CursorAgrees' /\ StartsAgree' /\ OutputsAgree'
      /\ wf'.outputs \in {wf.outputs, wf.outputs \cup {wf.step}} /\ wf'.consumed = wf.consumed
    <2>1. CASE w = [w2 EXCEPT !.status = "FAILED", !.at = "failed"]
        BY <1>5, <2>1
    <2>2. CASE w = [w2 EXCEPT !.status = "CANCELLED", !.at = "cancelled"]
        BY <1>5, <2>2
    <2> QED BY <1>3, <1>6, <2>1, <2>2
<1>8. WaitsAgree'
    BY <1>7, WaitsRest
<1>9. \A q \in Workers : CodeStays(q)
    BY <1>7, Underway DEF CodeStays, Executing
<1>10. wf'.version \in Nat
    BY <1>4, <1>7, Committed, Facts
<1> QED BY <1>1, <1>7, <1>8, <1>9, <1>10 DEF w

LEMMA FinishInv ==
    ASSUME WorkflowInv, NEW r \in Workers, Workflow!Finish(r)
    PROVE  WorkflowInv'
<1>1. /\ driver[r].pc = "finish"
      /\ UNCHANGED <<plan, begun, ended, decisions, started, holder, command>>
    BY DEF Workflow!Finish, Workflow!At, Workflow!code
<1>2. DriverAgrees(r) /\ driver[r] \in DriverRecord
    BY Facts DEF WorkflowInv
<1>3. CASE /\ wf.version = driver[r].version
           /\ Workflow!Commit(Workflow!Terminated(wf, driver[r].outcome)) /\ Workflow!Rest(r)
    <2> DEFINE ending == driver[r].outcome
    <2>1. /\ Workflow!Mine(r) /\ wf.attempt = "started" /\ begun[wf.step] = 1
          /\ ended[wf.step] = ending /\ ending \in {"completed", "failed", "cancelled"}
          /\ driver[r].step = wf.step
        BY <1>1, <1>2, <1>3 DEF DriverAgrees, Executing, Workflow!Mine, Endings
    <2>2. \A q \in Workers : driver[q].pc \in {"dispatch", "execute"} =>
              driver[q].step # wf.step
        BY <1>1, <2>1 DEF WorkflowInv, OneExecutes, Executing
    <2>3. Workflow!Commit(Workflow!Terminated(wf, ending))
        BY <1>3
    <2> HIDE DEF ending
    <2>4. /\ Workflow!Terminated(wf, ending) \in RunRecord
          /\ Workflow!Terminated(wf, ending).request = wf.request
          /\ ~Workflow!Terminal(wf) /\ wf'.version \in Nat
          /\ \A q \in Workers : CodeStays(q)
          /\ CursorAgrees' /\ StartsAgree' /\ OutputsAgree' /\ WaitsAgree'
        BY <1>1, <2>1, <2>2, <2>3, TerminalCommits
    <2>5. driver' = [driver EXCEPT ![r] = Workflow!Idle] /\ driver'[r] = Workflow!Idle
        BY <1>3, Facts DEF Workflow!Rest
    <2>6. DriverAgrees(r)'
        BY <2>4, <2>5, RestAgrees
    <2>7. OneExecutes'
        BY <2>5, AtRest, Facts, OneStillExecutes DEF Executing
    <2>8. started' \in [Workflow!Steps -> Nat]
        BY <1>1, Facts
    <2> QED BY <1>1, <2>3, <2>4, <2>5, <2>6, <2>7, <2>8, AtRest, WorkerCommitInv
<1>4. CASE Workflow!Goto(r, "settle") /\ UNCHANGED <<wf, ready, late>>
    BY <1>1, <1>4, GivesUpInv DEF Workflow!Goto
<1>5. CASE /\ IF Workflow!Mine(r) /\ wf.attempt = "started"
              THEN driver' = [driver EXCEPT ![r].version = wf.version]
              ELSE Workflow!Rest(r)
           /\ UNCHANGED <<wf, ready, late>>
    BY <1>1, <1>5, GivesUpInv, ReadsAgainInv DEF Workflow!Rest
<1> QED BY <1>3, <1>4, <1>5 DEF Workflow!Finish

LEMMA SettleInv ==
    ASSUME WorkflowInv, NEW r \in Workers, Workflow!Settle(r)
    PROVE  WorkflowInv'
<1>1. /\ UNCHANGED <<plan, begun, ended, decisions, started, holder, command>>
      /\ driver' = [driver EXCEPT ![r] = Workflow!Idle]
    BY DEF Workflow!Settle, Workflow!Rest, Workflow!code
<1>2. CASE UNCHANGED <<wf, ready, late>>
    BY <1>1, <1>2, GivesUpInv
<1>3. CASE /\ Workflow!Mine(r) /\ wf.attempt \in {"claimed", "started"}
           /\ Workflow!Commit(IF wf.attempt = "claimed" THEN Workflow!Released(wf)
                                                         ELSE Workflow!Uncertain(wf))
    <2> DEFINE w == IF wf.attempt = "claimed" THEN Workflow!Released(wf) ELSE Workflow!Uncertain(wf)
    <2>1. wf.at = "running" /\ wf.status = "RUNNING" /\ plan[wf.step] = "activity"
          /\ wf.outputs = 1..(wf.step - 1)
        BY <1>3, Facts DEF CursorAgrees, Workflow!Mine
    <2>2. /\ w \in RunRecord /\ w.request = wf.request
          /\ w.step = wf.step /\ w.outputs = wf.outputs /\ w.consumed = wf.consumed
          /\ w.attempt = "abandoned"
          /\ w.status = IF wf.attempt = "claimed" THEN "RUNNING" ELSE "BLOCKED"
          /\ w.at = IF wf.attempt = "claimed" THEN "runnable" ELSE "uncertain"
        BY <2>1, Facts DEF Workflow!Released, Workflow!Uncertain, RunRecord
    <2>3. Workflow!Commit(w)
        BY <1>3
    <2> HIDE DEF w
    <2>4. /\ wf'.request = wf.request
          /\ wf'.step = wf.step /\ wf'.outputs = wf.outputs /\ wf'.consumed = wf.consumed
          /\ wf'.attempt = "abandoned"
          /\ wf'.status = IF wf.attempt = "claimed" THEN "RUNNING" ELSE "BLOCKED"
          /\ wf'.at = IF wf.attempt = "claimed" THEN "runnable" ELSE "uncertain"
          /\ late' = None /\ wf'.version \in Nat
        BY <1>1, <2>2, <2>3, Committed, Facts
    <2>5. CursorAgrees'
        BY <1>1, <2>1, <2>4, Facts DEF CursorAgrees
    <2>6. StartsAgree'
        BY <1>1, <1>3, <2>4, Facts DEF StartsAgree, Workflow!Steps
    <2>7. OutputsAgree'
        BY <1>1, <2>4, Facts DEF OutputsAgree, Workflow!Steps
    <2>8. WaitsAgree'
        BY <1>1, <2>4, WaitsRest
    <2>9. \A q \in Workers : CodeStays(q)
        BY <1>1, <2>4, Underway DEF CodeStays
    <2>10. driver'[r] = Workflow!Idle
        BY <1>1, Facts
    <2>11. DriverAgrees(r)'
        BY <2>4, <2>10, RestAgrees
    <2>12. OneExecutes'
        BY <1>1, <2>10, AtRest, Facts, OneStillExecutes DEF Executing
    <2>13. started' \in [Workflow!Steps -> Nat] /\ ~Workflow!Terminal(wf)
        BY <1>1, <2>1, Facts DEF Workflow!Terminal
    <2> QED BY <1>1, <2>2, <2>3, <2>5, <2>6, <2>7, <2>8, <2>9, <2>11, <2>12, <2>13, AtRest,
               WorkerCommitInv
<1> QED BY <1>2, <1>3 DEF Workflow!Settle

LEMMA FireInv ==
    ASSUME WorkflowInv, NEW r \in Workers, Workflow!Fire(r)
    PROVE  WorkflowInv'
<1>1. /\ UNCHANGED <<plan, begun, ended, decisions, started, holder, command>>
      /\ driver' = [driver EXCEPT ![r] = Workflow!Idle]
    BY DEF Workflow!Fire, Workflow!Rest, Workflow!code
<1>2. CASE UNCHANGED <<wf, ready, late>>
    BY <1>1, <1>2, GivesUpInv
<1>3. CASE wf.at = "timer" /\ wf.status = "RUNNING" /\ Workflow!Commit(Workflow!Advanced(wf))
    <2>1. /\ plan[wf.step] = "timer" /\ wf.request = None /\ started[wf.step] = 0
          /\ wf.attempt \notin {"claimed", "started"} /\ wf.at # "completed"
        BY <1>3, Facts DEF CursorAgrees, StartsAgree
    <2>2. Workflow!Advanced(wf) \in RunRecord /\ Workflow!Advanced(wf).request = wf.request
        BY Facts, AdvancedIs
    <2>3. /\ CursorAgrees' /\ StartsAgree' /\ OutputsAgree'
          /\ wf'.outputs = wf.outputs \cup {wf.step} /\ wf'.consumed = wf.consumed
        BY <1>1, <1>3, <2>1, Facts, AdvanceCommits
    <2>4. wf'.version \in Nat
        BY <1>1, <1>3, <2>2, Committed, Facts
    <2>5. WaitsAgree'
        BY <1>1, <2>3, WaitsRest
    <2>6. \A q \in Workers : CodeStays(q)
        BY <1>1, <2>1, <2>3, Underway DEF CodeStays
    <2>7. driver'[r] = Workflow!Idle
        BY <1>1, Facts
    <2>8. DriverAgrees(r)'
        BY <2>4, <2>7, RestAgrees
    <2>9. OneExecutes'
        BY <1>1, <2>7, AtRest, Facts, OneStillExecutes DEF Executing
    <2>10. started' \in [Workflow!Steps -> Nat] /\ ~Workflow!Terminal(wf)
        BY <1>1, <1>3, Facts DEF Workflow!Terminal
    <2> QED BY <1>1, <1>3, <2>2, <2>3, <2>5, <2>6, <2>8, <2>9, <2>10, AtRest, WorkerCommitInv
<1> QED BY <1>2, <1>3 DEF Workflow!Fire

LEMMA ReconcileInv ==
    ASSUME WorkflowInv, Workflow!Reconcile
    PROVE  WorkflowInv'
<1>1. /\ UNCHANGED <<plan, begun, ended, decisions, started, holder, driver, command>>
      /\ wf.at = "uncertain"
    BY DEF Workflow!Reconcile, Workflow!code
<1>2. PICK ending \in {"completed", "failed", "cancelled"} :
        /\ begun[wf.step] > 0
        /\ \A r \in Workers : driver[r].pc = "execute" => driver[r].step # wf.step
        /\ ended[wf.step] = ending \/ (ended[wf.step] = None /\ ending # "cancelled")
        /\ Workflow!Commit(Workflow!Terminated(wf, ending))
    BY DEF Workflow!Reconcile, Workflow!At
<1>3. begun[wf.step] = 1
    BY <1>2, Facts DEF StartsAgree
<1>4. \A q \in Workers : driver[q].pc \in {"dispatch", "execute"} => driver[q].step # wf.step
    BY <1>2, <1>3, Underway DEF Executing
<1>5. /\ Workflow!Terminated(wf, ending) \in RunRecord
      /\ Workflow!Terminated(wf, ending).request = wf.request
      /\ ~Workflow!Terminal(wf)
      /\ \A q \in Workers : CodeStays(q)
      /\ CursorAgrees' /\ StartsAgree' /\ OutputsAgree' /\ WaitsAgree'
    BY <1>1, <1>2, <1>3, <1>4, TerminalCommits
<1>6. OneExecutes'
    BY <1>1, OneStillExecutes
<1> QED BY <1>1, <1>2, <1>5, <1>6, Facts, CommitInv
-----------------------------------------------------------------------------
(***************************************************************************)
(* The transactions of the callers.                                        *)
(***************************************************************************)
LEMMA CommandAnswerType ==
    ASSUME NEW c \in CallRecord, NEW a \in Answers
    PROVE  /\ Workflow!Answer(c, a) \in CallRecord
           /\ Workflow!Answer(c, a).pc = "answered" /\ Workflow!Answer(c, a).answer = a
           /\ Workflow!Answer(c, a).id = c.id /\ Workflow!Answer(c, a).signal = c.signal
<1> SUFFICES ASSUME NEW e, e = Workflow!Answer(c, a)
             PROVE  /\ e \in CallRecord
                    /\ e.pc = "answered" /\ e.answer = a
                    /\ e.id = c.id /\ e.signal = c.signal
    OBVIOUS
<1>1. e = [pc |-> "answered", op |-> c.op, id |-> c.id, signal |-> c.signal,
           via |-> None, version |-> 0, verdict |-> None, port |-> None, answer |-> a]
    BY DEF Workflow!Answer, CallRecord
<1>2. /\ c.op \in {None, "deliver", "cancel"} /\ c.id \in Ids \cup {None}
      /\ c.signal \in Signals \cup {None}
    BY DEF CallRecord
<1> QED BY <1>1, <1>2 DEF CallRecord

\* A decision that is written meets the wait it is for, when it is accepted.
LEMMA DecisionCommits ==
    ASSUME WorkflowInv, NEW id \in Deliveries, NEW signal \in Signals, NEW verdict \in Verdicts,
           verdict = Workflow!Verdict(wf, signal), decisions[id] = None,
           Workflow!Commit(IF verdict = "accepted" THEN Workflow!Consumed(wf, id) ELSE wf),
           decisions' = [decisions EXCEPT ![id] = [signal |-> signal, verdict |-> verdict]],
           UNCHANGED <<plan, begun, ended, started>>
    PROVE  \E w \in RunRecord :
              /\ Workflow!Commit(w) /\ w.request = wf.request
              /\ Workflow!Terminal(wf) => Workflow!Terminal(w)
              /\ \A q \in Workers : CodeStays(q)
              /\ CursorAgrees' /\ StartsAgree' /\ OutputsAgree' /\ WaitsAgree'
<1>1. None \notin Deliveries /\ None \notin Decision
    BY WorkflowAssumed DEF WorkflowAssumptions, Decision
<1> DEFINE decision == [signal |-> signal, verdict |-> verdict]
<1>2. /\ decision \in Decision /\ decision # None
      /\ decision.signal = signal /\ decision.verdict = verdict
    BY <1>1 DEF Decision
<1>3. decisions' = [decisions EXCEPT ![id] = decision]
    OBVIOUS
<1> HIDE DEF decision
<1>4. decisions'[id] = decision /\ \A d \in Deliveries \ {id} : decisions'[d] = decisions[d]
    BY <1>3, Facts
<1>5. Accepted(id)' <=> verdict = "accepted"
    BY <1>2, <1>4 DEF Accepted
<1>6. ~Accepted(id) /\ \A d \in Deliveries \ {id} : Accepted(d)' <=> Accepted(d)
    BY <1>4 DEF Accepted
<1>7. CASE verdict = "accepted"
    <2> DEFINE w0 == [wf EXCEPT !.consumed[wf.step] = id]
    <2>1. wf.status = "RUNNING" /\ wf.at = "signal" /\ plan[wf.step] = signal
        BY <1>7 DEF Workflow!Verdict
    <2>2. /\ plan[wf.step] \notin {"activity", "timer"} /\ wf.request = None
          /\ started[wf.step] = 0 /\ wf.attempt \notin {"claimed", "started"}
          /\ wf.at # "completed" /\ wf.outputs = 1..(wf.step - 1)
        BY <2>1, Facts DEF CursorAgrees, StartsAgree
    <2>3. wf.step \notin wf.outputs /\ wf.consumed[wf.step] = None
        BY <2>2, Facts DEF WaitsAgree
    <2>4. /\ w0 \in RunRecord /\ w0.step = wf.step /\ w0.outputs = wf.outputs
          /\ w0.request = wf.request /\ w0.attempt = wf.attempt
          /\ w0.consumed = [wf.consumed EXCEPT ![wf.step] = id]
        <3> DEFINE consumed == [wf.consumed EXCEPT ![wf.step] = id]
        <3>1. /\ consumed \in [Workflow!Steps -> Deliveries \cup {None}]
              /\ w0 = [wf EXCEPT !.consumed = consumed]
            BY Facts
        <3> HIDE DEF consumed, w0
        <3>2. /\ w0 \in RunRecord /\ w0.step = wf.step /\ w0.outputs = wf.outputs
              /\ w0.request = wf.request /\ w0.attempt = wf.attempt
              /\ w0.consumed = consumed
            BY <3>1, Facts DEF RunRecord
        <3> QED BY <3>2 DEF consumed
    <2>5. Workflow!Commit(Workflow!Advanced(w0))
        BY <1>7 DEF Workflow!Consumed
    <2> HIDE DEF w0
    <2>6. w0.consumed[wf.step] = id
              /\ \A s \in Workflow!Steps \ {wf.step} : w0.consumed[s] = wf.consumed[s]
        BY <2>4, Facts
    <2>7. \A s \in Workflow!Steps : wf.consumed[s] # None => w0.consumed[s] # None
        BY <2>3, <2>6
    <2>8. w0.consumed[wf.step] # None
        BY <1>1, <2>6
    <2>9. /\ CursorAgrees' /\ StartsAgree' /\ OutputsAgree'
          /\ wf'.outputs = wf.outputs \cup {wf.step} /\ wf'.consumed = w0.consumed
        BY <2>2, <2>4, <2>5, <2>7, <2>8, AdvanceCommits
    <2>10. Workflow!Advanced(w0) \in RunRecord /\ Workflow!Advanced(w0).request = wf.request
        BY <2>4, AdvancedIs
    <2>11. Workflow!Steps' = Workflow!Steps /\ wf.step \in Workflow!Steps
        BY Facts DEF Workflow!Steps
    <2>12. WaitsAgree'
        <3>1. \A d \in Deliveries : Accepted(d)' => \E s \in Workflow!Steps : wf'.consumed[s] = d
            <4> SUFFICES ASSUME NEW d \in Deliveries, Accepted(d)'
                         PROVE \E s \in Workflow!Steps : wf'.consumed[s] = d
                OBVIOUS
            <4>1. CASE d = id
                BY <2>6, <2>9, <2>11, <4>1
            <4>2. CASE d # id
                <5>1. PICK s \in Workflow!Steps : wf.consumed[s] = d
                    BY <1>6, <4>2, Facts DEF WaitsAgree
                <5> QED BY <1>1, <2>3, <2>6, <2>9, <5>1
            <4> QED BY <4>1, <4>2
        <3>2. \A s \in Workflow!Steps : wf'.consumed[s] # None =>
                  /\ s \in wf'.outputs
                  /\ decisions'[wf'.consumed[s]] # None
                  /\ decisions'[wf'.consumed[s]].verdict = "accepted"
                  /\ decisions'[wf'.consumed[s]].signal = plan[s]
            <4> SUFFICES ASSUME NEW s \in Workflow!Steps, wf'.consumed[s] # None
                         PROVE /\ s \in wf'.outputs
                               /\ decisions'[wf'.consumed[s]] # None
                               /\ decisions'[wf'.consumed[s]].verdict = "accepted"
                               /\ decisions'[wf'.consumed[s]].signal = plan[s]
                OBVIOUS
            <4>1. CASE s = wf.step
                BY <1>2, <1>4, <1>7, <2>1, <2>6, <2>9, <4>1
            <4>2. CASE s # wf.step
                <5>1. wf'.consumed[s] = wf.consumed[s] /\ wf.consumed[s] # None
                    BY <2>6, <2>9, <4>2
                <5>2. /\ s \in wf.outputs /\ Accepted(wf.consumed[s])
                      /\ decisions[wf.consumed[s]].signal = plan[s]
                      /\ wf.consumed[s] \in Deliveries
                    BY <5>1, Facts DEF WaitsAgree
                <5>3. wf.consumed[s] \in Deliveries \ {id}
                    BY <1>6, <5>2
                <5> QED BY <1>4, <2>9, <5>1, <5>2, <5>3 DEF Accepted
            <4> QED BY <4>1, <4>2
        <3>3. \A s, t \in Workflow!Steps :
                  wf'.consumed[s] = wf'.consumed[t] /\ wf'.consumed[s] # None => s = t
            <4>1. \A s \in Workflow!Steps : wf.consumed[s] # id
                BY <1>1, <1>6, Facts DEF WaitsAgree
            <4>2. \A s, t \in Workflow!Steps :
                      wf.consumed[s] = wf.consumed[t] /\ wf.consumed[s] # None => s = t
                BY Facts DEF WaitsAgree
            <4> QED BY <2>6, <2>9, <4>1, <4>2
        <3> QED BY <2>11, <3>1, <3>2, <3>3 DEF WaitsAgree, Accepted
    <2>13. \A q \in Workers : CodeStays(q)
        BY <2>2, <2>9, Underway DEF CodeStays
    <2>14. ~Workflow!Terminal(wf)
        BY <2>1 DEF Workflow!Terminal
    <2> QED BY <2>5, <2>9, <2>10, <2>12, <2>13, <2>14
<1>8. CASE verdict # "accepted"
    <2>1. Workflow!Commit(wf)
        BY <1>8
    <2>2. /\ wf'.status = wf.status /\ wf'.request = wf.request /\ wf'.step = wf.step
          /\ wf'.at = wf.at /\ wf'.attempt = wf.attempt
          /\ wf'.outputs = wf.outputs /\ wf'.consumed = wf.consumed /\ late' = None
        BY <2>1, Facts, Committed
    <2>3. CursorAgrees'
        BY <2>2, Facts DEF CursorAgrees
    <2>4. StartsAgree'
        BY <2>2, Facts DEF StartsAgree, Workflow!Steps
    <2>5. OutputsAgree'
        BY <2>2, Facts DEF OutputsAgree, Workflow!Steps
    <2>6. WaitsAgree'
        <3>1. Workflow!Steps' = Workflow!Steps
            BY DEF Workflow!Steps
        <3>2. \A d \in Deliveries : Accepted(d)' => \E s \in Workflow!Steps : wf'.consumed[s] = d
            BY <1>5, <1>6, <1>8, <2>2, Facts DEF WaitsAgree
        <3>3. \A s \in Workflow!Steps : wf'.consumed[s] # None =>
                  /\ s \in wf'.outputs
                  /\ decisions'[wf'.consumed[s]] # None
                  /\ decisions'[wf'.consumed[s]].verdict = "accepted"
                  /\ decisions'[wf'.consumed[s]].signal = plan[s]
            <4> SUFFICES ASSUME NEW s \in Workflow!Steps, wf.consumed[s] # None
                         PROVE /\ s \in wf.outputs
                               /\ decisions'[wf.consumed[s]] # None
                               /\ decisions'[wf.consumed[s]].verdict = "accepted"
                               /\ decisions'[wf.consumed[s]].signal = plan[s]
                BY <2>2
            <4>1. /\ s \in wf.outputs /\ Accepted(wf.consumed[s])
                  /\ decisions[wf.consumed[s]].signal = plan[s]
                  /\ wf.consumed[s] \in Deliveries
                BY Facts DEF WaitsAgree
            <4>2. wf.consumed[s] \in Deliveries \ {id}
                BY <1>6, <4>1
            <4> QED BY <1>4, <4>1, <4>2 DEF Accepted
        <3>4. \A s, t \in Workflow!Steps :
                  wf'.consumed[s] = wf'.consumed[t] /\ wf'.consumed[s] # None => s = t
            BY <2>2, Facts DEF WaitsAgree
        <3> QED BY <3>1, <3>2, <3>3, <3>4 DEF WaitsAgree, Accepted
    <2>7. \A q \in Workers : CodeStays(q)
        BY <2>2, Underway DEF CodeStays
    <2> QED BY <2>1, <2>3, <2>4, <2>5, <2>6, <2>7, Facts
<1> QED BY <1>7, <1>8

LEMMA WriteDecisionInv ==
    ASSUME WorkflowInv, NEW k \in Senders, Workflow!WriteDecision(k)
    PROVE  WorkflowInv'
<1> DEFINE c == command[k]
<1>1. /\ c.pc = "write" /\ c.op = "deliver"
      /\ UNCHANGED <<plan, begun, ended, started, holder, driver>>
    BY DEF Workflow!WriteDecision, Workflow!code
<1>2. CommandAgrees(k) /\ c \in CallRecord
    BY Facts DEF WorkflowInv
<1>3. c.id \in Deliveries \cap Ids /\ c.signal \in Signals /\ c.verdict \in Verdicts
    BY <1>1, <1>2 DEF CommandAgrees
<1>4. CASE /\ wf.version = c.version /\ decisions[c.id] = None
           /\ Workflow!Commit(IF c.verdict = "accepted" THEN Workflow!Consumed(wf, c.id) ELSE wf)
           /\ decisions' = [decisions EXCEPT ![c.id] =
                 [signal |-> c.signal, verdict |-> c.verdict]]
           /\ \/ command' = [command EXCEPT ![k] = Workflow!Answer(c, c.verdict)]
              \/ command' = [command EXCEPT ![k] = Workflow!Answer(c, "unknown")]
    <2>1. c.verdict = Workflow!Verdict(wf, c.signal)
        BY <1>1, <1>2, <1>4 DEF CommandAgrees
    <2>2. PICK w \in RunRecord :
              /\ Workflow!Commit(w) /\ w.request = wf.request
              /\ Workflow!Terminal(wf) => Workflow!Terminal(w)
              /\ \A q \in Workers : CodeStays(q)
              /\ CursorAgrees' /\ StartsAgree' /\ OutputsAgree' /\ WaitsAgree'
        BY <1>1, <1>3, <1>4, <2>1, DecisionCommits
    <2>3. [signal |-> c.signal, verdict |-> c.verdict] \in Decision
        BY <1>3 DEF Decision
    <2>4. /\ decisions' \in [Deliveries -> Decision \cup {None}]
          /\ decisions'[c.id] = [signal |-> c.signal, verdict |-> c.verdict]
          /\ \A d \in Deliveries : decisions[d] # None => decisions'[d] = decisions[d]
        BY <1>3, <1>4, <2>3, Facts
    <2>5. c.verdict \in Answers /\ "unknown" \in Answers
        BY <1>3 DEF Answers
    <2>6. PICK a \in {c.verdict, "unknown"} :
              command' = [command EXCEPT ![k] = Workflow!Answer(c, a)]
        BY <1>4
    <2>7. /\ Workflow!Answer(c, a) \in CallRecord
          /\ Workflow!Answer(c, a).pc = "answered" /\ Workflow!Answer(c, a).answer = a
          /\ Workflow!Answer(c, a).id = c.id /\ Workflow!Answer(c, a).signal = c.signal
        BY <1>2, <2>5, CommandAnswerType
    <2>8. command'[k] = Workflow!Answer(c, a) /\ command' \in [Senders -> CallRecord]
          /\ \A j \in Senders \ {k} : command'[j] = command[j]
        BY <2>6, <2>7, Facts
    <2> HIDE DEF c
    <2>9. None \notin Decision
        BY WorkflowAssumed DEF WorkflowAssumptions, Decision
    <2>10. CommandAgrees(k)'
        BY <1>3, <2>3, <2>4, <2>7, <2>8, <2>9 DEF CommandAgrees, Verdicts
    <2>11. OneExecutes'
        BY <1>1, OneStillExecutes
    <2>12. started' \in [Workflow!Steps -> Nat] /\ driver' \in [Workers -> DriverRecord]
        BY <1>1, Facts
    <2> QED BY <1>1, <2>2, <2>4, <2>8, <2>10, <2>11, <2>12, CommitInv
<1>5. CASE /\ \/ command' = [command EXCEPT ![k] = Workflow!Considered(c)]
              \/ command' = [command EXCEPT ![k] = Workflow!Answer(c, "unknown")]
           /\ UNCHANGED <<wf, ready, late, decisions>>
    <2>1. PICK b \in {Workflow!Considered(c), Workflow!Answer(c, "unknown")} :
              command' = [command EXCEPT ![k] = b]
        BY <1>5
    <2>2. command'[k] = b
        BY <2>1, Facts
    <2>3. command'[k] \in CallRecord /\ CommandAgrees(k)'
        BY <1>1, <1>2, <1>3, <1>5, <2>1, <2>2, ConsideredAgrees, UnknownAgrees
    <2> QED BY <1>1, <1>5, <2>1, <2>2, <2>3, AsksInv
<1> QED BY <1>4, <1>5 DEF Workflow!WriteDecision

LEMMA WriteCancellationInv ==
    ASSUME WorkflowInv, NEW k \in Senders, Workflow!WriteCancellation(k)
    PROVE  WorkflowInv'
<1> DEFINE c == command[k]
<1>1. /\ c.pc = "write" /\ c.op = "cancel"
      /\ UNCHANGED <<plan, begun, ended, decisions, started, holder>>
    BY DEF Workflow!WriteCancellation, Workflow!code
<1>2. CommandAgrees(k) /\ c \in CallRecord
    BY Facts DEF WorkflowInv
<1>3. c.id \in Ids
    BY <1>1, <1>2 DEF CommandAgrees
<1>4. CASE /\ wf.version = c.version
           /\ wf.at \notin {"timer", "signal"}
           /\ Workflow!Commit(Workflow!Cancelled(wf, c.id))
           /\ driver' = driver \/ driver' = [driver EXCEPT ![c.via].aborted =
                  (Workflow!Running(wf) /\ Workflow!At(c.via, "execute")) \/ @]
           /\ command' = [command EXCEPT ![k] = Workflow!Answer(c, "requested")]
    <2>1. wf.request = None /\ ~Workflow!Terminal(wf)
        BY <1>1, <1>2, <1>4 DEF CommandAgrees
    <2>2. c.id # None
        BY <1>3, WorkflowAssumed DEF WorkflowAssumptions, Ids
    <2> DEFINE stops == wf.at = "runnable" \/ wf.attempt = "claimed"
               asked == [wf EXCEPT !.request = c.id]
               w == Workflow!Cancelled(wf, c.id)
    <2>3. /\ asked \in RunRecord /\ asked.request = c.id
          /\ asked.status = wf.status /\ asked.at = wf.at /\ asked.attempt = wf.attempt
          /\ asked.step = wf.step /\ asked.outputs = wf.outputs /\ asked.consumed = wf.consumed
        BY <1>3, Facts DEF RunRecord
    <2>4. w = IF stops
              THEN [asked EXCEPT !.status = "CANCELLED", !.at = "cancelled",
                                 !.attempt = IF @ = "claimed" THEN "cancelled" ELSE @]
              ELSE asked
        BY DEF Workflow!Cancelled
    <2> HIDE DEF asked
    <2>5. /\ w \in RunRecord /\ w.request = c.id
          /\ w.step = wf.step /\ w.outputs = wf.outputs /\ w.consumed = wf.consumed
          /\ ~stops => w.status = wf.status /\ w.at = wf.at /\ w.attempt = wf.attempt
          /\ stops => /\ w.status = "CANCELLED" /\ w.at = "cancelled"
                      /\ wf.attempt = "claimed" => w.attempt = "cancelled"
                      /\ wf.attempt # "claimed" => w.attempt = wf.attempt
        <3>1. CASE ~stops
            BY <2>3, <2>4, <3>1
        <3>2. CASE stops
            <4> DEFINE attempt == IF asked.attempt = "claimed" THEN "cancelled" ELSE asked.attempt
            <4>1. attempt \in {"none", "claimed", "started", "abandoned", "ended", "cancelled"}
                BY <2>3 DEF RunRecord
            <4>2. w = [asked EXCEPT !.status = "CANCELLED", !.at = "cancelled", !.attempt = attempt]
                BY <2>4, <3>2
            <4> HIDE DEF attempt, w
            <4>3. /\ w \in RunRecord /\ w.request = c.id
                  /\ w.step = wf.step /\ w.outputs = wf.outputs /\ w.consumed = wf.consumed
                  /\ w.status = "CANCELLED" /\ w.at = "cancelled" /\ w.attempt = attempt
                BY <2>3, <4>1, <4>2 DEF RunRecord
            <4> QED BY <2>3, <3>2, <4>3 DEF attempt
        <3> QED BY <3>1, <3>2
    <2>6. Workflow!Commit(w)
        BY <1>4
    <2> HIDE DEF w
    <2>7. /\ wf'.status = w.status /\ wf'.request = c.id /\ wf'.step = wf.step
          /\ wf'.at = w.at /\ wf'.attempt = w.attempt
          /\ wf'.outputs = wf.outputs /\ wf'.consumed = wf.consumed
          /\ wf'.version = wf.version + 1 /\ late' = None
        BY <1>1, <2>5, <2>6, Committed
    <2> HIDE DEF c
    <2>8. CursorAgrees'
        <3>1. CursorAgrees /\ wf.outputs = 1..(wf.step - 1) /\ wf.status \in {"RUNNING", "BLOCKED"}
            BY <2>1, Facts DEF CursorAgrees, Workflow!Terminal, RunRecord
        <3>2. CASE stops
            BY <1>1, <2>5, <2>7, <3>1, <3>2 DEF CursorAgrees
        <3>3. CASE ~stops
            <4>1. wf.at \in {"uncertain", "running"}
                      /\ (wf.at = "running" => wf.attempt = "started")
                BY <1>4, <3>1, <3>3, Facts DEF CursorAgrees
            <4> QED BY <1>1, <2>5, <2>7, <3>1, <3>3, <4>1 DEF CursorAgrees
        <3> QED BY <3>2, <3>3
    <2>9. StartsAgree'
        BY <1>1, <2>5, <2>7, Facts DEF StartsAgree, Workflow!Steps
    <2>10. OutputsAgree'
        BY <1>1, <2>2, <2>7, Facts DEF OutputsAgree, Workflow!Steps
    <2>11. WaitsAgree'
        BY <1>1, <2>7, WaitsRest
    <2>12. \A q \in Workers : CodeStays(q)
        BY <1>1, <2>7, Underway DEF CodeStays
    <2>13. \A q \in Workers :
               /\ driver'[q] \in DriverRecord
               /\ driver'[q].pc = driver[q].pc /\ driver'[q].step = driver[q].step
               /\ driver'[q] = driver[q] \/ DriverAgrees(q)'
        <3>1. CASE driver' = driver
            BY <3>1, Facts
        <3>2. ASSUME NEW b, b \in BOOLEAN, NEW via \in Workers,
                     driver' = [driver EXCEPT ![via].aborted = b]
              PROVE  \A q \in Workers :
                       /\ driver'[q] \in DriverRecord
                       /\ driver'[q].pc = driver[q].pc /\ driver'[q].step = driver[q].step
                       /\ driver'[q] = driver[q] \/ DriverAgrees(q)'
            <4>1. /\ driver[via] \in DriverRecord /\ DriverAgrees(via)
                  /\ driver'[via] = [driver[via] EXCEPT !.aborted = b]
                  /\ \A q \in Workers \ {via} : driver'[q] = driver[q]
                BY <3>2, Facts DEF WorkflowInv
            <4>2. /\ driver'[via] \in DriverRecord /\ driver'[via].pc = driver[via].pc
                  /\ driver'[via].step = driver[via].step
                  /\ driver'[via].version = driver[via].version
                  /\ driver'[via].outcome = driver[via].outcome
                BY <3>2, <4>1 DEF DriverRecord
            <4>3. /\ driver[via].version < wf'.version /\ wf'.version \in Nat
                  /\ driver[via].version \in Nat
                BY <2>7, <4>1, Facts DEF DriverAgrees, DriverRecord
            <4>4. DriverAgrees(via)'
                BY <1>1, <2>2, <2>7, <4>1, <4>2, <4>3 DEF DriverAgrees, Executing, Workflow!Steps
            <4> QED BY <4>1, <4>2, <4>4, Facts
        <3>3. c.via \in Workers \/ c.via \notin DOMAIN driver
            BY Facts
        <3>4. c.via \notin DOMAIN driver => driver' = driver
            BY <1>4, Facts
        <3>5. c.via \in Workers =>
                  driver' = driver
                      \/ \E b \in BOOLEAN : driver' = [driver EXCEPT ![c.via].aborted = b]
            <4>1. c.via \in Workers => driver[c.via].aborted \in BOOLEAN
                BY Facts DEF DriverRecord
            <4> QED BY <1>4, <4>1
        <3> QED BY <3>1, <3>2, <3>3, <3>4, <3>5
    <2>14. driver' \in [Workers -> DriverRecord] /\ started' \in [Workflow!Steps -> Nat]
        <3>1. DOMAIN driver' = Workers /\ driver' = [q \in Workers |-> driver'[q]]
            BY <1>4, Facts
        <3> QED BY <1>1, <2>13, <3>1, Facts
    <2>15. OneExecutes'
        BY <2>13, OneStillExecutes
    <2>16. "requested" \in Answers /\ command[k] \in CallRecord
        BY Facts DEF Answers
    <2>17. /\ Workflow!Answer(command[k], "requested") \in CallRecord
           /\ Workflow!Answer(command[k], "requested").pc = "answered"
           /\ Workflow!Answer(command[k], "requested").answer = "requested"
        BY <2>16, CommandAnswerType
    <2>18. /\ command'[k] = Workflow!Answer(command[k], "requested")
           /\ command' \in [Senders -> CallRecord]
           /\ \A j \in Senders \ {k} : command'[j] = command[j]
        BY <1>4, <2>17, Facts DEF c
    <2>19. CommandAgrees(k)'
        BY <2>2, <2>7, <2>17, <2>18 DEF CommandAgrees, Verdicts
    <2>20. w \in RunRecord /\ Workflow!Commit(w) /\ w.request # None
        BY <2>2, <2>5, <2>6
    <2>21. \A q \in Workers : (driver'[q] = driver[q] /\ CodeStays(q)) \/ DriverAgrees(q)'
        BY <2>12, <2>13
    <2>22. \A j \in Senders : command'[j] = command[j] \/ CommandAgrees(j)'
        BY <2>18, <2>19
    <2>23. decisions' \in [Deliveries -> Decision \cup {None}] /\ decisions' = decisions
        BY <1>1, Facts
    <2> QED BY <1>1, <2>1, <2>8, <2>9, <2>10, <2>11, <2>14, <2>15, <2>18, <2>20, <2>21, <2>22,
               <2>23, CommitInv
<1>5. CASE /\ \/ command' = [command EXCEPT ![k] = Workflow!Answer(c, "invalid")]
              \/ command' = [command EXCEPT ![k] = Workflow!Examined(c)]
              \/ command' = [command EXCEPT ![k] = Workflow!Answer(c, "unknown")]
           /\ UNCHANGED <<wf, ready, late, driver>>
    <2>1. PICK b \in {Workflow!Answer(c, "invalid"), Workflow!Examined(c),
                      Workflow!Answer(c, "unknown")} :
              command' = [command EXCEPT ![k] = b]
        BY <1>5
    <2>2. command'[k] = b
        BY <2>1, Facts
    <2>3. CASE b = Workflow!Examined(c)
        <3>1. command'[k] \in CallRecord /\ CommandAgrees(k)'
            BY <1>1, <1>2, <1>3, <1>5, <2>2, <2>3, ExaminedAgrees
        <3> QED BY <1>1, <1>5, <2>1, <2>2, <3>1, AsksInv
    <2>4. CASE b \in {Workflow!Answer(c, "invalid"), Workflow!Answer(c, "unknown")}
        <3>1. PICK a \in {"invalid", "unknown"} : b = Workflow!Answer(c, a)
            BY <2>4
        <3>2. a \in Answers
            BY DEF Answers
        <3>3. b \in CallRecord /\ b.pc = "answered" /\ b.answer = a
            BY <1>2, <3>1, <3>2, CommandAnswerType
        <3>4. CommandAgrees(k)'
            BY <2>2, <3>3 DEF CommandAgrees, Verdicts
        <3> QED BY <1>1, <1>5, <2>1, <2>2, <3>3, <3>4, AsksInv
    <2> QED BY <2>3, <2>4
<1> QED BY <1>4, <1>5 DEF Workflow!WriteCancellation
-----------------------------------------------------------------------------
(***************************************************************************)
(* What holds initially, and in every step.                                *)
(***************************************************************************)
LEMMA InitInv ==
    ASSUME Workflow!Init
    PROVE  WorkflowInv
<1>1. plan \in Plans /\ Len(plan) \in Nat \ {0} /\ DOMAIN plan = 1..Len(plan)
    BY WorkflowAssumed DEF Workflow!Init, WorkflowAssumptions
<1>2. Workflow!Steps = 1..Len(plan) /\ 1 \in Workflow!Steps
    BY <1>1 DEF Workflow!Steps
<1>3. /\ wf \in RunRecord /\ wf.status = "RUNNING" /\ wf.version = 1 /\ wf.request = None
      /\ wf.step = 1 /\ wf.at = Workflow!Activation(1) /\ wf.attempt = "none" /\ wf.outputs = {}
      /\ wf.consumed = [s \in Workflow!Steps |-> None]
    <2>1. wf = [status |-> "RUNNING", version |-> 1, request |-> None, step |-> 1,
                at |-> Workflow!Activation(1), generation |-> 0, attempt |-> "none", outputs |-> {},
                consumed |-> [s \in Workflow!Steps |-> None]]
        BY DEF Workflow!Init, Workflow!NewRun, Workflow!Steps
    <2>2. Workflow!Activation(1) \in {"runnable", "timer", "signal"}
        BY ActivationType
    <2>3. [s \in Workflow!Steps |-> None] \in [Workflow!Steps -> Deliveries \cup {None}]
        OBVIOUS
    <2> QED BY <1>2, <2>1, <2>2, <2>3 DEF RunRecord
<1>4. /\ started = [s \in Workflow!Steps |-> 0] /\ begun = [s \in Workflow!Steps |-> 0]
      /\ ended = [s \in Workflow!Steps |-> None] /\ late = None /\ holder = None
      /\ ready = Workflow!Expected(wf) /\ decisions = [d \in Deliveries |-> None]
      /\ driver = [r \in Workers |-> Workflow!Off] /\ command = [k \in Senders |-> Workflow!Quiet]
    BY DEF Workflow!Init
<1>5. Workflow!Quiet \in CallRecord /\ Workflow!Quiet.pc = "idle"
    BY DEF Workflow!Quiet, CallRecord
<1>6. Workflow!Expected(wf) \subseteq Row
    <2>1. wf.step \in Nat /\ wf.version \in Nat /\ wf.generation \in Nat
        BY <1>2, <1>3 DEF RunRecord
    <2> QED BY <1>3, <2>1 DEF Workflow!Expected, Row
<1>7. WorkflowType
    BY <1>1, <1>3, <1>4, <1>5, <1>6, AtRest DEF WorkflowType
<1>8. CursorAgrees
    <2>1. /\ wf.at \in {"runnable", "timer", "signal"}
          /\ wf.at = "runnable" <=> plan[wf.step] = "activity"
          /\ wf.at = "timer" <=> plan[wf.step] = "timer"
        BY <1>3, ActivationType
    <2>2. wf.outputs = 1..(wf.step - 1)
        BY <1>3
    <2> QED BY <1>3, <2>1, <2>2 DEF CursorAgrees
<1>9. StartsAgree
    <2>1. \A s \in Workflow!Steps : begun[s] = 0 /\ started[s] = 0 /\ ended[s] = None
        BY <1>4
    <2>2. wf.step \in Workflow!Steps /\ wf.at # "uncertain" /\ wf.attempt = "none" /\ late = None
        BY <1>2, <1>3, <1>4, ActivationType
    <2> QED BY <2>1, <2>2 DEF StartsAgree
<1>10. OutputsAgree
    BY <1>3, <1>4, WorkflowAssumed DEF OutputsAgree, WorkflowAssumptions, Endings
<1>11. WaitsAgree
    BY <1>3, <1>4 DEF WaitsAgree, Accepted
<1>12. \A r \in Workers : DriverAgrees(r)
    BY <1>3, <1>4, AtRest DEF DriverAgrees, Executing
<1>13. OneExecutes
    BY <1>4, AtRest DEF OneExecutes, Executing
<1>14. \A k \in Senders : CommandAgrees(k)
    BY <1>4, <1>5 DEF CommandAgrees
<1> QED BY <1>4, <1>7, <1>8, <1>9, <1>10, <1>11, <1>12, <1>13, <1>14 DEF WorkflowInv

LEMMA NextInv ==
    ASSUME WorkflowInv, [Workflow!Next]_(Workflow!vars)
    PROVE  WorkflowInv'
<1>1. CASE UNCHANGED Workflow!vars
    <2>1. UNCHANGED <<plan, wf, ready, decisions, late, started, begun, ended, holder, driver,
                      command>>
        BY <1>1 DEF Workflow!vars, Workflow!run, Workflow!code
    <2> QED BY <2>1, RunRests, Facts DEF WorkflowInv, WorkflowType
<1>2. ASSUME NEW r \in Workers,
             \/ Workflow!Boot(r) \/ Workflow!TakeOver(r) \/ Workflow!Crash(r) \/ Workflow!Fenced(r)
             \/ Workflow!Scan(r) \/ Workflow!Resolve(r) \/ Workflow!Repair(r) \/ Workflow!Claim(r)
             \/ Workflow!Start(r) \/ Workflow!StopBefore(r)
             \/ Workflow!Dispatch(r) \/ Workflow!EndExecution(r) \/ Workflow!Finish(r)
             \/ Workflow!Settle(r) \/ Workflow!Fire(r)
      PROVE  WorkflowInv'
    BY <1>2, BeginsInv, EndsInv, ScanInv, ResolveInv, RepairInv, ClaimInv, StartInv, StopBeforeInv,
       DispatchInv, EndExecutionInv, FinishInv, SettleInv, FireInv
<1>3. ASSUME NEW k \in Senders,
             \/ Workflow!DeliverSignal(k) \/ Workflow!RequestCancellation(k)
             \/ Workflow!WriteDecision(k) \/ Workflow!WriteCancellation(k) \/ Workflow!Refuse(k)
      PROVE  WorkflowInv'
    BY <1>3, DeliverSignalInv, RequestCancellationInv, WriteDecisionInv, WriteCancellationInv,
       RefuseInv
<1> QED BY <1>1, <1>2, <1>3, ArriveLateInv, ReconcileInv DEF Workflow!Next

\* Every step of a worker, a caller or the reconciliation keeps the invariant.
THEOREM WorkflowInductive == Workflow!Spec => []WorkflowInv
<1> QED BY InitInv, NextInv, PTL DEF Workflow!Spec

\* Restarts, takeovers, lost starts and releases notwithstanding, the code of an
\* activity begins at most once, never without a durable start, and a step has
\* an output only if its code began, or it is a wait that was met.
THEOREM StepsCorrect == Workflow!Spec => []StepsRunOnce
<1>1. WorkflowInv => StepsRunOnce
    BY Facts DEF StepsRunOnce, Workflow!StepsRunOnce, StartsAgree, OutputsAgree
<1> QED BY <1>1, WorkflowInductive, PTL

\* The ready-work index lists the run exactly when a worker has something to do
\* for it, under its present version.
THEOREM ReadyWorkCorrect == Workflow!Spec => []ReadyWorkAgrees
<1>1. WorkflowInv => ReadyWorkAgrees
    BY DEF WorkflowInv, ReadyWorkAgrees, Workflow!ReadyWorkAgrees
<1> QED BY <1>1, WorkflowInductive, PTL

\* What a caller was told of its signal or of its request is so, and the accepted
\* deliveries and the waits that were met belong to each other, one to one.
THEOREM CommandsCorrect == Workflow!Spec => []CommandAnswersAreTrue
<1>1. ASSUME WorkflowInv
      PROVE  CommandAnswersAreTrue
    <2> USE <1>1
    <2>1. ASSUME NEW k \in Senders, command[k].pc = "answered"
          PROVE  CASE command[k].answer \in {"accepted", "early", "late", "unexpected"} ->
                        decisions[command[k].id] =
                            [signal |-> command[k].signal, verdict |-> command[k].answer]
                   [] command[k].answer = "conflict" ->
                        decisions[command[k].id].signal # command[k].signal
                   [] command[k].answer = "requested" -> wf.request # None
                   [] command[k].answer = "terminal" -> wf.request = None /\ Workflow!Terminal(wf)
                   [] OTHER -> TRUE
        BY <2>1 DEF WorkflowInv, CommandAgrees, Verdicts
    <2>2. ASSUME NEW d \in Deliveries
          PROVE  LET met == {s \in Workflow!Steps : wf.consumed[s] = d} IN
                 IF decisions[d] # None /\ decisions[d].verdict = "accepted"
                 THEN \E s \in Workflow!Steps : met = {s} ELSE met = {}
        <3>1. d # None
            BY WorkflowAssumed DEF WorkflowAssumptions
        <3>2. CASE Accepted(d)
            <4>1. PICK s \in Workflow!Steps : wf.consumed[s] = d
                BY <3>2, Facts DEF WaitsAgree
            <4>2. {t \in Workflow!Steps : wf.consumed[t] = d} = {s}
                BY <3>1, <4>1, Facts DEF WaitsAgree
            <4> QED BY <3>2, <4>1, <4>2 DEF Accepted
        <3>3. CASE ~Accepted(d)
            <4>1. {t \in Workflow!Steps : wf.consumed[t] = d} = {}
                BY <3>1, <3>3, Facts DEF WaitsAgree
            <4> QED BY <3>3, <4>1 DEF Accepted
        <3> QED BY <3>2, <3>3
    <2>3. \A s \in Workflow!Steps : wf.consumed[s] # None =>
              s \in wf.outputs /\ decisions[wf.consumed[s]].signal = plan[s]
        BY Facts DEF WaitsAgree
    <2> QED BY <2>1, <2>2, <2>3 DEF CommandAnswersAreTrue, Workflow!CommandAnswersAreTrue
<1> QED BY <1>1, WorkflowInductive, PTL
-----------------------------------------------------------------------------
(***************************************************************************)
(* The run gives the outputs of its plan in order and stops when asked: it  *)
(* implements LinearPlan.                                                   *)
(***************************************************************************)
\* How a step may move the run.
LEMMA Moves ==
    ASSUME WorkflowInv, [Workflow!Next]_(Workflow!vars)
    PROVE  /\ plan' = plan
           /\ \/ UNCHANGED <<wf, started>>
              \/ wf.at = "runnable" /\ Workflow!Commit(Workflow!Claimed(wf)) /\ started' = started
              \/ wf.attempt = "claimed" /\ Workflow!Commit(Workflow!Started(wf))
                     /\ Workflow!CountStart
              \/ \E ending \in {"completed", "failed", "cancelled"} :
                    /\ wf.attempt = "started" \/ wf.at = "uncertain"
                    /\ ending = "cancelled" => ended[wf.step] = "cancelled"
                    /\ Workflow!Commit(Workflow!Terminated(wf, ending)) /\ started' = started
              \/ /\ wf.attempt \in {"claimed", "started"}
                 /\ Workflow!Commit(IF wf.attempt = "claimed" THEN Workflow!Released(wf)
                                                               ELSE Workflow!Uncertain(wf))
                 /\ started' = started
              \/ wf.at = "timer" /\ Workflow!Commit(Workflow!Advanced(wf)) /\ started' = started
              \/ wf.at = "signal"
                     /\ (\E d \in Deliveries : Workflow!Commit(Workflow!Consumed(wf, d)))
                    /\ started' = started
              \/ Workflow!Commit(wf) /\ started' = started
              \/ \E q \in Ids :
                    /\ wf.request = None /\ ~Workflow!Terminal(wf)
                    /\ wf.at \notin {"timer", "signal"}
                    /\ Workflow!Commit(Workflow!Cancelled(wf, q)) /\ started' = started
<1>1. CASE UNCHANGED Workflow!vars
    BY <1>1 DEF Workflow!vars, Workflow!run
<1>2. ASSUME NEW r \in Workers,
             \/ Workflow!Boot(r) \/ Workflow!TakeOver(r) \/ Workflow!Crash(r) \/ Workflow!Fenced(r)
             \/ Workflow!Scan(r) \/ Workflow!Resolve(r)
             \/ Workflow!Repair(r) \/ Workflow!StopBefore(r) \/ Workflow!Dispatch(r)
             \/ Workflow!EndExecution(r)
      PROVE  UNCHANGED <<plan, wf, started>>
    BY <1>2
    DEF Workflow!Boot, Workflow!TakeOver, Workflow!Crash, Workflow!Fenced, Workflow!Scan,
        Workflow!Resolve, Workflow!Repair, Workflow!StopBefore, Workflow!Dispatch,
       Workflow!EndExecution, Workflow!run
<1>3. ASSUME NEW k \in Senders,
             Workflow!DeliverSignal(k) \/ Workflow!RequestCancellation(k) \/ Workflow!Refuse(k)
      PROVE  UNCHANGED <<plan, wf, started>>
    BY <1>3 DEF Workflow!DeliverSignal, Workflow!RequestCancellation, Workflow!Refuse, Workflow!run
<1>4. ASSUME NEW r \in Workers
      PROVE  DriverAgrees(r)
    BY DEF WorkflowInv
<1>5. ASSUME NEW r \in Workers, Workflow!Claim(r)
      PROVE  /\ plan' = plan /\ started' = started
             /\ wf' = wf \/ (wf.at = "runnable" /\ Workflow!Commit(Workflow!Claimed(wf)))
    BY <1>4, <1>5 DEF Workflow!Claim, Workflow!At, DriverAgrees
<1>6. ASSUME NEW r \in Workers, Workflow!Start(r)
      PROVE  /\ plan' = plan
             /\ \/ UNCHANGED <<wf, started>>
                \/ wf.attempt = "claimed" /\ Workflow!Commit(Workflow!Started(wf))
                       /\ Workflow!CountStart
    BY <1>4, <1>6 DEF Workflow!Start, Workflow!At, DriverAgrees
<1>7. ASSUME Workflow!ArriveLate
      PROVE  /\ plan' = plan /\ wf.attempt = "claimed" /\ Workflow!Commit(Workflow!Started(wf))
             /\ Workflow!CountStart
    BY <1>7, Facts DEF Workflow!ArriveLate, StartsAgree
<1>8. ASSUME NEW r \in Workers, Workflow!Finish(r)
      PROVE  /\ plan' = plan /\ started' = started
             /\ \/ wf' = wf
                \/ \E ending \in {"completed", "failed", "cancelled"} :
                      /\ wf.attempt = "started"
                      /\ ending = "cancelled" => ended[wf.step] = "cancelled"
                      /\ Workflow!Commit(Workflow!Terminated(wf, ending))
    <2>1. CASE /\ wf.version = driver[r].version
               /\ Workflow!Commit(Workflow!Terminated(wf, driver[r].outcome))
        <3>1. /\ wf.attempt = "started" /\ driver[r].step = wf.step
              /\ driver[r].outcome \in {"completed", "failed", "cancelled"}
              /\ ended[wf.step] = driver[r].outcome
            BY <1>4, <1>8, <2>1
            DEF Workflow!Finish, Workflow!At, DriverAgrees, Executing, Workflow!Mine, Endings
        <3> QED BY <1>8, <2>1, <3>1 DEF Workflow!Finish
    <2> QED BY <1>8, <2>1 DEF Workflow!Finish
<1>9. ASSUME Workflow!Reconcile
      PROVE  /\ plan' = plan /\ started' = started
             /\ \E ending \in {"completed", "failed", "cancelled"} :
                      /\ wf.at = "uncertain"
                      /\ ending = "cancelled" => ended[wf.step] = "cancelled"
                      /\ Workflow!Commit(Workflow!Terminated(wf, ending))
    BY <1>9 DEF Workflow!Reconcile
<1>10. ASSUME NEW r \in Workers, Workflow!Settle(r) \/ Workflow!Fire(r)
       PROVE  /\ plan' = plan /\ started' = started
              /\ \/ wf' = wf
                 \/ /\ wf.attempt \in {"claimed", "started"}
                    /\ Workflow!Commit(IF wf.attempt = "claimed" THEN Workflow!Released(wf)
                                                                  ELSE Workflow!Uncertain(wf))
                 \/ wf.at = "timer" /\ Workflow!Commit(Workflow!Advanced(wf))
    BY <1>10 DEF Workflow!Settle, Workflow!Fire
<1>11. ASSUME NEW k \in Senders, Workflow!WriteDecision(k)
       PROVE  /\ plan' = plan /\ started' = started
              /\ \/ wf' = wf \/ Workflow!Commit(wf)
                 \/ wf.at = "signal"
                        /\ \E d \in Deliveries : Workflow!Commit(Workflow!Consumed(wf, d))
    <2> DEFINE c == command[k]
    <2>1. CASE /\ wf.version = c.version /\ c.verdict = "accepted"
               /\ Workflow!Commit(Workflow!Consumed(wf, c.id))
        <3>1. c.id \in Deliveries /\ Workflow!Verdict(wf, c.signal) = "accepted"
            BY <1>11, <2>1 DEF Workflow!WriteDecision, WorkflowInv, CommandAgrees
        <3>2. wf.at = "signal"
            BY <3>1 DEF Workflow!Verdict
        <3> QED BY <1>11, <2>1, <3>1, <3>2 DEF Workflow!WriteDecision
    <2> QED BY <1>11, <2>1 DEF Workflow!WriteDecision
<1>12. ASSUME NEW k \in Senders, Workflow!WriteCancellation(k)
       PROVE  /\ plan' = plan /\ started' = started
              /\ \/ wf' = wf
                 \/ \E q \in Ids :
                      /\ wf.request = None /\ ~Workflow!Terminal(wf)
                      /\ wf.at \notin {"timer", "signal"}
                      /\ Workflow!Commit(Workflow!Cancelled(wf, q))
    <2>1. CASE /\ wf.version = command[k].version
               /\ wf.at \notin {"timer", "signal"}
               /\ Workflow!Commit(Workflow!Cancelled(wf, command[k].id))
        <3>1. command[k].id \in Ids /\ wf.request = None /\ ~Workflow!Terminal(wf)
            BY <1>12, <2>1 DEF Workflow!WriteCancellation, WorkflowInv, CommandAgrees
        <3> QED BY <1>12, <2>1, <3>1 DEF Workflow!WriteCancellation
    <2> QED BY <1>12, <2>1 DEF Workflow!WriteCancellation
<1> QED BY <1>1, <1>2, <1>3, <1>5, <1>6, <1>7, <1>8, <1>9, <1>10, <1>11, <1>12 DEF Workflow!Next

\* The first step of the plan without an output is the one of the cursor.
LEMMA PlanStep ==
    ASSUME WorkflowInv, wf.at # "completed"
    PROVE  /\ Workflow!Promise!Step = wf.step
           /\ Workflow!Promise!Begun <=> (wf.attempt = "started" \/ wf.at = "uncertain"
                                 \/ (plan[wf.step] = "activity" /\ started[wf.step] = 1))
<1>1. wf.outputs = 1..(wf.step - 1) /\ wf.step \in Nat \ {0}
    BY Facts DEF CursorAgrees
<1>2. ASSUME NEW s \in Workflow!Steps
      PROVE  s = wf.step <=> s \notin wf.outputs /\ \A t \in 1..(s - 1) : t \in wf.outputs
    <2>1. s \in Nat \ {0}
        BY Facts
    <2>2. CASE s < wf.step
        BY <1>1, <2>1, <2>2
    <2>3. CASE s = wf.step
        BY <1>1, <2>3
    <2>4. CASE s > wf.step
        <3>1. wf.step \in 1..(s - 1) /\ wf.step \notin wf.outputs
            BY <1>1, <2>1, <2>4
        <3> QED BY <2>4, <3>1, <1>1, <2>1
    <2> QED BY <1>1, <2>1, <2>2, <2>3, <2>4
<1>3. Workflow!Promise!Step = wf.step
    BY <1>2, Facts DEF Workflow!Promise!Step, Workflow!Steps
<1>4. wf.attempt = "started" \/ wf.at = "uncertain" =>
          plan[wf.step] = "activity" /\ started[wf.step] = 1
    BY Facts DEF CursorAgrees, StartsAgree
<1> QED BY <1>3, <1>4 DEF Workflow!Promise!Begun

\* A step that gives its output gives it in the plan.
LEMMA GivesAsPlanned ==
    ASSUME WorkflowInv, NEW w \in RunRecord, w.step = wf.step, w.outputs = wf.outputs,
           w.request = wf.request, ~Workflow!Terminal(wf),
           wf.request = None \/ wf.step = Len(plan),
           plan[wf.step] = "activity" \/ wf.status = "BLOCKED" =>
               wf.attempt = "started" \/ wf.at = "uncertain",
           Workflow!Commit(Workflow!Advanced(w)), UNCHANGED <<plan, started>>
    PROVE  Workflow!Promise!Give
<1>1. /\ wf'.status = Workflow!Advanced(w).status /\ wf'.request = wf.request
      /\ wf'.outputs = wf.outputs \cup {wf.step}
    BY AdvancedIs, Committed
<1>2. wf'.status = IF wf.step = Len(plan) THEN "COMPLETED" ELSE "RUNNING"
    BY <1>1, AdvancedIs
<1>3. wf.at # "completed" /\ wf.status \in {"RUNNING", "BLOCKED"}
    BY Facts DEF CursorAgrees, Workflow!Terminal, RunRecord
<1> QED BY <1>1, <1>2, <1>3, PlanStep DEF Workflow!Promise!Give, Workflow!Promise!Live

LEMMA PlanMoves ==
    ASSUME WorkflowInv, [Workflow!Next]_(Workflow!vars)
    PROVE  [Workflow!Promise!Next]_(Workflow!Promise!vars)
<1>1. plan' = plan
    BY Moves
<1>2. CASE UNCHANGED <<wf, started>>
    BY <1>1, <1>2 DEF Workflow!Promise!vars
<1>3. ASSUME NEW w \in RunRecord, Workflow!Commit(w), started' = started,
             w.status = wf.status, w.outputs = wf.outputs, w.request = wf.request
      PROVE  UNCHANGED Workflow!Promise!vars
    BY <1>1, <1>3, Committed DEF Workflow!Promise!vars
<1>4. CASE wf.at = "runnable" /\ Workflow!Commit(Workflow!Claimed(wf)) /\ started' = started
    <2> DEFINE w == Workflow!Claimed(wf)
               g == wf.generation + 1
    <2>1. g \in Nat /\ w = [wf EXCEPT !.at = "running", !.generation = g, !.attempt = "claimed"]
        BY Facts DEF Workflow!Claimed
    <2>2. Workflow!Commit(w)
        BY <1>4
    <2> HIDE DEF g, w
    <2>3. /\ w \in RunRecord /\ w.status = wf.status /\ w.outputs = wf.outputs
          /\ w.request = wf.request
        BY <2>1, Facts DEF RunRecord
    <2> QED BY <1>3, <1>4, <2>2, <2>3
<1>5. CASE wf.attempt = "claimed" /\ Workflow!Commit(Workflow!Started(wf)) /\ Workflow!CountStart
    <2>1. /\ wf.at = "running" /\ wf.status = "RUNNING" /\ wf.request = None
          /\ started[wf.step] = 0 /\ plan[wf.step] = "activity" /\ wf.at # "completed"
        BY <1>5, Facts DEF CursorAgrees, StartsAgree
    <2>2. /\ Workflow!Started(wf) \in RunRecord /\ Workflow!Started(wf).status = wf.status
          /\ Workflow!Started(wf).outputs = wf.outputs /\ Workflow!Started(wf).request = wf.request
        BY Facts DEF Workflow!Started, RunRecord
    <2>3. wf'.status = wf.status /\ wf'.outputs = wf.outputs /\ wf'.request = wf.request
        BY <1>1, <1>5, <2>2, Committed
    <2>4. started' = [started EXCEPT ![wf.step] = 1]
        BY <1>5, <2>1, Facts DEF Workflow!CountStart
    <2>5. Workflow!Promise!Start
        BY <1>1, <2>1, <2>3, <2>4, PlanStep DEF Workflow!Promise!Start
    <2> QED BY <2>5 DEF Workflow!Promise!Next
<1>6. ASSUME NEW ending \in {"completed", "failed", "cancelled"},
             wf.attempt = "started" \/ wf.at = "uncertain",
             ending = "cancelled" => ended[wf.step] = "cancelled",
             Workflow!Commit(Workflow!Terminated(wf, ending)), started' = started
      PROVE  Workflow!Promise!Next
    <2> DEFINE w2 == [wf EXCEPT !.attempt = IF @ = "started" THEN "ended" ELSE @]
               w == Workflow!Terminated(wf, ending)
    <2>1. /\ wf.status \in {"RUNNING", "BLOCKED"} /\ ~Workflow!Terminal(wf) /\ wf.at # "completed"
        BY <1>6, Facts DEF CursorAgrees, Workflow!Terminal
    <2>2. /\ w2 \in RunRecord /\ w2.step = wf.step /\ w2.outputs = wf.outputs
          /\ w2.request = wf.request
        BY Facts DEF RunRecord
    <2>3. \/ w = Workflow!Advanced(w2) /\ ending = "completed" /\ ~Workflow!Suppressed(wf)
          \/ w = [w2 EXCEPT !.status = "FAILED", !.at = "failed"]
          \/ /\ w = [w2 EXCEPT !.status = "CANCELLED", !.at = "cancelled"]
             /\ ending = "cancelled" \/ Workflow!Suppressed(wf)
        BY DEF Workflow!Terminated
    <2>4. Workflow!Commit(w)
        BY <1>6
    <2> HIDE DEF w2, w
    <2>5. Workflow!Promise!Live /\ Workflow!Promise!Begun
        BY <1>6, <2>1, PlanStep DEF Workflow!Promise!Live
    <2>6. CASE w = Workflow!Advanced(w2) /\ ending = "completed" /\ ~Workflow!Suppressed(wf)
        <3>1. wf.request = None \/ wf.step = Len(plan)
            BY <2>6, Facts DEF Workflow!Suppressed
        <3>2. Workflow!Promise!Give
            BY <1>1, <1>6, <2>1, <2>2, <2>4, <2>6, <3>1, GivesAsPlanned
        <3> QED BY <3>2 DEF Workflow!Promise!Next
    <2>7. CASE w = [w2 EXCEPT !.status = "FAILED", !.at = "failed"]
        <3>1. /\ w \in RunRecord /\ w.status = "FAILED" /\ w.outputs = wf.outputs
              /\ w.request = wf.request
            BY <2>2, <2>7 DEF RunRecord
        <3>2. wf'.status = "FAILED" /\ wf'.outputs = wf.outputs /\ wf'.request = wf.request
            BY <1>1, <2>4, <3>1, Committed
        <3> QED BY <1>1, <1>6, <2>5, <3>2 DEF Workflow!Promise!Fail, Workflow!Promise!Next
    <2>8. CASE /\ w = [w2 EXCEPT !.status = "CANCELLED", !.at = "cancelled"]
               /\ ending = "cancelled" \/ Workflow!Suppressed(wf)
        <3>1. /\ w \in RunRecord /\ w.status = "CANCELLED" /\ w.outputs = wf.outputs
              /\ w.request = wf.request
            BY <2>2, <2>8 DEF RunRecord
        <3>2. wf'.status = "CANCELLED" /\ wf'.outputs = wf.outputs /\ wf'.request = wf.request
            BY <1>1, <2>4, <3>1, Committed
        <3>3. wf.request # None
            BY <1>6, <2>8, Facts DEF OutputsAgree, Workflow!Suppressed
        <3> QED BY <1>1, <1>6, <2>5, <3>2, <3>3 DEF Workflow!Promise!Abandon, Workflow!Promise!Next
    <2> QED BY <2>3, <2>6, <2>7, <2>8
<1>7. CASE /\ wf.attempt \in {"claimed", "started"}
           /\ Workflow!Commit(IF wf.attempt = "claimed" THEN Workflow!Released(wf)
                                                         ELSE Workflow!Uncertain(wf))
           /\ started' = started
    <2>1. /\ wf.at = "running" /\ wf.status = "RUNNING" /\ wf.at # "completed"
        BY <1>7, Facts DEF CursorAgrees
    <2>2. CASE wf.attempt = "claimed"
        <3>1. /\ Workflow!Released(wf) \in RunRecord /\ Workflow!Released(wf).status = wf.status
              /\ Workflow!Released(wf).outputs = wf.outputs
              /\ Workflow!Released(wf).request = wf.request
            BY Facts DEF Workflow!Released, RunRecord
        <3> QED BY <1>3, <1>7, <2>2, <3>1
    <2>3. CASE wf.attempt = "started"
        <3>1. /\ Workflow!Uncertain(wf) \in RunRecord /\ Workflow!Uncertain(wf).status = "BLOCKED"
              /\ Workflow!Uncertain(wf).outputs = wf.outputs
              /\ Workflow!Uncertain(wf).request = wf.request
            BY Facts DEF Workflow!Uncertain, RunRecord
        <3>2. wf'.status = "BLOCKED" /\ wf'.outputs = wf.outputs /\ wf'.request = wf.request
            BY <1>1, <1>7, <2>3, <3>1, Committed
        <3>3. Workflow!Promise!Begun
            BY <2>1, <2>3, PlanStep
        <3> QED BY <1>1, <1>7, <2>1, <3>2, <3>3 DEF Workflow!Promise!Block, Workflow!Promise!Next
    <2> QED BY <1>7, <2>2, <2>3
<1>8. CASE wf.at = "timer" /\ Workflow!Commit(Workflow!Advanced(wf)) /\ started' = started
    <2>1. /\ wf.status = "RUNNING" /\ plan[wf.step] = "timer" /\ wf.request = None
          /\ ~Workflow!Terminal(wf)
        BY <1>8, Facts DEF CursorAgrees, Workflow!Terminal
    <2>2. Workflow!Promise!Give
        BY <1>1, <1>8, <2>1, Facts, GivesAsPlanned
    <2> QED BY <2>2 DEF Workflow!Promise!Next
<1>9. ASSUME wf.at = "signal", NEW d \in Deliveries, Workflow!Commit(Workflow!Consumed(wf, d)),
             started' = started
      PROVE  Workflow!Promise!Next
    <2> DEFINE consumed == [wf.consumed EXCEPT ![wf.step] = d]
               w == [wf EXCEPT !.consumed = consumed]
    <2>1. /\ wf.status = "RUNNING" /\ plan[wf.step] \notin {"activity", "timer"}
          /\ wf.request = None /\ ~Workflow!Terminal(wf)
        BY <1>9, Facts DEF CursorAgrees, Workflow!Terminal
    <2>2. /\ consumed \in [Workflow!Steps -> Deliveries \cup {None}]
          /\ Workflow!Consumed(wf, d) = Workflow!Advanced(w)
        BY Facts DEF Workflow!Consumed
    <2> HIDE DEF consumed
    <2>3. w \in RunRecord /\ w.step = wf.step /\ w.outputs = wf.outputs /\ w.request = wf.request
        BY <2>2, Facts DEF RunRecord
    <2> HIDE DEF w
    <2>4. Workflow!Promise!Give
        BY <1>1, <1>9, <2>1, <2>2, <2>3, GivesAsPlanned
    <2> QED BY <2>4 DEF Workflow!Promise!Next
<1>10. CASE Workflow!Commit(wf) /\ started' = started
    BY <1>3, <1>10, Facts
<1>11. ASSUME NEW q \in Ids, wf.request = None, ~Workflow!Terminal(wf),
              wf.at \notin {"timer", "signal"},
              Workflow!Commit(Workflow!Cancelled(wf, q)), started' = started
       PROVE  Workflow!Promise!Next
    <2> DEFINE stops == wf.at = "runnable" \/ wf.attempt = "claimed"
               asked == [wf EXCEPT !.request = q]
               attempt == IF wf.attempt = "claimed" THEN "cancelled" ELSE wf.attempt
               w == IF stops
                    THEN [asked EXCEPT !.status = "CANCELLED", !.at = "cancelled",
                                       !.attempt = attempt]
                    ELSE asked
    <2>1. q # None
        BY WorkflowAssumed DEF WorkflowAssumptions, Ids
    <2>2. /\ asked \in RunRecord /\ asked.request = q /\ asked.attempt = wf.attempt
          /\ asked.status = wf.status /\ asked.outputs = wf.outputs
        BY Facts DEF RunRecord
    <2>3. Workflow!Cancelled(wf, q) = w
        BY <2>2 DEF Workflow!Cancelled
    <2>4. attempt \in {"none", "claimed", "started", "abandoned", "ended", "cancelled"}
        BY Facts DEF RunRecord
    <2> HIDE DEF asked, attempt
    <2>5. /\ w \in RunRecord /\ w.request = q /\ w.outputs = wf.outputs
          /\ w.status = IF stops THEN "CANCELLED" ELSE wf.status
        BY <2>2, <2>4 DEF RunRecord
    <2>6. Workflow!Commit(w)
        BY <1>11, <2>3
    <2> HIDE DEF w
    <2>7. /\ wf'.request = q /\ wf'.outputs = wf.outputs
          /\ wf'.status = IF stops THEN "CANCELLED" ELSE wf.status
        BY <1>1, <2>5, <2>6, Committed
    <2>8. wf.status \in {"RUNNING", "BLOCKED"} /\ wf.at # "completed"
        BY <1>11, Facts DEF CursorAgrees, Workflow!Terminal, RunRecord
    <2>9. Workflow!Promise!Begun <=> ~stops
        <3>1. CASE stops
            <4>1. started[wf.step] = 0 /\ wf.at # "uncertain" /\ wf.attempt # "started"
                BY <3>1, Facts DEF StartsAgree, CursorAgrees
            <4> QED BY <2>8, <3>1, <4>1, PlanStep
        <3>2. CASE ~stops
            <4>1. wf.at = "uncertain" \/ wf.attempt = "started"
                BY <1>11, <2>8, <3>2, Facts DEF CursorAgrees
            <4> QED BY <2>8, <3>2, <4>1, PlanStep
        <3> QED BY <3>1, <3>2
    <2>10. Workflow!Promise!Stop
        BY <1>1, <1>11, <2>1, <2>7, <2>8, <2>9 DEF Workflow!Promise!Stop, Workflow!Promise!Live
    <2> QED BY <2>10 DEF Workflow!Promise!Next
<1> QED BY <1>2, <1>4, <1>5, <1>6, <1>7, <1>8, <1>9, <1>10, <1>11, Moves

\* The durable run, whatever restarts, races and repairs, implements the plan.
THEOREM PlanImplemented == Workflow!Spec => PlanSpec
<1>1. Workflow!Init => Workflow!Promise!Init
    BY DEF Workflow!Init, Workflow!NewRun, Workflow!Promise!Init, Workflow!Steps
<1>2. WorkflowInv /\ [Workflow!Next]_(Workflow!vars) =>
          [Workflow!Promise!Next]_(Workflow!Promise!vars)
    BY PlanMoves
<1>3. Workflow!Promise!Spec <=>
          Workflow!Promise!Init /\ [][Workflow!Promise!Next]_(Workflow!Promise!vars)
    BY DEF Workflow!Promise!Spec
<1> QED BY <1>1, <1>2, <1>3, WorkflowInductive, PTL DEF Workflow!Spec, PlanSpec, Workflow!PlanSpec
=============================================================================
