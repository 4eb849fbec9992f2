----------------------- MODULE ApplicationStateProofs -----------------------
(***************************************************************************)
(* Proofs about ApplicationState for every set of callers and effects, every *)
(* number of epochs and of attempts.                                       *)
(*                                                                         *)
(* The rows on their own are consistent (RowsAgree), and they only grow, so  *)
(* a row that a call holds is still the row in the store (CallAgrees).      *)
(***************************************************************************)
EXTENDS ApplicationStore, SequenceTheorems, TLAPS

\* The three kinds of rows tell one story of each effect.
RowsAgree ==
    \A e \in Effects :
        /\ Exists(receipts[e]) => /\ receipts[e].record = business
                                  /\ receipts[e].inserted <=> business = e
                                  /\ ~resolutions[e].closed
        /\ business = e => Exists(receipts[e])
        /\ resolutions[e].closed /\ resolutions[e].observed # None =>
              business = resolutions[e].observed

\* What a call holds is what the store holds.
HoldsRows(c) ==
    /\ Exists(held[c].receipt) => held[c].receipt = receipts[Effect(c)]
    /\ held[c].resolution.closed => held[c].resolution = resolutions[Effect(c)]
    /\ pc[c] = "substantiate" =>
          Exists(held[c].receipt) \/ held[c].resolution.closed
    /\ pc[c] = "present" => held[c].business # None
    /\ pc[c] \in {"present", "close"} => held[c].business # Effect(c)
    /\ pc[c] \in {"present", "close"} /\ held[c].business # None =>
          business = held[c].business

\* A call that found the record of its own effect will find the receipt.
FindsWinner(c) ==
    stage[c] = "winner" /\ pc[c] = "disposition" =>
        /\ business = Effect(c)
        /\ "receipt" \in held[c].known => Exists(held[c].receipt)

AnswersAgree(c) ==
    /\ outcome[c] # "none" => pc[c] = "done"
    /\ pc[c] = "idle" => stage[c] = "first" /\ held[c] = NothingHeld
    /\ outcome[c] # "corruption"
    /\ outcome[c] \in {"inserted", "present", "not-applied"} =>
          outcome[c] = Disposition(Effect(c))

CallAgrees(c) == HoldsRows(c) /\ FindsWinner(c) /\ AnswersAgree(c)

Store == RowsAgree /\ \A c \in Callers : CallAgrees(c)

\* Rows are written once.
Grows ==
    /\ business # None => business' = business
    /\ \A e \in Effects :
          /\ Exists(receipts[e]) => receipts'[e] = receipts[e]
          /\ resolutions[e].closed => resolutions'[e] = resolutions[e]

\* The call of c does not move.
Rests(c) ==
    /\ pc'[c] = pc[c]
    /\ call'[c] = call[c]
    /\ stage'[c] = stage[c]
    /\ held'[c] = held[c]
    /\ outcome'[c] = outcome[c]
-----------------------------------------------------------------------------
(***************************************************************************)
(* Types.                                                                  *)
(***************************************************************************)
LocalsOK ==
    /\ pc \in [Callers -> Steps]
    /\ call \in [Callers -> Call]
    /\ stage \in [Callers -> Stages]
    /\ attempt \in [Callers -> 0..(MaxAttempts - 1)]
    /\ held \in [Callers -> Held]
    /\ outcome \in [Callers -> Outcomes]

LEMMA NothingHeldType == NothingHeld \in Held
BY DEF NothingHeld, Held, NoReceipt, Receipt, NoResolution, Resolution

LEMMA GotoType ==
    ASSUME TypeOK, NEW c \in Callers, NEW step \in Steps, Goto(c, step)
    PROVE  LocalsOK'
BY DEF TypeOK, Goto, LocalsOK

LEMMA AnswerType ==
    ASSUME TypeOK, NEW c \in Callers, NEW o \in Outcomes, Answer(c, o)
    PROVE  LocalsOK'
BY NothingHeldType, BoundsArePositive
   DEF TypeOK, Answer, LocalsOK, Steps, Stages

LEMMA DispositionType ==
    ASSUME TypeOK, NEW c \in Callers, NEW why \in Stages, ReadDisposition(c, why)
    PROVE  LocalsOK'
BY NothingHeldType DEF TypeOK, ReadDisposition, LocalsOK, Steps

LEMMA TryAgainType ==
    ASSUME TypeOK, NEW c \in Callers, NEW step \in Steps, TryAgain(c, step)
    PROVE  LocalsOK'
<1>1. CASE attempt[c] + 1 < MaxAttempts
  BY <1>1, BoundsArePositive DEF TypeOK, TryAgain, LocalsOK
<1>2. CASE ~(attempt[c] + 1 < MaxAttempts)
  BY <1>2, AnswerType DEF TryAgain, Outcomes
<1> QED BY <1>1, <1>2

LEMMA HoldType ==
    ASSUME TypeOK, NEW c \in Callers, NEW step \in Steps, Hold(c, step)
    PROVE  LocalsOK'
<1>1. [held[c] EXCEPT !.business = business] \in Held
  BY DEF TypeOK, Held
<1> QED BY <1>1 DEF TypeOK, Hold, LocalsOK

LEMMA WriteReturnsType ==
    ASSUME TypeOK, NEW c \in Callers, NEW r \in Receipt, NEW s \in Resolution,
           WriteReturns(c, r, s)
    PROVE  LocalsOK'
<1>1. [NothingHeld EXCEPT !.receipt = r, !.resolution = s] \in Held
  BY NothingHeldType DEF Held
<1> QED BY <1>1 DEF TypeOK, WriteReturns, LocalsOK, Steps

LEMMA NoRowType == NoReceipt \in Receipt /\ NoResolution \in Resolution
BY DEF NoReceipt, Receipt, NoResolution, Resolution

LEMMA EffectType ==
    ASSUME TypeOK, NEW c \in Callers
    PROVE  Effect(c) \in Effects /\ held[c] \in Held /\ call[c].epoch \in Epochs
BY DEF TypeOK, Effect, Call

LEMMA DecisionType ==
    ASSUME TypeOK, NEW c \in Callers
    PROVE  Decision(c) \in Outcomes
BY DEF Decision, Outcomes

LEMMA TypeStep ==
    ASSUME TypeOK, [Next]_vars
    PROVE  TypeOK'
<1>1. CASE Adopt
  BY <1>1 DEF Adopt, Fence!Adopt, Fence!Advance, TypeOK, Epochs, rows, locals
<1>2. CASE Retire
  BY <1>2 DEF Retire, Fence!Retire, TypeOK, rows, locals
<1>3. CASE Reactivate
  <2>1. authority' \in Epochs
    BY <1>3, BoundsArePositive
       DEF Reactivate, Fence!Reactivate, Fence!Advance, Epochs
  <2>2. retired' \in BOOLEAN
    BY <1>3 DEF Reactivate, Fence!Reactivate
  <2> QED BY <1>3, <2>1, <2>2 DEF Reactivate, TypeOK, rows, locals
<1>4. ASSUME NEW c \in Callers, CallerStep(c) PROVE TypeOK'
  <2> USE EffectType, NoRowType
  <2>1. ASSUME NEW k \in Call, Begin(c, k) PROVE TypeOK'
    BY <2>1 DEF Begin, TypeOK, fence, rows, Steps
  <2>2. CASE ReadReceipt(c)
    <3>1. [held[c] EXCEPT !.receipt = receipts[Effect(c)],
                          !.known = @ \cup {"receipt"}] \in Held
      BY DEF TypeOK, Held
    <3> QED BY <2>2, <3>1 DEF ReadReceipt, TypeOK, fence, rows
  <2>3. CASE ReadResolution(c)
    <3>1. [held[c] EXCEPT !.resolution = resolutions[Effect(c)],
                          !.known = @ \cup {"resolution"}] \in Held
      BY DEF TypeOK, Held
    <3> QED BY <2>3, <3>1 DEF ReadResolution, TypeOK, fence, rows
  <2>4. CASE ExamineDisposition(c)
    <3>1. LocalsOK'
      BY <2>4, AnswerType, GotoType
         DEF ExamineDisposition, Undecided, Outcomes, Steps
    <3> QED BY <2>4, <3>1 DEF ExamineDisposition, TypeOK, LocalsOK, fence, rows
  <2>5. CASE Substantiate(c)
    <3>1. LocalsOK'
      BY <2>5, AnswerType, DecisionType DEF Substantiate
    <3> QED BY <2>5, <3>1 DEF Substantiate, TypeOK, LocalsOK, fence, rows
  <2>6. CASE ReadRetirement(c)
    <3>1. LocalsOK'
      BY <2>6, AnswerType, GotoType DEF ReadRetirement, Outcomes, Steps
    <3> QED BY <2>6, <3>1 DEF ReadRetirement, TypeOK, LocalsOK, fence, rows
  <2>7. CASE ReadAuthority(c)
    <3>1. LocalsOK'
      BY <2>7, AnswerType, GotoType, TryAgainType
         DEF ReadAuthority, Outcomes, Steps
    <3> QED BY <2>7, <3>1 DEF ReadAuthority, TypeOK, LocalsOK, fence, rows
  <2>8. CASE ReadBusiness(c)
    <3>1. LocalsOK'
      BY <2>8, DispositionType, HoldType, TryAgainType
         DEF ReadBusiness, Stages, Steps
    <3> QED BY <2>8, <3>1 DEF ReadBusiness, TypeOK, LocalsOK, fence, rows
  <2>9. CASE Insert(c)
    <3>1. [inserted |-> TRUE, record |-> Effect(c)] \in Receipt
      BY DEF Receipt
    <3>2. LocalsOK'
      BY <2>9, <3>1, WriteReturnsType, DispositionType
         DEF Insert, WriteFails, Stages
    <3>3. business' \in Effects \cup {None} /\ receipts' \in [Effects -> Receipt]
      BY <2>9, <3>1 DEF Insert, TypeOK
    <3> QED BY <2>9, <3>2, <3>3 DEF Insert, TypeOK, LocalsOK, fence
  <2>10. CASE RetainPresent(c)
    <3>1. [inserted |-> FALSE, record |-> held[c].business] \in Receipt
      BY DEF Receipt, Held
    <3>2. LocalsOK'
      BY <2>10, <3>1, WriteReturnsType, DispositionType
         DEF RetainPresent, WriteFails, Stages
    <3>3. receipts' \in [Effects -> Receipt]
      BY <2>10, <3>1 DEF RetainPresent, TypeOK
    <3> QED BY <2>10, <3>2, <3>3 DEF RetainPresent, TypeOK, LocalsOK, fence
  <2>11. CASE Close(c)
    <3>1. [closed |-> TRUE, observed |-> held[c].business] \in Resolution
      BY DEF Resolution, Held
    <3>2. LocalsOK'
      BY <2>11, <3>1, WriteReturnsType, DispositionType
         DEF Close, WriteFails, Stages
    <3>3. resolutions' \in [Effects -> Resolution]
      BY <2>11, <3>1 DEF Close, TypeOK
    <3> QED BY <2>11, <3>2, <3>3 DEF Close, TypeOK, LocalsOK, fence
  <2>12. CASE Leave(c)
    BY <2>12, NothingHeldType, BoundsArePositive
       DEF Leave, TypeOK, fence, rows, Steps, Stages, Outcomes
  <2> QED BY <1>4, <2>1, <2>2, <2>3, <2>4, <2>5, <2>6, <2>7, <2>8, <2>9,
             <2>10, <2>11, <2>12 DEF CallerStep
<1>5. CASE UNCHANGED vars
  BY <1>5 DEF TypeOK, vars, fence, rows, locals
<1> QED BY <1>1, <1>2, <1>3, <1>4, <1>5 DEF Next

(***************************************************************************)
(* Every state of the store and of the calls on it is well typed, whatever   *)
(* the callers, effects, epochs and attempts.                              *)
(***************************************************************************)
THEOREM TypeCorrect == Spec => []TypeOK
<1>1. ASSUME Init PROVE TypeOK
  <2>1. call \in [Callers -> Call]
    BY <1>1, BoundsArePositive DEF Init, Call, Epochs
  <2>2. 0 \in Epochs /\ 0 \in 0..(MaxAttempts - 1)
    BY BoundsArePositive DEF Epochs
  <2> QED BY <1>1, <2>1, <2>2, NothingHeldType, NoRowType
          DEF Init, TypeOK, Steps, Stages, Outcomes
<1> QED BY <1>1, TypeStep, PTL DEF Spec
-----------------------------------------------------------------------------
(***************************************************************************)
(* The rows.                                                               *)
(***************************************************************************)
LEMMA InsertRows ==
    ASSUME TypeOK, RowsAgree, NEW c \in Callers, CanInsert(c),
           business' = Effect(c),
           receipts' = [receipts EXCEPT ![Effect(c)] =
                           [inserted |-> TRUE, record |-> Effect(c)]],
           UNCHANGED resolutions
    PROVE  RowsAgree' /\ Grows
<1>1. Effect(c) \in Effects /\ Effect(c) # None
  BY EffectType, NoneIsNoEffect
<1>2. ASSUME NEW e \in Effects, e # Effect(c)
      PROVE  receipts'[e] = receipts[e] /\ ~Exists(receipts[e])
  BY <1>1, <1>2 DEF CanInsert, RowsAgree, Exists, TypeOK
<1>3. receipts'[Effect(c)] = [inserted |-> TRUE, record |-> Effect(c)]
  BY <1>1 DEF TypeOK
<1>4. \A e \in Effects : resolutions[e].closed => resolutions[e].observed = None
  BY DEF CanInsert, RowsAgree
<1>5. RowsAgree'
  BY <1>1, <1>2, <1>3, <1>4 DEF RowsAgree, CanInsert, Exists
<1>6. Grows
  BY <1>1, <1>2 DEF Grows, CanInsert
<1> QED BY <1>5, <1>6

LEMMA PresentRows ==
    ASSUME TypeOK, RowsAgree, NEW c \in Callers, CanRetainPresent(c),
           held[c].business # None, held[c].business # Effect(c),
           receipts' = [receipts EXCEPT ![Effect(c)] =
                           [inserted |-> FALSE, record |-> held[c].business]],
           UNCHANGED <<business, resolutions>>
    PROVE  RowsAgree' /\ Grows
<1>1. Effect(c) \in Effects
  BY EffectType
<1>2. \A e \in Effects : e # Effect(c) => receipts'[e] = receipts[e]
  BY DEF TypeOK
<1>3. receipts'[Effect(c)] = [inserted |-> FALSE, record |-> business]
  BY <1>1 DEF TypeOK, CanRetainPresent
<1>4. RowsAgree'
  BY <1>1, <1>2, <1>3 DEF RowsAgree, CanRetainPresent, Exists
<1>5. Grows
  BY <1>1, <1>2 DEF Grows, CanRetainPresent
<1> QED BY <1>4, <1>5

LEMMA CloseRows ==
    ASSUME TypeOK, RowsAgree, NEW c \in Callers, CanClose(c),
           resolutions' = [resolutions EXCEPT ![Effect(c)] =
                              [closed |-> TRUE, observed |-> held[c].business]],
           UNCHANGED <<business, receipts>>
    PROVE  RowsAgree' /\ Grows
<1>1. Effect(c) \in Effects
  BY EffectType
<1>2. \A e \in Effects : e # Effect(c) => resolutions'[e] = resolutions[e]
  BY DEF TypeOK
<1>3. resolutions'[Effect(c)] = [closed |-> TRUE, observed |-> business]
  BY <1>1 DEF TypeOK, CanClose
<1>4. RowsAgree'
  BY <1>1, <1>2, <1>3 DEF RowsAgree, CanClose, Exists
<1>5. Grows
  BY <1>1, <1>2 DEF Grows, CanClose
<1> QED BY <1>4, <1>5

LEMMA SameRows ==
    ASSUME TypeOK, RowsAgree, UNCHANGED rows
    PROVE  RowsAgree' /\ Grows
BY DEF RowsAgree, Grows, rows

\* A decision that rows show is the decision for ever.
LEMMA DecisionsStay ==
    ASSUME TypeOK, RowsAgree, RowsAgree', Grows, NEW e \in Effects,
           Disposition(e) # "open"
    PROVE  Disposition(e)' = Disposition(e)
BY DEF Grows, RowsAgree, Disposition, Exists

\* A call that does not move may still rely on what it holds.
LEMMA RestingCall ==
    ASSUME TypeOK, RowsAgree, RowsAgree', Grows, NEW c \in Callers,
           CallAgrees(c), Rests(c)
    PROVE  CallAgrees(c)'
<1>1. Effect(c)' = Effect(c) /\ Effect(c) \in Effects /\ Effect(c) # None
  BY EffectType, NoneIsNoEffect DEF Rests, Effect
<1>2. HoldsRows(c)'
  <2>1. Exists(held[c].receipt) => receipts'[Effect(c)] = receipts[Effect(c)]
    BY <1>1 DEF Grows, CallAgrees, HoldsRows
  <2>2. held[c].resolution.closed => resolutions'[Effect(c)] = resolutions[Effect(c)]
    BY <1>1 DEF Grows, CallAgrees, HoldsRows
  <2>3. pc[c] \in {"present", "close"} /\ held[c].business # None => business' = business
    BY DEF Grows, CallAgrees, HoldsRows
  <2> QED BY <1>1, <2>1, <2>2, <2>3 DEF CallAgrees, HoldsRows, Rests
<1>3. FindsWinner(c)'
  BY <1>1 DEF CallAgrees, FindsWinner, Rests, Grows
<1>4. AnswersAgree(c)'
  <2>1. outcome[c] \in {"inserted", "present", "not-applied"} =>
           Disposition(Effect(c))' = Disposition(Effect(c))
    BY <1>1, DecisionsStay DEF CallAgrees, AnswersAgree
  <2> QED BY <1>1, <2>1 DEF CallAgrees, AnswersAgree, Rests
<1> QED BY <1>2, <1>3, <1>4 DEF CallAgrees
-----------------------------------------------------------------------------
(***************************************************************************)
(* The calls.                                                              *)
(***************************************************************************)
\* An answer that claims nothing.
LEMMA PlainAnswer ==
    ASSUME TypeOK, NEW c \in Callers,
           NEW o \in {"unknown", "retired", "stale", "error"}, Answer(c, o)
    PROVE  CallAgrees(c)'
<1>1. pc'[c] = "done" /\ held'[c] = NothingHeld /\ outcome'[c] = o /\ stage'[c] = "first"
  BY DEF Answer, TypeOK
<1> QED BY <1>1 DEF CallAgrees, HoldsRows, FindsWinner, AnswersAgree,
                   NothingHeld, NoReceipt, NoResolution, Exists

LEMMA ReadingCall ==
    ASSUME TypeOK, NEW c \in Callers, NEW why \in Stages, ReadDisposition(c, why),
           CallAgrees(c), pc[c] # "done", why = "winner" => business' = Effect(c)
    PROVE  CallAgrees(c)'
<1>1. /\ pc'[c] = "disposition" /\ held'[c] = NothingHeld
      /\ stage'[c] = why /\ outcome'[c] = outcome[c] /\ Effect(c)' = Effect(c)
  BY DEF ReadDisposition, TypeOK, Effect
<1>2. outcome[c] = "none"
  BY DEF CallAgrees, AnswersAgree
<1> QED BY <1>1, <1>2 DEF CallAgrees, HoldsRows, FindsWinner, AnswersAgree,
                          NothingHeld, NoReceipt, NoResolution, Exists

\* A step inside a call that reads no row.
LEMMA GoingCall ==
    ASSUME TypeOK, NEW c \in Callers,
           NEW step \in {"substantiate", "retirement", "authority", "business", "insert"},
           Goto(c, step), UNCHANGED rows, CallAgrees(c),
           pc[c] \notin {"done"},
           step = "substantiate" =>
              Exists(held[c].receipt) \/ held[c].resolution.closed
    PROVE  CallAgrees(c)'
<1>1. /\ pc'[c] = step /\ held'[c] = held[c] /\ outcome'[c] = outcome[c]
      /\ Effect(c)' = Effect(c)
  BY DEF Goto, TypeOK, Effect
<1> QED BY <1>1 DEF CallAgrees, HoldsRows, FindsWinner, AnswersAgree, rows

LEMMA RetryingCall ==
    ASSUME TypeOK, NEW c \in Callers, NEW step \in {"insert", "business"},
           TryAgain(c, step), UNCHANGED rows, CallAgrees(c), pc[c] # "done"
    PROVE  CallAgrees(c)'
<1>1. CASE attempt[c] + 1 < MaxAttempts
  <2>1. /\ pc'[c] = step /\ held'[c] = held[c] /\ outcome'[c] = outcome[c]
        /\ Effect(c)' = Effect(c)
    BY <1>1 DEF TryAgain, TypeOK, Effect
  <2> QED BY <2>1 DEF CallAgrees, HoldsRows, FindsWinner, AnswersAgree, rows
<1>2. CASE ~(attempt[c] + 1 < MaxAttempts)
  BY <1>2, PlainAnswer DEF TryAgain
<1> QED BY <1>1, <1>2

\* After its own write a call holds the row it wrote.
LEMMA WritingCall ==
    ASSUME TypeOK, NEW c \in Callers, NEW r \in Receipt, NEW s \in Resolution,
           WriteReturns(c, r, s), CallAgrees(c), pc[c] # "done",
           Exists(r) => receipts'[Effect(c)] = r,
           s.closed => resolutions'[Effect(c)] = s,
           Exists(r) \/ s.closed
    PROVE  CallAgrees(c)'
<1>1. /\ pc'[c] = "substantiate" /\ outcome'[c] = outcome[c]
      /\ Effect(c)' = Effect(c)
      /\ held'[c].receipt = r /\ held'[c].resolution = s
  BY DEF WriteReturns, TypeOK, Effect, NothingHeld
<1> QED BY <1>1 DEF CallAgrees, HoldsRows, FindsWinner, AnswersAgree

\* What a substantiated row says is what the store says.
LEMMA DecisionIsRight ==
    ASSUME TypeOK, RowsAgree, NEW c \in Callers, CallAgrees(c),
           pc[c] = "substantiate"
    PROVE  /\ Decision(c) \in {"inserted", "present", "not-applied", "unknown"}
           /\ Decision(c) # "unknown" => Decision(c) = Disposition(Effect(c))
<1>1. Effect(c) \in Effects
  BY EffectType
<1>2. CASE Exists(held[c].receipt)
  <2>1. held[c].receipt = receipts[Effect(c)]
    BY <1>2 DEF CallAgrees, HoldsRows
  <2>2. ReceiptIsSubstantiated(c)
    BY <1>1, <1>2, <2>1 DEF RowsAgree, ReceiptIsSubstantiated
  <2> QED BY <1>2, <2>1, <2>2 DEF Decision, Disposition
<1>3. CASE ~Exists(held[c].receipt)
  <2>1. held[c].resolution.closed /\ held[c].resolution = resolutions[Effect(c)]
    BY <1>3 DEF CallAgrees, HoldsRows
  <2>2. ~Exists(receipts[Effect(c)]) /\ business # Effect(c)
    BY <1>1, <2>1 DEF RowsAgree
  <2>3. ResolutionIsSubstantiated(c)
    BY <1>1, <2>1, <2>2 DEF RowsAgree, ResolutionIsSubstantiated
  <2> QED BY <1>3, <2>1, <2>2, <2>3 DEF Decision, Disposition
<1> QED BY <1>2, <1>3

LEMMA AnsweringCall ==
    ASSUME TypeOK, RowsAgree, NEW c \in Callers, CallAgrees(c), Substantiate(c)
    PROVE  CallAgrees(c)'
<1>1. /\ pc'[c] = "done" /\ held'[c] = NothingHeld /\ stage'[c] = "first"
      /\ outcome'[c] = Decision(c) /\ Effect(c)' = Effect(c)
  BY DEF Substantiate, Answer, TypeOK, Effect
<1>2. Disposition(Effect(c))' = Disposition(Effect(c))
  BY <1>1 DEF Substantiate, rows, Disposition
<1>3. /\ Decision(c) \in {"inserted", "present", "not-applied", "unknown"}
      /\ Decision(c) # "unknown" => Decision(c) = Disposition(Effect(c))
  BY DecisionIsRight DEF Substantiate
<1> QED BY <1>1, <1>2, <1>3 DEF CallAgrees, HoldsRows, FindsWinner, AnswersAgree,
                   NothingHeld, NoReceipt, NoResolution, Exists

\* A step that changes no row moves one call.
LEMMA QuietStep ==
    ASSUME TypeOK, Store, NEW c \in Callers, CallerStep(c), UNCHANGED rows
    PROVE  CallAgrees(c)'
<1> USE DEF Store
<1>0. Effect(c) \in Effects /\ Effect(c) # None /\ RowsAgree /\ CallAgrees(c)
  BY EffectType, NoneIsNoEffect
<1>1. ASSUME NEW k \in Call, Begin(c, k) PROVE CallAgrees(c)'
  <2>1. /\ pc[c] = "idle" /\ pc'[c] = "disposition" /\ held'[c] = held[c]
        /\ stage'[c] = stage[c] /\ outcome'[c] = outcome[c]
    BY <1>1 DEF Begin, TypeOK
  <2>2. held[c] = NothingHeld /\ stage[c] = "first" /\ outcome[c] = "none"
    BY <1>0, <2>1 DEF CallAgrees, AnswersAgree
  <2> QED BY <2>1, <2>2 DEF CallAgrees, HoldsRows, FindsWinner, AnswersAgree,
                            NothingHeld, NoReceipt, NoResolution, Exists
<1>2. CASE ReadReceipt(c)
  <2>1. /\ pc[c] = "disposition" /\ pc'[c] = pc[c] /\ stage'[c] = stage[c]
        /\ outcome'[c] = outcome[c] /\ Effect(c)' = Effect(c)
    BY <1>2 DEF ReadReceipt, Effect
  <2>2. held'[c].receipt = receipts[Effect(c)] /\ held'[c].resolution = held[c].resolution
    BY <1>2 DEF ReadReceipt, TypeOK, Held
  <2>3. stage[c] = "winner" => Exists(receipts[Effect(c)])
    BY <1>0, <2>1 DEF CallAgrees, FindsWinner, RowsAgree
  <2> QED BY <1>0, <2>1, <2>2, <2>3
          DEF CallAgrees, HoldsRows, FindsWinner, AnswersAgree, rows
<1>3. CASE ReadResolution(c)
  <2>1. /\ pc[c] = "disposition" /\ pc'[c] = pc[c] /\ stage'[c] = stage[c]
        /\ outcome'[c] = outcome[c] /\ Effect(c)' = Effect(c)
    BY <1>3 DEF ReadResolution, Effect
  <2>2. /\ held'[c].resolution = resolutions[Effect(c)]
        /\ held'[c].receipt = held[c].receipt
        /\ "receipt" \in held'[c].known => "receipt" \in held[c].known
    BY <1>3 DEF ReadResolution, TypeOK, Held
  <2> QED BY <1>0, <2>1, <2>2
          DEF CallAgrees, HoldsRows, FindsWinner, AnswersAgree, rows
<1>4. CASE ExamineDisposition(c)
  <2>1. ~(Exists(held[c].receipt) /\ held[c].resolution.closed)
    BY <1>0 DEF CallAgrees, HoldsRows, RowsAgree
  <2>2. stage[c] = "winner" => Exists(held[c].receipt)
    BY <1>0, <1>4 DEF CallAgrees, FindsWinner, ExamineDisposition
  <2>3. pc[c] # "done" /\ UNCHANGED rows
    BY <1>4 DEF ExamineDisposition
  <2>4. held[c].resolution.closed \in BOOLEAN /\ Exists(held[c].receipt) \in BOOLEAN
    BY EffectType DEF Held, Resolution, Exists
  <2>5. \/ /\ Goto(c, "substantiate")
           /\ Exists(held[c].receipt) \/ held[c].resolution.closed
        \/ Goto(c, "retirement")
        \/ Answer(c, "unknown")
    BY <1>4, <2>1, <2>2, <2>4 DEF ExamineDisposition, Undecided
  <2> QED BY <1>0, <2>3, <2>5, PlainAnswer, GoingCall
<1>5. CASE Substantiate(c)
  BY <1>0, <1>5, AnsweringCall
<1>6. CASE ReadRetirement(c)
  BY <1>0, <1>6, PlainAnswer, GoingCall DEF ReadRetirement
<1>7. CASE ReadAuthority(c)
  BY <1>0, <1>7, PlainAnswer, GoingCall, RetryingCall DEF ReadAuthority
<1>8. CASE ReadBusiness(c)
  <2>1. CASE ReadDisposition(c, "winner") /\ business = Effect(c)
    BY <1>0, <1>8, <2>1, ReadingCall DEF ReadBusiness, rows, Stages
  <2>2. ASSUME NEW step \in {"present", "close"}, Hold(c, step), business # Effect(c),
               step = "present" => business # None
        PROVE  CallAgrees(c)'
    <3>1. /\ pc'[c] = step /\ stage'[c] = stage[c]
          /\ outcome'[c] = outcome[c] /\ Effect(c)' = Effect(c)
      BY <2>2 DEF Hold, TypeOK, Effect
    <3>2. /\ held'[c].receipt = held[c].receipt
          /\ held'[c].resolution = held[c].resolution
          /\ held'[c].business = business
      BY <2>2 DEF Hold, TypeOK, Held
    <3> QED BY <1>0, <1>8, <2>2, <3>1, <3>2
            DEF CallAgrees, HoldsRows, FindsWinner, AnswersAgree, rows, ReadBusiness
  <2>3. CASE TryAgain(c, "insert")
    BY <1>0, <1>8, <2>3, RetryingCall DEF ReadBusiness
  <2>4. \/ ReadDisposition(c, "winner") /\ business = Effect(c)
        \/ Hold(c, "close") /\ business # Effect(c)
        \/ TryAgain(c, "insert")
        \/ Hold(c, "present") /\ business # Effect(c) /\ business # None
    BY <1>8 DEF ReadBusiness
  <2> QED BY <2>1, <2>2, <2>3, <2>4
<1>9. CASE Insert(c)
  <2>1. CASE WriteFails(c, "failed")
    BY <1>0, <1>9, <2>1, ReadingCall DEF Insert, WriteFails, Stages
  <2>2. CASE business' = Effect(c) /\ CanInsert(c)
    BY <1>0, <2>2 DEF CanInsert, rows
  <2> QED BY <1>9, <2>1, <2>2 DEF Insert
<1>10. CASE RetainPresent(c)
  <2>1. CASE WriteFails(c, "conflict")
    BY <1>0, <1>10, <2>1, ReadingCall DEF RetainPresent, WriteFails, Stages
  <2>2. CASE CanRetainPresent(c) /\ receipts' = [receipts EXCEPT ![Effect(c)] =
                 [inserted |-> FALSE, record |-> held[c].business]]
    <3>1. receipts'[Effect(c)].record = held[c].business
      BY <1>0, <2>2 DEF TypeOK
    <3>2. held[c].business # None
      BY <1>0, <1>10 DEF CallAgrees, HoldsRows, RetainPresent
    <3> QED BY <2>2, <3>1, <3>2 DEF CanRetainPresent, Exists, rows
  <2> QED BY <1>10, <2>1, <2>2 DEF RetainPresent
<1>11. CASE Close(c)
  <2>1. CASE WriteFails(c, "failed")
    BY <1>0, <1>11, <2>1, ReadingCall DEF Close, WriteFails, Stages
  <2>2. CASE CanClose(c) /\ resolutions' = [resolutions EXCEPT ![Effect(c)] =
                 [closed |-> TRUE, observed |-> held[c].business]]
    <3>1. resolutions'[Effect(c)].closed
      BY <1>0, <2>2 DEF TypeOK
    <3> QED BY <2>2, <3>1 DEF CanClose, rows
  <2> QED BY <1>11, <2>1, <2>2 DEF Close
<1>12. CASE Leave(c)
  <2>1. /\ pc'[c] = "idle" /\ held'[c] = NothingHeld /\ stage'[c] = "first"
        /\ outcome'[c] = "none"
    BY <1>12 DEF Leave, TypeOK
  <2> QED BY <2>1 DEF CallAgrees, HoldsRows, FindsWinner, AnswersAgree,
                      NothingHeld, NoReceipt, NoResolution, Exists
<1> QED BY <1>1, <1>2, <1>3, <1>4, <1>5, <1>6, <1>7, <1>8, <1>9, <1>10, <1>11,
           <1>12 DEF CallerStep

\* A step of one call leaves the others where they are.
LEMMA OthersRest ==
    ASSUME TypeOK, NEW c \in Callers, CallerStep(c), NEW d \in Callers, d # c
    PROVE  Rests(d)
BY DEF TypeOK, CallerStep, Begin, ReadReceipt, ReadResolution, ExamineDisposition,
       Undecided, Substantiate, ReadRetirement, ReadAuthority, ReadBusiness,
       Insert, RetainPresent, Close, Leave, Answer, Goto, TryAgain, Hold,
       ReadDisposition, WriteFails, WriteReturns, Rests

\* The three transactions.
LEMMA WriteStep ==
    ASSUME TypeOK, Store, NEW c \in Callers, Insert(c) \/ RetainPresent(c) \/ Close(c)
    PROVE  /\ UNCHANGED rows \/ (RowsAgree' /\ Grows /\ CallAgrees(c)')
           /\ UNCHANGED rows \/ Fenced(c)
<1> USE DEF Store
<1>0. Effect(c) \in Effects /\ Effect(c) # None /\ RowsAgree /\ CallAgrees(c)
  BY EffectType, NoneIsNoEffect
<1>1. CASE Insert(c)
  <2> DEFINE receipt == [inserted |-> TRUE, record |-> Effect(c)]
  <2>1. CASE UNCHANGED rows
    BY <2>1
  <2>2. CASE /\ CanInsert(c)
             /\ business' = Effect(c)
             /\ receipts' = [receipts EXCEPT ![Effect(c)] = receipt]
             /\ WriteReturns(c, receipt, NoResolution) \/ WriteFails(c, "failed")
    <3>1. RowsAgree' /\ Grows
      BY <1>0, <1>1, <2>2, InsertRows DEF Insert
    <3>2. receipts'[Effect(c)] = receipt /\ receipt \in Receipt
      BY <1>0, <2>2 DEF TypeOK, Receipt
    <3>3. CallAgrees(c)'
      BY <1>0, <1>1, <2>2, <3>2, NoRowType, WritingCall, ReadingCall
         DEF Insert, WriteFails, Stages, Exists, NoResolution
    <3> QED BY <2>2, <3>1, <3>3 DEF CanInsert
  <2> QED BY <1>1, <2>1, <2>2 DEF Insert, rows
<1>2. CASE RetainPresent(c)
  <2> DEFINE receipt == [inserted |-> FALSE, record |-> held[c].business]
  <2>0. held[c].business # None /\ held[c].business # Effect(c)
    BY <1>0, <1>2 DEF CallAgrees, HoldsRows, RetainPresent
  <2>1. CASE UNCHANGED rows
    BY <2>1
  <2>2. CASE /\ CanRetainPresent(c)
             /\ receipts' = [receipts EXCEPT ![Effect(c)] = receipt]
             /\ WriteReturns(c, receipt, NoResolution) \/ WriteFails(c, "conflict")
    <3>1. RowsAgree' /\ Grows
      BY <1>0, <1>2, <2>0, <2>2, PresentRows DEF RetainPresent
    <3>2. receipts'[Effect(c)] = receipt /\ receipt \in Receipt
      BY <1>0, <2>2, EffectType DEF TypeOK, Receipt, Held
    <3>3. CallAgrees(c)'
      BY <1>0, <1>2, <2>0, <2>2, <3>2, NoRowType, WritingCall, ReadingCall
         DEF RetainPresent, WriteFails, Stages, Exists, NoResolution
    <3> QED BY <2>2, <3>1, <3>3 DEF CanRetainPresent
  <2> QED BY <1>2, <2>1, <2>2 DEF RetainPresent, rows
<1>3. CASE Close(c)
  <2> DEFINE resolution == [closed |-> TRUE, observed |-> held[c].business]
  <2>1. CASE UNCHANGED rows
    BY <2>1
  <2>2. CASE /\ CanClose(c)
             /\ resolutions' = [resolutions EXCEPT ![Effect(c)] = resolution]
             /\ WriteReturns(c, NoReceipt, resolution) \/ WriteFails(c, "failed")
    <3>1. RowsAgree' /\ Grows
      BY <1>0, <1>3, <2>2, CloseRows DEF Close
    <3>2. resolutions'[Effect(c)] = resolution /\ resolution \in Resolution
      BY <1>0, <2>2, EffectType DEF TypeOK, Resolution, Held
    <3>3. CallAgrees(c)'
      BY <1>0, <1>3, <2>2, <3>2, NoRowType, WritingCall, ReadingCall
         DEF Close, WriteFails, Stages, Exists, NoReceipt
    <3> QED BY <2>2, <3>1, <3>3 DEF CanClose
  <2> QED BY <1>3, <2>1, <2>2 DEF Close, rows
<1> QED BY <1>1, <1>2, <1>3

LEMMA StoreStep ==
    ASSUME TypeOK, Store, [Next]_vars
    PROVE  Store'
<1> USE DEF Store
<1>1. CASE UNCHANGED <<rows, locals>>
  <2>1. RowsAgree' /\ Grows
    BY <1>1, SameRows
  <2>2. \A c \in Callers : Rests(c)
    BY <1>1 DEF locals, Rests
  <2> QED BY <2>1, <2>2, RestingCall
<1>2. ASSUME NEW c \in Callers, CallerStep(c) PROVE Store'
  <2>1. UNCHANGED rows \/ Insert(c) \/ RetainPresent(c) \/ Close(c)
    BY <1>2 DEF CallerStep, Begin, ReadReceipt, ReadResolution, ExamineDisposition,
                Substantiate, ReadRetirement, ReadAuthority, ReadBusiness, Leave
  <2>2. RowsAgree' /\ Grows /\ CallAgrees(c)'
    BY <1>2, <2>1, SameRows, QuietStep, WriteStep
  <2>3. \A d \in Callers : d # c => CallAgrees(d)'
    BY <1>2, <2>2, OthersRest, RestingCall
  <2> QED BY <2>2, <2>3
<1> QED BY <1>1, <1>2 DEF Next, Adopt, Retire, Reactivate, vars

LEMMA StoreInvariant == Spec => [](TypeOK /\ Store)
<1>1. ASSUME Init PROVE Store
  <2>1. RowsAgree
    BY <1>1, NoneIsNoEffect DEF Init, RowsAgree, Exists, NoReceipt, NoResolution
  <2>2. ASSUME NEW c \in Callers PROVE CallAgrees(c)
    <3>1. /\ pc[c] = "idle" /\ stage[c] = "first" /\ outcome[c] = "none"
          /\ held[c] = NothingHeld
      BY <1>1 DEF Init
    <3> QED BY <3>1 DEF CallAgrees, HoldsRows, FindsWinner, AnswersAgree,
                        Exists, NoReceipt, NoResolution, NothingHeld
  <2> QED BY <2>1, <2>2 DEF Store
<1>2. TypeOK /\ Store /\ [Next]_vars => Store'
  BY StoreStep
<1> QED BY <1>1, <1>2, TypeCorrect, PTL DEF Spec

(***************************************************************************)
(* Every answer that reports a decision reports the permanent one, and no     *)
(* call mistakes the progress of another for a corrupt store.                *)
(***************************************************************************)
THEOREM AnswersCorrect == Spec => []AnswersAreTrue
<1>1. Store => AnswersArePermanent
  BY DEF Store, CallAgrees, AnswersAgree, AnswersArePermanent
<1>2. Store => NoCallFindsCorruption
  BY DEF Store, CallAgrees, AnswersAgree, NoCallFindsCorruption
<1> QED BY <1>1, <1>2, StoreInvariant, PTL DEF AnswersAreTrue

(***************************************************************************)
(* A retired store is sealed.                                              *)
(***************************************************************************)
THEOREM SealCorrect == Spec => RetiredStoreIsSealed
<1> DEFINE Sealed == retired => /\ UNCHANGED rows
                                /\ retired' \/ authority' > authority
<1>1. TypeOK /\ Store /\ [Next]_vars => [Sealed]_vars
  <2> SUFFICES ASSUME TypeOK, Store, Next, retired PROVE Sealed
    OBVIOUS
  <2>1. CASE Adopt \/ Retire
    BY <2>1 DEF Adopt, Retire, Fence!Adopt, Fence!Retire
  <2>2. CASE Reactivate
    BY <2>2 DEF Reactivate, Fence!Reactivate, Fence!Advance, Epochs, TypeOK
  <2>3. ASSUME NEW c \in Callers, CallerStep(c) PROVE Sealed
    <3>1. UNCHANGED rows \/ Insert(c) \/ RetainPresent(c) \/ Close(c)
      BY <2>3 DEF CallerStep, Begin, ReadReceipt, ReadResolution, ExamineDisposition,
                  Substantiate, ReadRetirement, ReadAuthority, ReadBusiness, Leave
    <3>2. UNCHANGED rows
      BY <3>1, WriteStep DEF Fenced
    <3>3. UNCHANGED fence
      BY <2>3 DEF CallerStep, Begin, ReadReceipt, ReadResolution, ExamineDisposition,
                  Substantiate, ReadRetirement, ReadAuthority, ReadBusiness, Insert,
                  RetainPresent, Close, Leave
    <3> QED BY <3>2, <3>3 DEF fence
  <2> QED BY <2>1, <2>2, <2>3 DEF Next
<1> QED BY <1>1, StoreInvariant, PTL DEF Spec, RetiredStoreIsSealed
-----------------------------------------------------------------------------
(***************************************************************************)
(* The refinement.                                                         *)
(***************************************************************************)
Decisions == [e \in Effects |-> Disposition(e)]

\* One effect was decided, all others are as before.
LEMMA OneDecision ==
    ASSUME NEW e \in Effects, NEW d,
           \A f \in Effects : f # e => Disposition(f)' = Disposition(f),
           Disposition(e) = "open", Disposition(e)' = d
    PROVE  Decisions[e] = "open" /\ Decisions' = [Decisions EXCEPT ![e] = d]
BY DEF Decisions

LEMMA StepDecides ==
    ASSUME TypeOK, Store, [Next]_vars
    PROVE  [Destination!Next]_<<business, Decisions>>
<1> USE DEF Store
<1>1. CASE UNCHANGED rows
  BY <1>1 DEF rows, Decisions, Disposition
<1>2. ASSUME NEW c \in Callers,
             Insert(c) \/ RetainPresent(c) \/ Close(c), ~UNCHANGED rows
      PROVE  Destination!Next
  <2>0. PICK e \in Effects : e = Effect(c)
    BY EffectType
  <2>1. CASE Insert(c)
    <3>1. /\ CanInsert(c) /\ business' = e /\ UNCHANGED resolutions
          /\ receipts' = [receipts EXCEPT ![e] =
                             [inserted |-> TRUE, record |-> e]]
      BY <1>2, <2>0, <2>1 DEF Insert, rows
    <3>2. Disposition(e) = "open" /\ Disposition(e)' = "inserted"
      BY <2>0, <3>1, NoneIsNoEffect DEF Disposition, CanInsert, TypeOK, Exists
    <3>3. \A f \in Effects : f # e => Disposition(f)' = Disposition(f)
      BY <2>0, <3>1 DEF Disposition, TypeOK
    <3> QED BY <2>0, <3>1, <3>2, <3>3, OneDecision
            DEF Destination!Next, Destination!Insert, Destination!Decide, Decisions,
                CanInsert
  <2>2. CASE RetainPresent(c)
    <3>1. /\ CanRetainPresent(c) /\ UNCHANGED <<business, resolutions>>
          /\ receipts' = [receipts EXCEPT ![e] =
                             [inserted |-> FALSE, record |-> held[c].business]]
      BY <1>2, <2>0, <2>2 DEF RetainPresent, rows
    <3>2. business # None /\ held[c].business # None
      BY <2>0, <2>2, <3>1 DEF CallAgrees, HoldsRows, RetainPresent
    <3>3. Disposition(e) = "open" /\ Disposition(e)' = "present"
      BY <2>0, <3>1, <3>2 DEF Disposition, CanRetainPresent, TypeOK, Exists
    <3>4. \A f \in Effects : f # e => Disposition(f)' = Disposition(f)
      BY <2>0, <3>1 DEF Disposition, TypeOK
    <3> QED BY <2>0, <3>1, <3>2, <3>3, <3>4, OneDecision
            DEF Destination!Next, Destination!FindPresent, Destination!Decide, Decisions
  <2>3. CASE Close(c)
    <3>1. /\ CanClose(c) /\ UNCHANGED <<business, receipts>>
          /\ resolutions' = [resolutions EXCEPT ![e] =
                                [closed |-> TRUE, observed |-> held[c].business]]
      BY <1>2, <2>0, <2>3 DEF Close, rows
    <3>2. Disposition(e) = "open" /\ Disposition(e)' = "not-applied"
      BY <2>0, <3>1 DEF Disposition, CanClose, TypeOK, Exists
    <3>3. \A f \in Effects : f # e => Disposition(f)' = Disposition(f)
      BY <2>0, <3>1 DEF Disposition, TypeOK
    <3> QED BY <2>0, <3>1, <3>2, <3>3, OneDecision
            DEF Destination!Next, Destination!Close, Destination!Decide, Decisions
  <2> QED BY <1>2, <2>1, <2>2, <2>3
<1>3. \/ UNCHANGED rows
      \/ \E c \in Callers : Insert(c) \/ RetainPresent(c) \/ Close(c)
  BY DEF Next, vars, Adopt, Retire, Reactivate, CallerStep, Begin, ReadReceipt,
         ReadResolution, ExamineDisposition, Substantiate, ReadRetirement,
         ReadAuthority, ReadBusiness, Leave
<1> QED BY <1>1, <1>2, <1>3

(***************************************************************************)
(* Every step of the store decides one effect as its promise allows, or      *)
(* decides nothing.                                                        *)
(***************************************************************************)
THEOREM DestinationImplemented == Spec => DestinationSpec
<1>1. Init => Destination!Init
  BY DEF Init, Destination!Init, Disposition, Exists, NoReceipt, NoResolution
<1>2. TypeOK /\ Store /\ [Next]_vars => [Destination!Next]_<<business, Decisions>>
  BY StepDecides
<1> QED BY <1>1, <1>2, StoreInvariant, PTL
        DEF Spec, DestinationSpec, Destination!Spec, Decisions
-----------------------------------------------------------------------------
(***************************************************************************)
(* The transfers.  A caller decides from rows it read one after the other,    *)
(* so all it knows is how the table has moved since: the authority only       *)
(* advances, and a seal is only ever lifted by a higher epoch (Moves).  What  *)
(* it saw then still bounds what is (SeenAgrees), which is enough for what it *)
(* writes (Sends) and for what it was told (AnswerHolds).                    *)
(***************************************************************************)
TableAgrees ==
    /\ Transfer!Retired(table) =>
          table.retirement.epoch = table.authority /\ table.retirement.epoch \in sealed
    /\ \A e \in sealed :
          e <= table.authority /\ (Transfer!Retired(table) \/ e < table.authority)

SeenAgrees(c) ==
    /\ seen[c].authority <= table.authority
    /\ Transfer!Retired(seen[c]) =>
          \/ seen[c].retirement = table.retirement
          \/ seen[c].retirement.epoch < table.authority

Sends(c) ==
    phase[c] = "write" =>
        /\ unread[c] = <<>>
        /\ request[c].op = "adopt" => seen[c].authority < request[c].epoch
        /\ request[c].op = "reactivate" =>
              Transfer!Retired(seen[c]) /\ ~Transfer!IsSuperseded(c)

AnswerHolds(c) ==
    /\ answer[c] \in {"adopted", "reactivated"} => request[c].epoch <= table.authority
    /\ answer[c] = "sealed" =>
          \/ table.retirement = Transfer!Candidate(c)
          \/ request[c].epoch < table.authority
    /\ phase[c] # "done" => answer[c] = "none"

Transferring(c) == SeenAgrees(c) /\ Sends(c) /\ AnswerHolds(c)

TransferInv == Transfer!TypeOK /\ TableAgrees /\ \A c \in Callers : Transferring(c)

\* How the table moves.
Moves ==
    /\ table'.authority >= table.authority
    /\ Transfer!Retired(table) /\ table'.retirement # table.retirement =>
          table.retirement.epoch < table'.authority

LEMMA TransferTypes ==
    ASSUME TransferInv, NEW c \in Callers
    PROVE  /\ table \in Transfer!Rows /\ seen[c] \in Transfer!Rows
           /\ request[c] \in Transfer!Call /\ request[c].epoch \in Nat
           /\ unread[c] \in Seq({"authority", "retirement", "activation"})
           /\ request[c].epoch \in Transfer!Epochs /\ request[c].transfer \in Transfers
           /\ table.authority \in Nat /\ seen[c].authority \in Nat
           /\ table.retirement \in Transfer!Record /\ seen[c].retirement \in Transfer!Record
           /\ table.retirement.epoch \in Nat /\ seen[c].retirement.epoch \in Nat
           /\ SeenAgrees(c) /\ Sends(c) /\ AnswerHolds(c)
<1>1. /\ table \in Transfer!Rows /\ seen[c] \in Transfer!Rows /\ request[c] \in Transfer!Call
      /\ unread[c] \in Seq({"authority", "retirement", "activation"})
  BY DEF TransferInv, Transfer!TypeOK
<1>2. /\ request[c].epoch \in Transfer!Epochs /\ request[c].transfer \in Transfers
      /\ request[c].epoch \in Nat
  BY <1>1, TransferEpochs DEF Transfer!Call, Transfer!Epochs
<1>3. /\ table.authority \in Nat /\ seen[c].authority \in Nat
      /\ table.retirement \in Transfer!Record /\ seen[c].retirement \in Transfer!Record
  BY <1>1, TransferEpochs DEF Transfer!Rows
<1>4. table.retirement.epoch \in Nat /\ seen[c].retirement.epoch \in Nat
  BY <1>3, TransferEpochs DEF Transfer!Record
<1>5. SeenAgrees(c) /\ Sends(c) /\ AnswerHolds(c)
  BY DEF TransferInv, Transferring
<1> QED BY <1>1, <1>2, <1>3, <1>4, <1>5

LEMMA CandidateIs ==
    ASSUME TransferInv, NEW c \in Callers
    PROVE  /\ Transfer!Candidate(c) \in Transfer!Record
           /\ Transfer!Candidate(c) # Transfer!NoRecord
           /\ Transfer!Candidate(c).epoch = request[c].epoch
           /\ Transfer!Candidate(c).transfer = request[c].transfer
<1>1. request[c].epoch \in Transfer!Epochs /\ request[c].transfer \in Transfers
  BY TransferTypes
<1> QED BY <1>1, TransferEpochs, NoneIsNoTransfer
        DEF Transfer!Candidate, Transfer!Record, Transfer!NoRecord, Transfer!Epochs

\* What a caller saw and was told stays true while others move the table.
LEMMA TransferRests ==
    ASSUME TransferInv, NEW c \in Callers, table' \in Transfer!Rows, Moves,
           phase'[c] = phase[c], request'[c] = request[c], unread'[c] = unread[c],
           seen'[c] = seen[c], answer'[c] = answer[c]
    PROVE  Transferring(c)'
<1>1. table'.authority \in Nat
  BY TransferEpochs DEF Transfer!Rows
<1>2. SeenAgrees(c)'
  BY <1>1, TransferTypes DEF SeenAgrees, Moves, Transfer!Retired
<1>3. Sends(c)'
  BY TransferTypes DEF Sends, Transfer!IsSuperseded, Transfer!Retired
<1>4. AnswerHolds(c)'
  <2>1. Transfer!Candidate(c)' = Transfer!Candidate(c)
    BY DEF Transfer!Candidate
  <2>2. Transfer!Candidate(c) # Transfer!NoRecord
        /\ Transfer!Candidate(c).epoch = request[c].epoch
    BY CandidateIs
  <2> QED BY <1>1, <2>1, <2>2, TransferTypes DEF AnswerHolds, Moves, Transfer!Retired
<1> QED BY <1>2, <1>3, <1>4 DEF Transferring

\* What c saw, when it goes on to another step.
LEMMA SeenStays ==
    ASSUME TransferInv, NEW c \in Callers, table' \in Transfer!Rows, Moves, seen'[c] = seen[c]
    PROVE  SeenAgrees(c)'
<1>1. table'.authority \in Nat
  BY TransferEpochs DEF Transfer!Rows
<1> QED BY <1>1, TransferTypes DEF SeenAgrees, Moves, Transfer!Retired

LEMMA TableRests ==
    ASSUME TransferInv, UNCHANGED <<table, sealed>>
    PROVE  /\ Moves /\ TableAgrees' /\ table' \in Transfer!Rows
           /\ sealed' \subseteq Transfer!Epochs
<1>1. table \in Transfer!Rows /\ sealed \subseteq Transfer!Epochs /\ TableAgrees
  BY DEF TransferInv, Transfer!TypeOK
<1>2. table.authority \in Nat
  BY <1>1, TransferEpochs DEF Transfer!Rows
<1>3. Moves
  BY <1>2 DEF Moves
<1> QED BY <1>1, <1>3 DEF TableAgrees, Transfer!Retired

LEMMA EnterKeeps ==
    ASSUME TransferInv, NEW c \in Callers,
           NEW to \in {"look", "existing", "verify-failed", "failed", "confirm"},
           Transfer!Enter(c, to), phase[c] # "done", UNCHANGED request,
           table' \in Transfer!Rows, sealed' \subseteq Transfer!Epochs, TableAgrees', Moves
    PROVE  TransferInv'
<1>1. /\ phase' = [phase EXCEPT ![c] = to] /\ UNCHANGED <<seen, answer>>
      /\ unread' = [unread EXCEPT ![c] = Transfer!Reads(request[c].op, to)]
  BY DEF Transfer!Enter
<1>2. Transfer!Reads(request[c].op, to) \in Seq({"authority", "retirement", "activation"})
  <2>1. request[c].op \in {"adopt", "retire", "reactivate"}
    BY TransferTypes DEF Transfer!Call
  <2>0. /\ <<"authority", "retirement">> \in Seq({"authority", "retirement", "activation"})
        /\ <<"retirement", "authority">> \in Seq({"authority", "retirement", "activation"})
        /\ <<"retirement">> \in Seq({"authority", "retirement", "activation"})
    OBVIOUS
  <2>2. CASE request[c].op = "adopt"
    <3>1. Transfer!Reads(request[c].op, to) \in
             {<<"authority", "retirement">>, <<"retirement", "authority">>}
      BY <2>2, Zenon DEF Transfer!Reads
    <3> QED BY <2>0, <3>1, Zenon
  <2>3. CASE request[c].op = "retire"
    <3>1. Transfer!Reads(request[c].op, to) \in {<<"retirement", "authority">>, <<"retirement">>}
      BY <2>3 DEF Transfer!Reads
    <3> QED BY <2>0, <3>1, Zenon
  <2>4. CASE request[c].op = "reactivate"
    BY <2>4 DEF Transfer!Reads
  <2> QED BY <2>1, <2>2, <2>3, <2>4
<1>3. Transfer!TypeOK'
  <2>1. to \in Transfer!Phases
    BY DEF Transfer!Phases
  <2> QED BY <1>1, <1>2, <2>1 DEF TransferInv, Transfer!TypeOK
<1>4. phase'[c] = to
  BY <1>1 DEF TransferInv, Transfer!TypeOK
<1>5. Transferring(c)'
  <2>1. SeenAgrees(c)'
    BY <1>1, SeenStays
  <2>2. answer[c] = "none"
    BY TransferTypes DEF AnswerHolds
  <2> QED BY <1>1, <1>4, <2>1, <2>2 DEF Transferring, Sends, AnswerHolds
<1>6. ASSUME NEW d \in Callers, d # c PROVE Transferring(d)'
  <2>1. phase'[d] = phase[d] /\ unread'[d] = unread[d]
    BY <1>1, <1>6 DEF TransferInv, Transfer!TypeOK
  <2> QED BY <1>1, <2>1, TransferRests
<1> QED BY <1>3, <1>5, <1>6 DEF TransferInv

LEMMA SendKeeps ==
    ASSUME TransferInv, NEW c \in Callers, NEW to \in {"verify", "write"},
           Transfer!Send(c, to), phase[c] # "done", unread[c] = <<>>,
           UNCHANGED <<request, table, sealed>>,
           to = "write" /\ request[c].op = "adopt" => seen[c].authority < request[c].epoch,
           to = "write" /\ request[c].op = "reactivate" =>
              Transfer!Retired(seen[c]) /\ ~Transfer!IsSuperseded(c)
    PROVE  TransferInv'
<1>1. /\ phase' = [phase EXCEPT ![c] = to] /\ UNCHANGED <<seen, answer, unread>>
  BY DEF Transfer!Send
<1>2. /\ Moves /\ TableAgrees' /\ table' \in Transfer!Rows /\ sealed' \subseteq Transfer!Epochs
  BY TableRests
<1>3. Transfer!TypeOK'
  <2>1. to \in Transfer!Phases
    BY DEF Transfer!Phases
  <2> QED BY <1>1, <2>1 DEF TransferInv, Transfer!TypeOK
<1>4. phase'[c] = to
  BY <1>1 DEF TransferInv, Transfer!TypeOK
<1>5. Transferring(c)'
  <2>1. SeenAgrees(c)'
    BY <1>1, <1>2, SeenStays
  <2>2. answer[c] = "none"
    BY TransferTypes DEF AnswerHolds
  <2>3. Sends(c)'
    BY <1>1, <1>4 DEF Sends, Transfer!IsSuperseded, Transfer!Retired
  <2> QED BY <1>1, <1>4, <2>1, <2>2, <2>3 DEF Transferring, AnswerHolds
<1>6. ASSUME NEW d \in Callers, d # c PROVE Transferring(d)'
  <2>1. phase'[d] = phase[d]
    BY <1>1, <1>6 DEF TransferInv, Transfer!TypeOK
  <2> QED BY <1>1, <1>2, <2>1, TransferRests
<1> QED BY <1>2, <1>3, <1>5, <1>6 DEF TransferInv

LEMMA AnswerKeeps ==
    ASSUME TransferInv, NEW c \in Callers, NEW o \in Transfer!Outcomes,
           Transfer!Answer(c, o), UNCHANGED <<request, table, sealed>>,
           o \in {"adopted", "reactivated"} => request[c].epoch <= table.authority,
           o = "sealed" => \/ table.retirement = Transfer!Candidate(c)
                           \/ request[c].epoch < table.authority
    PROVE  TransferInv'
<1>1. /\ phase' = [phase EXCEPT ![c] = "done"] /\ UNCHANGED unread
      /\ seen' = [seen EXCEPT ![c] = Transfer!NoRows] /\ answer' = [answer EXCEPT ![c] = o]
  BY DEF Transfer!Answer
<1>2. /\ Moves /\ TableAgrees' /\ table' \in Transfer!Rows /\ sealed' \subseteq Transfer!Epochs
  BY TableRests
<1>3. /\ Transfer!NoRows \in Transfer!Rows /\ ~Transfer!Retired(Transfer!NoRows)
      /\ Transfer!NoRows.authority = 0
  BY TransferEpochs
     DEF Transfer!NoRows, Transfer!Rows, Transfer!Record, Transfer!NoRecord, Transfer!Retired
<1>4. Transfer!TypeOK'
  <2>1. "done" \in Transfer!Phases
    BY DEF Transfer!Phases
  <2> QED BY <1>1, <1>2, <1>3, <2>1 DEF TransferInv, Transfer!TypeOK
<1>5. phase'[c] = "done" /\ seen'[c] = Transfer!NoRows /\ answer'[c] = o
  BY <1>1 DEF TransferInv, Transfer!TypeOK
<1>6. Transferring(c)'
  <2>1. Transfer!Candidate(c)' = Transfer!Candidate(c)
    BY DEF Transfer!Candidate
  <2> QED BY <1>3, <1>5, <2>1, TransferTypes
          DEF Transferring, SeenAgrees, Sends, AnswerHolds, Transfer!Retired
<1>7. ASSUME NEW d \in Callers, d # c PROVE Transferring(d)'
  <2>1. phase'[d] = phase[d] /\ seen'[d] = seen[d] /\ answer'[d] = answer[d]
    BY <1>1, <1>7 DEF TransferInv, Transfer!TypeOK
  <2> QED BY <1>1, <1>2, <2>1, TransferRests
<1> QED BY <1>2, <1>4, <1>6, <1>7 DEF TransferInv

\* The tables a write may leave behind.
May(update) ==
    /\ update.authority >= table.authority
    /\ Transfer!Retired(table) /\ update.retirement # table.retirement =>
          table.retirement.epoch < update.authority
    /\ Transfer!Retired(update) =>
          /\ update.retirement.epoch = update.authority
          /\ update.retirement.epoch \in Transfer!Epochs
    /\ ~Transfer!Retired(update) => \A e \in sealed : e < update.authority

LEMMA TableMay == TransferInv => table \in Transfer!Rows /\ May(table)
<1>1. ASSUME TransferInv PROVE table \in Transfer!Rows /\ May(table)
  <2>1. table \in Transfer!Rows /\ sealed \subseteq Transfer!Epochs /\ TableAgrees
    BY <1>1 DEF TransferInv, Transfer!TypeOK
  <2>2. table.authority \in Nat
    BY <2>1, TransferEpochs DEF Transfer!Rows
  <2> QED BY <2>1, <2>2 DEF TableAgrees, May
<1> QED BY <1>1

LEMMA WriteMoves ==
    ASSUME TransferInv, NEW update \in Transfer!Rows, May(update), Transfer!Write(update)
    PROVE  /\ table' \in Transfer!Rows /\ sealed' \subseteq Transfer!Epochs
           /\ TableAgrees' /\ Moves
<1>1. /\ table' = update
      /\ sealed' = IF Transfer!Retired(update)
                   THEN sealed \cup {update.retirement.epoch} ELSE sealed
  BY DEF Transfer!Write
<1>2. /\ table \in Transfer!Rows /\ sealed \subseteq Transfer!Epochs /\ TableAgrees
  BY DEF TransferInv, Transfer!TypeOK
<1>3. /\ table.authority \in Nat /\ update.authority \in Nat
      /\ \A e \in Transfer!Epochs : e \in Nat
  BY <1>2, TransferEpochs DEF Transfer!Rows, Transfer!Epochs
<1>4. Moves
  BY <1>1 DEF Moves, May
<1>5. sealed' \subseteq Transfer!Epochs
  BY <1>1, <1>2 DEF May
<1>6. TableAgrees'
  <2>1. CASE Transfer!Retired(update)
    BY <1>1, <1>2, <1>3, <2>1 DEF TableAgrees, May, Transfer!Retired
  <2>2. CASE ~Transfer!Retired(update)
    BY <1>1, <1>2, <1>3, <2>2 DEF TableAgrees, May, Transfer!Retired
  <2> QED BY <2>1, <2>2
<1> QED BY <1>1, <1>4, <1>5, <1>6

\* A transaction that was sent keeps the invariant whatever came of it.
LEMMA WriteKeeps ==
    ASSUME TransferInv, NEW c \in Callers, NEW update \in Transfer!Rows, May(update),
           phase[c] # "done",
           NEW to \in {"verify-failed", "failed"},
           Transfer!Succeeds(c, update) \/ Transfer!Fails(c, update, to)
    PROVE  TransferInv'
<1>1. CASE Transfer!Succeeds(c, update)
  BY <1>1, EnterKeeps, WriteMoves DEF Transfer!Succeeds
<1>2. CASE Transfer!Fails(c, update, to)
  <2>1. /\ table' \in Transfer!Rows /\ sealed' \subseteq Transfer!Epochs
        /\ TableAgrees' /\ Moves
    BY <1>2, TableMay, WriteMoves DEF Transfer!Fails
  <2> QED BY <1>2, <2>1, EnterKeeps DEF Transfer!Fails
<1> QED BY <1>1, <1>2

LEMMA BeginKeeps ==
    ASSUME TransferInv, NEW c \in Callers, NEW k \in Transfer!Call, Transfer!Begin(c, k)
    PROVE  TransferInv'
<1> DEFINE to == IF k.op = "retire" THEN "existing" ELSE "look"
<1>1. /\ phase[c] = "idle" /\ request' = [request EXCEPT ![c] = k]
      /\ phase' = [phase EXCEPT ![c] = to]
      /\ unread' = [unread EXCEPT ![c] = Transfer!Reads(request'[c].op, to)]
      /\ UNCHANGED <<table, sealed, seen, answer>>
  BY DEF Transfer!Begin, Transfer!Enter
<1>2. /\ Moves /\ TableAgrees' /\ table' \in Transfer!Rows /\ sealed' \subseteq Transfer!Epochs
  BY <1>1, TableRests
<1>3. request'[c] = k /\ phase'[c] = to
  BY <1>1 DEF TransferInv, Transfer!TypeOK
<1>4. Transfer!Reads(k.op, to) \in Seq({"authority", "retirement", "activation"})
  <2>0. /\ <<"retirement", "authority">> \in Seq({"authority", "retirement", "activation"})
        /\ <<"retirement">> \in Seq({"authority", "retirement", "activation"})
        /\ <<"authority", "retirement", "activation">>
              \in Seq({"authority", "retirement", "activation"})
    OBVIOUS
  <2>1. k.op \in {"adopt", "retire", "reactivate"}
    BY DEF Transfer!Call
  <2>2. CASE k.op = "adopt"
    <3>1. Transfer!Reads(k.op, to) = <<"retirement", "authority">>
      BY <2>2 DEF Transfer!Reads
    <3> QED BY <2>0, <3>1, Zenon
  <2>3. CASE k.op = "retire"
    <3>1. Transfer!Reads(k.op, to) = <<"retirement">>
      BY <2>3 DEF Transfer!Reads
    <3> QED BY <2>0, <3>1, Zenon
  <2>4. CASE k.op = "reactivate"
    <3>1. Transfer!Reads(k.op, to) = <<"authority", "retirement", "activation">>
      BY <2>4 DEF Transfer!Reads
    <3> QED BY <2>0, <3>1, Zenon
  <2> QED BY <2>1, <2>2, <2>3, <2>4
<1>5. Transfer!TypeOK'
  BY <1>1, <1>2, <1>3, <1>4 DEF TransferInv, Transfer!TypeOK, Transfer!Phases
<1>6. Transferring(c)'
  <2>1. SeenAgrees(c)'
    BY <1>1, <1>2, SeenStays
  <2>2. answer[c] = "none"
    BY <1>1, TransferTypes DEF AnswerHolds
  <2> QED BY <1>1, <1>3, <2>1, <2>2 DEF Transferring, Sends, AnswerHolds
<1>7. ASSUME NEW d \in Callers, d # c PROVE Transferring(d)'
  <2>1. phase'[d] = phase[d] /\ unread'[d] = unread[d] /\ request'[d] = request[d]
    BY <1>1, <1>7 DEF TransferInv, Transfer!TypeOK
  <2> QED BY <1>1, <1>2, <2>1, TransferRests
<1> QED BY <1>2, <1>5, <1>6, <1>7 DEF TransferInv

LEMMA ReadRowKeeps ==
    ASSUME TransferInv, NEW c \in Callers, Transfer!ReadRow(c)
    PROVE  TransferInv'
<1> DEFINE r == Head(unread[c])
<1>1. /\ unread[c] # <<>> /\ seen' = [seen EXCEPT ![c][r] = table[r]]
      /\ unread' = [unread EXCEPT ![c] = Tail(@)]
      /\ UNCHANGED <<table, phase, request, answer, sealed>>
  BY DEF Transfer!ReadRow
<1>2. /\ Moves /\ TableAgrees' /\ table' \in Transfer!Rows /\ sealed' \subseteq Transfer!Epochs
  BY <1>1, TableRests
<1>3. /\ r \in {"authority", "retirement", "activation"}
      /\ Tail(unread[c]) \in Seq({"authority", "retirement", "activation"})
  BY <1>1, TransferTypes, HeadTailProperties
<1>4. /\ seen'[c] = [seen[c] EXCEPT ![r] = table[r]]
      /\ table \in Transfer!Rows /\ seen[c] \in Transfer!Rows
  BY <1>1 DEF TransferInv, Transfer!TypeOK
<1>5. /\ seen'[c] \in Transfer!Rows
      /\ seen'[c].authority \in {seen[c].authority, table.authority}
      /\ seen'[c].retirement \in {seen[c].retirement, table.retirement}
  <2>1. CASE r = "authority" BY <1>4, <2>1 DEF Transfer!Rows
  <2>2. CASE r = "retirement" BY <1>4, <2>2 DEF Transfer!Rows
  <2>3. CASE r = "activation" BY <1>4, <2>3 DEF Transfer!Rows
  <2> QED BY <1>3, <2>1, <2>2, <2>3
<1>6. Transfer!TypeOK'
  <2>1. seen' \in [Callers -> Transfer!Rows]
    BY <1>1, <1>4, <1>5 DEF TransferInv, Transfer!TypeOK
  <2>2. unread' \in [Callers -> Seq({"authority", "retirement", "activation"})]
    BY <1>1, <1>3 DEF TransferInv, Transfer!TypeOK
  <2> QED BY <1>1, <2>1, <2>2 DEF TransferInv, Transfer!TypeOK
<1>7. Transferring(c)'
  <2>1. SeenAgrees(c)'
    BY <1>1, <1>5, TransferTypes DEF SeenAgrees, Transfer!Retired
  <2>2. phase[c] # "write"
    BY <1>1, TransferTypes DEF Sends
  <2>3. Transfer!Candidate(c)' = Transfer!Candidate(c)
    BY <1>1 DEF Transfer!Candidate
  <2> QED BY <1>1, <2>1, <2>2, <2>3, TransferTypes DEF Transferring, Sends, AnswerHolds
<1>8. ASSUME NEW d \in Callers, d # c PROVE Transferring(d)'
  <2>1. seen'[d] = seen[d] /\ unread'[d] = unread[d]
    BY <1>1, <1>8 DEF TransferInv, Transfer!TypeOK
  <2> QED BY <1>1, <1>2, <2>1, TransferRests
<1> QED BY <1>2, <1>6, <1>7, <1>8 DEF TransferInv

LEMMA LeaveKeeps ==
    ASSUME TransferInv, NEW c \in Callers, Transfer!Leave(c)
    PROVE  TransferInv'
<1>1. /\ phase' = [phase EXCEPT ![c] = "idle"] /\ unread' = [unread EXCEPT ![c] = <<>>]
      /\ seen' = [seen EXCEPT ![c] = Transfer!NoRows]
      /\ answer' = [answer EXCEPT ![c] = "none"] /\ UNCHANGED <<table, request, sealed>>
  BY DEF Transfer!Leave
<1>2. /\ Moves /\ TableAgrees' /\ table' \in Transfer!Rows /\ sealed' \subseteq Transfer!Epochs
  BY <1>1, TableRests
<1>3. /\ Transfer!NoRows \in Transfer!Rows /\ ~Transfer!Retired(Transfer!NoRows)
      /\ Transfer!NoRows.authority = 0
  BY TransferEpochs
     DEF Transfer!NoRows, Transfer!Rows, Transfer!Record, Transfer!NoRecord, Transfer!Retired
<1>4. Transfer!TypeOK'
  <2>1. "idle" \in Transfer!Phases /\ "none" \in Transfer!Outcomes
        /\ <<>> \in Seq({"authority", "retirement", "activation"})
    BY DEF Transfer!Phases, Transfer!Outcomes
  <2> QED BY <1>1, <1>2, <1>3, <2>1 DEF TransferInv, Transfer!TypeOK
<1>5. phase'[c] = "idle" /\ seen'[c] = Transfer!NoRows /\ answer'[c] = "none"
  BY <1>1 DEF TransferInv, Transfer!TypeOK
<1>6. Transferring(c)'
  BY <1>1, <1>3, <1>5, TransferTypes
     DEF Transferring, SeenAgrees, Sends, AnswerHolds, Transfer!Retired
<1>7. ASSUME NEW d \in Callers, d # c PROVE Transferring(d)'
  <2>1. /\ phase'[d] = phase[d] /\ seen'[d] = seen[d] /\ answer'[d] = answer[d]
        /\ unread'[d] = unread[d]
    BY <1>1, <1>7 DEF TransferInv, Transfer!TypeOK
  <2> QED BY <1>1, <1>2, <2>1, TransferRests
<1> QED BY <1>2, <1>4, <1>6, <1>7 DEF TransferInv

LEMMA AdoptionKeeps ==
    ASSUME TransferInv, NEW c \in Callers,
           \/ Transfer!LookBeforeAdoption(c) \/ Transfer!VerifyAdoption(c)
           \/ Transfer!ExplainVerification(c) \/ Transfer!WriteAdoption(c)
           \/ Transfer!ConfirmAdoption(c)
    PROVE  TransferInv'
<1> USE DEF Transfer!Outcomes
<1>1. CASE Transfer!LookBeforeAdoption(c)
  <2>1. /\ phase[c] = "look" /\ unread[c] = <<>> /\ request[c].op = "adopt"
        /\ UNCHANGED <<table, request, sealed>>
    BY <1>1 DEF Transfer!LookBeforeAdoption, Transfer!Decides
  <2>2. \/ \E o \in {"retired", "stale"} : Transfer!Answer(c, o)
        \/ Transfer!Send(c, "verify")
        \/ Transfer!Send(c, "write") /\ seen[c].authority < request[c].epoch
    BY <1>1, TransferTypes DEF Transfer!LookBeforeAdoption
  <2>3. CASE \E o \in {"retired", "stale"} : Transfer!Answer(c, o)
    BY <2>1, <2>3, AnswerKeeps
  <2>4. CASE Transfer!Send(c, "verify")
    BY <2>1, <2>4, SendKeeps
  <2>5. CASE Transfer!Send(c, "write") /\ seen[c].authority < request[c].epoch
    BY <2>1, <2>5, SendKeeps
  <2> QED BY <2>2, <2>3, <2>4, <2>5
<1>2. CASE Transfer!VerifyAdoption(c)
  <2>1. \/ /\ table.authority = request[c].epoch /\ Transfer!Answer(c, "adopted")
           /\ UNCHANGED <<table, request, sealed>>
        \/ phase[c] # "done" /\ Transfer!Fails(c, table, "verify-failed")
    BY <1>2 DEF Transfer!VerifyAdoption
  <2> QED BY <2>1, AnswerKeeps, WriteKeeps, TableMay, TransferTypes
<1>3. CASE Transfer!ExplainVerification(c)
  <2>1. /\ UNCHANGED <<table, request, sealed>>
        /\ \E o \in {"retired", "failed"} : Transfer!Answer(c, o)
    BY <1>3 DEF Transfer!ExplainVerification, Transfer!Decides
  <2> QED BY <2>1, AnswerKeeps
<1>4. CASE Transfer!WriteAdoption(c)
  <2> DEFINE update == [table EXCEPT !.authority = request[c].epoch]
  <2>1. /\ phase[c] # "done" /\ seen[c].authority < request[c].epoch
    BY <1>4, TransferTypes DEF Transfer!WriteAdoption, Sends
  <2>2. CASE Transfer!AdoptionHolds(c)
    <3>1. update \in Transfer!Rows
      BY TransferTypes, TransferEpochs DEF Transfer!Rows, Transfer!Epochs
    <3>2. /\ table \in Transfer!Rows /\ May(table) /\ ~Transfer!Retired(table)
          /\ table.authority < request[c].epoch
      BY <2>1, <2>2, TableMay DEF Transfer!AdoptionHolds
    <3>3. update.authority = request[c].epoch /\ update.retirement = table.retirement
      BY <3>2 DEF Transfer!Rows
    <3>4. \A e \in sealed : e \in Nat
      BY TransferEpochs DEF TransferInv, Transfer!TypeOK, Transfer!Epochs
    <3>5. May(update)
      BY <3>2, <3>3, <3>4, TransferTypes DEF May, Transfer!Retired
    <3> QED BY <1>4, <2>1, <3>1, <3>2, <3>5, WriteKeeps DEF Transfer!WriteAdoption
  <2>3. CASE ~Transfer!AdoptionHolds(c)
    BY <1>4, <2>1, <2>3, WriteKeeps, TableMay DEF Transfer!WriteAdoption
  <2> QED BY <2>2, <2>3
<1>5. CASE Transfer!ConfirmAdoption(c)
  <2>1. /\ UNCHANGED <<table, request, sealed>>
        /\ \/ \E o \in {"retired", "stale", "failed"} : Transfer!Answer(c, o)
           \/ seen[c].authority = request[c].epoch /\ Transfer!Answer(c, "adopted")
    BY <1>5 DEF Transfer!ConfirmAdoption, Transfer!Decides
  <2>2. request[c].epoch = seen[c].authority => request[c].epoch <= table.authority
    BY TransferTypes DEF SeenAgrees
  <2> QED BY <2>1, <2>2, AnswerKeeps
<1> QED BY <1>1, <1>2, <1>3, <1>4, <1>5

\* Its own seal, once seen, stays or is taken over by a higher epoch.
LEMMA OwnSealStays ==
    ASSUME TransferInv, NEW c \in Callers, Transfer!IsOwnSeal(c)
    PROVE  \/ table.retirement = Transfer!Candidate(c)
           \/ request[c].epoch < table.authority
BY TransferTypes, CandidateIs DEF Transfer!IsOwnSeal, SeenAgrees, Transfer!Retired

LEMMA RetirementKeeps ==
    ASSUME TransferInv, NEW c \in Callers,
           \/ Transfer!LookForRetirement(c) \/ Transfer!LookBeforeRetirement(c)
           \/ Transfer!WriteRetirement(c) \/ Transfer!ExplainRetirement(c)
           \/ Transfer!ConfirmRetirement(c)
    PROVE  TransferInv'
<1> USE DEF Transfer!Outcomes
<1>1. CASE Transfer!LookForRetirement(c)
  <2>1. phase[c] = "existing" /\ UNCHANGED <<table, request, sealed>>
    BY <1>1 DEF Transfer!LookForRetirement, Transfer!Decides
  <2>2. \/ Transfer!IsOwnSeal(c) /\ Transfer!Answer(c, "sealed")
        \/ Transfer!Enter(c, "look")
        \/ Transfer!Answer(c, "identity")
    BY <1>1 DEF Transfer!LookForRetirement
  <2>3. CASE Transfer!IsOwnSeal(c) /\ Transfer!Answer(c, "sealed")
    BY <2>1, <2>3, AnswerKeeps, OwnSealStays
  <2>4. CASE Transfer!Enter(c, "look")
    BY <2>1, <2>4, TableRests, EnterKeeps
  <2>5. CASE Transfer!Answer(c, "identity")
    BY <2>1, <2>5, AnswerKeeps
  <2> QED BY <2>2, <2>3, <2>4, <2>5
<1>2. CASE Transfer!LookBeforeRetirement(c)
  <2>1. /\ phase[c] = "look" /\ unread[c] = <<>> /\ request[c].op = "retire"
        /\ UNCHANGED <<table, request, sealed>>
    BY <1>2 DEF Transfer!LookBeforeRetirement, Transfer!Decides
  <2>2. \/ \E o \in {"retired", "stale"} : Transfer!Answer(c, o)
        \/ Transfer!Send(c, "write")
    BY <1>2 DEF Transfer!LookBeforeRetirement
  <2> QED BY <2>1, <2>2, AnswerKeeps, SendKeeps
<1>3. CASE Transfer!WriteRetirement(c)
  <2> DEFINE update == [table EXCEPT !.retirement = Transfer!Candidate(c)]
  <2>1. phase[c] # "done"
    BY <1>3 DEF Transfer!WriteRetirement
  <2>2. CASE Transfer!RetirementHolds(c)
    <3>1. update \in Transfer!Rows
      BY TransferTypes, CandidateIs DEF Transfer!Rows
    <3>2. /\ table \in Transfer!Rows /\ May(table) /\ ~Transfer!Retired(table)
          /\ table.authority = request[c].epoch
      BY <2>2, TableMay DEF Transfer!RetirementHolds
    <3>3. update.authority = table.authority /\ update.retirement = Transfer!Candidate(c)
      BY <3>2 DEF Transfer!Rows
    <3>4. May(update)
      BY <3>2, <3>3, TransferTypes, CandidateIs DEF May, Transfer!Retired
    <3> QED BY <1>3, <2>1, <3>1, <3>2, <3>4, WriteKeeps DEF Transfer!WriteRetirement
  <2>3. CASE ~Transfer!RetirementHolds(c)
    BY <1>3, <2>1, <2>3, WriteKeeps, TableMay DEF Transfer!WriteRetirement
  <2> QED BY <2>2, <2>3
<1>4. CASE Transfer!ExplainRetirement(c) \/ Transfer!ConfirmRetirement(c)
  <2>1. /\ UNCHANGED <<table, request, sealed>>
        /\ \/ Transfer!IsOwnSeal(c) /\ Transfer!Answer(c, "sealed")
           \/ \E o \in {"failed", "identity"} : Transfer!Answer(c, o)
    BY <1>4 DEF Transfer!ExplainRetirement, Transfer!ConfirmRetirement, Transfer!Decides
  <2> QED BY <2>1, AnswerKeeps, OwnSealStays
<1> QED BY <1>1, <1>2, <1>3, <1>4

LEMMA ReactivationKeeps ==
    ASSUME TransferInv, NEW c \in Callers,
           \/ Transfer!LookBeforeReactivation(c) \/ Transfer!WriteReactivation(c)
           \/ Transfer!ConfirmReactivation(c)
    PROVE  TransferInv'
<1> USE DEF Transfer!Outcomes
<1>1. Transfer!IsReactivated(c) => request[c].epoch <= table.authority
  BY TransferTypes DEF Transfer!IsReactivated, SeenAgrees
<1>2. CASE Transfer!LookBeforeReactivation(c)
  <2>1. /\ phase[c] = "look" /\ unread[c] = <<>> /\ request[c].op = "reactivate"
        /\ UNCHANGED <<table, request, sealed>>
    BY <1>2 DEF Transfer!LookBeforeReactivation, Transfer!Decides
  <2>2. \/ Transfer!IsReactivated(c) /\ Transfer!Answer(c, "reactivated")
        \/ \E o \in {"identity", "stale"} : Transfer!Answer(c, o)
        \/ /\ seen[c].retirement.transfer = request[c].transfer
           /\ ~Transfer!IsSuperseded(c) /\ Transfer!Send(c, "write")
    BY <1>2 DEF Transfer!LookBeforeReactivation
  <2>3. CASE Transfer!IsReactivated(c) /\ Transfer!Answer(c, "reactivated")
    BY <1>1, <2>1, <2>3, AnswerKeeps
  <2>4. CASE \E o \in {"identity", "stale"} : Transfer!Answer(c, o)
    BY <2>1, <2>4, AnswerKeeps
  <2>5. CASE /\ seen[c].retirement.transfer = request[c].transfer
             /\ ~Transfer!IsSuperseded(c) /\ Transfer!Send(c, "write")
    <3>1. Transfer!Retired(seen[c])
      BY <2>5, TransferTypes, NoneIsNoTransfer DEF Transfer!Retired, Transfer!NoRecord
    <3> QED BY <2>1, <2>5, <3>1, SendKeeps
  <2> QED BY <2>2, <2>3, <2>4, <2>5
<1>3. CASE Transfer!WriteReactivation(c)
  <2> DEFINE update == [authority |-> request[c].epoch, retirement |-> Transfer!NoRecord,
                        activation |-> Transfer!Candidate(c)]
  <2>1. /\ phase[c] # "done" /\ ~Transfer!IsSuperseded(c)
    BY <1>3, TransferTypes DEF Transfer!WriteReactivation, Sends
  <2>2. CASE Transfer!ReactivationHolds(c)
    <3>1. update \in Transfer!Rows
      BY TransferTypes, CandidateIs, TransferEpochs
         DEF Transfer!Rows, Transfer!Record, Transfer!NoRecord, Transfer!Epochs
    <3>2. /\ table.authority < request[c].epoch
          /\ table.retirement.epoch < request[c].epoch
      BY <2>1, <2>2, TransferTypes DEF Transfer!ReactivationHolds, Transfer!IsSuperseded
    <3>3. \A e \in sealed : e \in Nat /\ e <= table.authority
      BY TransferEpochs DEF TransferInv, TableAgrees, Transfer!TypeOK, Transfer!Epochs
    <3>4. May(update)
      BY <3>2, <3>3, TransferTypes DEF May, Transfer!Retired
    <3> QED BY <1>3, <2>1, <3>1, <3>4, WriteKeeps, TableMay DEF Transfer!WriteReactivation
  <2>3. CASE ~Transfer!ReactivationHolds(c)
    BY <1>3, <2>1, <2>3, WriteKeeps, TableMay DEF Transfer!WriteReactivation
  <2> QED BY <2>2, <2>3
<1>4. CASE Transfer!ConfirmReactivation(c)
  <2>1. /\ UNCHANGED <<table, request, sealed>>
        /\ \/ Transfer!IsReactivated(c) /\ Transfer!Answer(c, "reactivated")
           \/ Transfer!Answer(c, "failed")
    BY <1>4 DEF Transfer!ConfirmReactivation, Transfer!Decides
  <2> QED BY <1>1, <2>1, AnswerKeeps
<1> QED BY <1>2, <1>3, <1>4

LEMMA TransferStart == Transfer!Init => TransferInv
<1>1. ASSUME Transfer!Init PROVE TransferInv
  <2>1. PICK t \in Transfers : request = [c \in Callers |->
                                  [op |-> "adopt", epoch |-> 1, transfer |-> t]]
    BY <1>1 DEF Transfer!Init
  <2>2. [op |-> "adopt", epoch |-> 1, transfer |-> t] \in Transfer!Call
    BY TransferEpochs DEF Transfer!Call, Transfer!Epochs
  <2>3. Transfer!NoRows \in Transfer!Rows /\ ~Transfer!Retired(Transfer!NoRows)
        /\ Transfer!NoRows.authority = 0
    BY TransferEpochs
       DEF Transfer!NoRows, Transfer!Rows, Transfer!Record, Transfer!NoRecord, Transfer!Retired
  <2>4. Transfer!TypeOK
    BY <1>1, <2>1, <2>2, <2>3
       DEF Transfer!Init, Transfer!TypeOK, Transfer!Phases, Transfer!Outcomes
  <2>5. TableAgrees
    BY <1>1, <2>3 DEF Transfer!Init, TableAgrees
  <2>6. ASSUME NEW c \in Callers PROVE Transferring(c)
    BY <1>1, <2>3 DEF Transfer!Init, Transferring, SeenAgrees, Sends, AnswerHolds
  <2> QED BY <2>4, <2>5, <2>6 DEF TransferInv
<1> QED BY <1>1

LEMMA TransferStep == TransferInv /\ [Transfer!Next]_transfer => TransferInv'
<1> SUFFICES ASSUME TransferInv, [Transfer!Next]_transfer PROVE TransferInv'
  OBVIOUS
<1>1. CASE UNCHANGED transfer
  <2>1. /\ Moves /\ TableAgrees' /\ table' \in Transfer!Rows
    BY <1>1, TableRests DEF transfer
  <2>2. Transfer!TypeOK'
    BY <1>1 DEF transfer, TransferInv, Transfer!TypeOK
  <2>3. ASSUME NEW c \in Callers PROVE Transferring(c)'
    BY <1>1, <2>1, TransferRests DEF transfer
  <2> QED BY <2>1, <2>2, <2>3 DEF TransferInv
<1>2. CASE Transfer!Next
  BY <1>2, BeginKeeps, ReadRowKeeps, LeaveKeeps, AdoptionKeeps, RetirementKeeps,
     ReactivationKeeps DEF Transfer!Next
<1> QED BY <1>1, <1>2

LEMMA TransferInvariant == Transfer!Spec => []TransferInv
<1> QED BY TransferStart, TransferStep, PTL DEF Transfer!Spec, Transfer!vars, transfer

(***************************************************************************)
(* What a coordinator was told still binds the store, and the epoch that      *)
(* gave the store up never holds it open again.                             *)
(***************************************************************************)
THEOREM TransfersCorrect == Transfer!Spec => []TransfersBind
<1>1. TransferInv => TransfersBind
  <2>1. ASSUME TransferInv PROVE Transfer!AnswersBind
    BY <2>1, TransferTypes DEF AnswerHolds, Transfer!AnswersBind
  <2>2. ASSUME TransferInv PROVE Transfer!SealedEpochsStayClosed
    <3>1. table.authority \in Nat /\ TableAgrees
          /\ \A e \in sealed : e \in Nat
      BY <2>2, TransferEpochs
         DEF TransferInv, Transfer!TypeOK, Transfer!Rows, Transfer!Epochs
    <3> QED BY <3>1 DEF TableAgrees, Transfer!SealedEpochsStayClosed
  <2> QED BY <2>1, <2>2 DEF TransfersBind, Transfer!TransfersBind
<1> QED BY <1>1, TransferInvariant, PTL

\* Which steps change the table.
LEMMA TableSteps ==
    ASSUME TransferInv, Transfer!Next
    PROVE  \/ UNCHANGED table
           \/ \E c \in Callers :
                 \/ /\ Transfer!AdoptionHolds(c) /\ seen[c].authority < request[c].epoch
                    /\ table' = [table EXCEPT !.authority = request[c].epoch]
                 \/ /\ Transfer!RetirementHolds(c)
                    /\ table' = [table EXCEPT !.retirement = Transfer!Candidate(c)]
                 \/ /\ Transfer!ReactivationHolds(c) /\ Transfer!Retired(table)
                    /\ table.authority < request[c].epoch
                    /\ table' = [authority |-> request[c].epoch,
                                  retirement |-> Transfer!NoRecord,
                                  activation |-> Transfer!Candidate(c)]
<1>1. PICK c \in Callers :
         \/ \E k \in Transfer!Call : Transfer!Begin(c, k)
         \/ Transfer!ReadRow(c)
         \/ Transfer!LookBeforeAdoption(c) \/ Transfer!VerifyAdoption(c)
         \/ Transfer!ExplainVerification(c)
         \/ Transfer!WriteAdoption(c) \/ Transfer!ConfirmAdoption(c)
         \/ Transfer!LookForRetirement(c) \/ Transfer!LookBeforeRetirement(c)
         \/ Transfer!WriteRetirement(c) \/ Transfer!ExplainRetirement(c)
         \/ Transfer!ConfirmRetirement(c)
         \/ Transfer!LookBeforeReactivation(c) \/ Transfer!WriteReactivation(c)
         \/ Transfer!ConfirmReactivation(c)
         \/ Transfer!Leave(c)
  BY Zenon DEF Transfer!Next
<1>2. CASE Transfer!WriteAdoption(c)
  <2>1. seen[c].authority < request[c].epoch
    BY <1>2, TransferTypes DEF Transfer!WriteAdoption, Sends
  <2> QED BY <1>2, <2>1
          DEF Transfer!WriteAdoption, Transfer!Succeeds, Transfer!Fails, Transfer!Write
<1>3. CASE Transfer!WriteRetirement(c)
  BY <1>3 DEF Transfer!WriteRetirement, Transfer!Succeeds, Transfer!Fails, Transfer!Write
<1>4. CASE Transfer!WriteReactivation(c)
  <2>1. Transfer!Retired(seen[c]) /\ ~Transfer!IsSuperseded(c)
    BY <1>4, TransferTypes DEF Transfer!WriteReactivation, Sends
  <2>2. Transfer!ReactivationHolds(c) =>
           Transfer!Retired(table) /\ table.authority < request[c].epoch
    BY <2>1, TransferTypes DEF Transfer!ReactivationHolds, Transfer!IsSuperseded
  <2> QED BY <1>4, <2>2
          DEF Transfer!WriteReactivation, Transfer!Succeeds, Transfer!Fails, Transfer!Write
<1>5. CASE \/ \E k \in Transfer!Call : Transfer!Begin(c, k)
           \/ Transfer!ReadRow(c) \/ Transfer!Leave(c)
  BY <1>5 DEF Transfer!Begin, Transfer!ReadRow, Transfer!Leave
<1>6. CASE \/ Transfer!LookBeforeAdoption(c) \/ Transfer!VerifyAdoption(c)
           \/ Transfer!ExplainVerification(c) \/ Transfer!ConfirmAdoption(c)
  BY <1>6 DEF Transfer!LookBeforeAdoption, Transfer!VerifyAdoption,
              Transfer!ExplainVerification, Transfer!ConfirmAdoption, Transfer!Decides,
              Transfer!Fails, Transfer!Write
<1>7. CASE \/ Transfer!LookForRetirement(c) \/ Transfer!LookBeforeRetirement(c)
           \/ Transfer!ExplainRetirement(c) \/ Transfer!ConfirmRetirement(c)
           \/ Transfer!LookBeforeReactivation(c) \/ Transfer!ConfirmReactivation(c)
  BY <1>7 DEF Transfer!LookForRetirement, Transfer!LookBeforeRetirement,
              Transfer!ExplainRetirement, Transfer!ConfirmRetirement,
              Transfer!LookBeforeReactivation, Transfer!ConfirmReactivation,
              Transfer!Decides
<1> QED BY <1>1, <1>2, <1>3, <1>4, <1>5, <1>6, <1>7

(***************************************************************************)
(* The calls move the fence exactly as the effects of the store rely on.      *)
(***************************************************************************)
THEOREM FenceImplemented == Transfer!Spec => FenceSpec
<1>1. Transfer!Init => Transfer!Fence!Init
  BY DEF Transfer!Init, Transfer!Fence!Init, Transfer!NoRows, Transfer!Retired,
         Transfer!NoRecord
<1>2. TransferInv /\ [Transfer!Next]_transfer
         => [Transfer!Fence!Next]_<<table.authority, Transfer!Retired(table)>>
  <2> SUFFICES ASSUME TransferInv, Transfer!Next, ~UNCHANGED table
               PROVE  Transfer!Fence!Next
    BY DEF transfer, Transfer!Retired
  <2>1. PICK c \in Callers :
           \/ /\ Transfer!AdoptionHolds(c) /\ seen[c].authority < request[c].epoch
              /\ table' = [table EXCEPT !.authority = request[c].epoch]
           \/ /\ Transfer!RetirementHolds(c)
              /\ table' = [table EXCEPT !.retirement = Transfer!Candidate(c)]
           \/ /\ Transfer!ReactivationHolds(c) /\ Transfer!Retired(table)
              /\ table.authority < request[c].epoch
              /\ table' = [authority |-> request[c].epoch,
                            retirement |-> Transfer!NoRecord,
                            activation |-> Transfer!Candidate(c)]
    BY TableSteps
  <2>2. /\ table \in Transfer!Rows /\ request[c].epoch \in 1..MaxTransferEpoch
        /\ Transfer!Candidate(c) # Transfer!NoRecord
        /\ table.authority \in Nat /\ request[c].epoch \in Nat
    BY TransferTypes, CandidateIs DEF Transfer!Epochs
  <2>3. CASE /\ Transfer!AdoptionHolds(c) /\ seen[c].authority < request[c].epoch
             /\ table' = [table EXCEPT !.authority = request[c].epoch]
    <3>1. /\ table'.authority = request[c].epoch /\ table'.retirement = table.retirement
      BY <2>2, <2>3 DEF Transfer!Rows
    <3> QED BY <2>2, <2>3, <3>1
            DEF Transfer!AdoptionHolds, Transfer!Retired, Transfer!Fence!Next,
                Transfer!Fence!Adopt, Transfer!Fence!Advance
  <2>4. CASE /\ Transfer!RetirementHolds(c)
             /\ table' = [table EXCEPT !.retirement = Transfer!Candidate(c)]
    <3>1. /\ table'.authority = table.authority
          /\ table'.retirement = Transfer!Candidate(c)
      BY <2>2, <2>4 DEF Transfer!Rows
    <3> QED BY <2>2, <2>4, <3>1
            DEF Transfer!RetirementHolds, Transfer!Retired, Transfer!Fence!Next,
                Transfer!Fence!Retire
  <2>5. CASE /\ Transfer!ReactivationHolds(c) /\ Transfer!Retired(table)
             /\ table.authority < request[c].epoch
             /\ table' = [authority |-> request[c].epoch,
                           retirement |-> Transfer!NoRecord,
                           activation |-> Transfer!Candidate(c)]
    BY <2>2, <2>5
       DEF Transfer!Retired, Transfer!Fence!Next, Transfer!Fence!Reactivate,
           Transfer!Fence!Advance
  <2> QED BY <2>1, <2>3, <2>4, <2>5
<1> QED BY <1>1, <1>2, TransferInvariant, PTL
        DEF Transfer!Spec, Transfer!vars, transfer, FenceSpec, Transfer!FenceSpec,
            Transfer!Fence!Spec
=============================================================================
