-------------------------- MODULE ApplicationState --------------------------
(***************************************************************************)
(* The effects of one business key in the application-state store           *)
(* (src/core/lib/db/tables/application-state.js): putIfAbsent,              *)
(* resolvePutIfAbsentNotApplied and recoverPutIfAbsent, database operation   *)
(* by database operation.                                                  *)
(*                                                                         *)
(* A put inserts the business record with a permanent receipt or retains a  *)
(* receipt for the record it found; a resolve retains a permanent           *)
(* resolution, after which the effect can never be applied.  The receipt    *)
(* and the resolution are separate rows that are read separately.  Any      *)
(* write may fail with or without its effect, its caller may stop before    *)
(* any step, and meanwhile another coordinator may adopt the store or the    *)
(* store may be retired and reactivated: every write carries the fence of    *)
(* its caller's epoch and the absence of a retirement.                      *)
(*                                                                         *)
(* The store identity and the contract of an effect never change and their  *)
(* comparisons are left out.                                               *)
(***************************************************************************)
EXTENDS Naturals

CONSTANTS
    Callers,      \* processes with a call in progress
    Effects,      \* destination effect identities that write the same key
    None,         \* the creator of no record
    MaxEpoch,     \* bound: coordinator authority epochs
    MaxAttempts   \* the option maxAttempts of a put or a resolve

ASSUME NoneIsNoEffect == None \notin Effects
ASSUME BoundsArePositive == MaxEpoch \in Nat /\ MaxAttempts \in Nat \ {0}

VARIABLES
    authority,    \* epoch of the adopted authority, 0 while there is none
    retired,      \* whether the store holds a retirement record
    business,     \* effect that created the business record, None while absent
    receipts,     \* effect -> its receipt
    resolutions,  \* effect -> its not-applied resolution
    pc,           \* caller -> next database operation of its call
    call,         \* caller -> the call in progress
    stage,        \* caller -> why it reads the disposition
    attempt,      \* caller -> number of attempts that failed
    held,         \* caller -> the rows it holds
    outcome       \* caller -> what the call returned

fence == <<authority, retired>>
rows == <<business, receipts, resolutions>>
locals == <<pc, call, stage, attempt, held, outcome>>
vars == <<fence, rows, locals>>
-----------------------------------------------------------------------------
\* Epoch 0 is a table without a coordinator authority.
Epochs == 0..MaxEpoch

Call == [op : {"put", "resolve", "recover"}, effect : Effects, epoch : Epochs]

\* record: the creator of the business record whose digest the receipt has.
Receipt == [inserted : BOOLEAN, record : Effects \cup {None}]

NoReceipt == [inserted |-> FALSE, record |-> None]

Exists(receipt) == receipt.record # None

\* observed: the creator of the business record seen, None if it was absent.
Resolution == [closed : BOOLEAN, observed : Effects \cup {None}]

NoResolution == [closed |-> FALSE, observed |-> None]

Held == [known : SUBSET {"receipt", "resolution"}, receipt : Receipt,
         resolution : Resolution, business : Effects \cup {None}]

NothingHeld == [known |-> {}, receipt |-> NoReceipt,
                resolution |-> NoResolution, business |-> None]

Steps == {"idle", "disposition", "substantiate", "retirement", "authority",
          "business", "insert", "present", "close", "done"}

Stages == {"first", "failed", "conflict", "winner"}

Outcomes == {"none", "inserted", "present", "not-applied", "unknown",
             "retired", "stale", "error", "corruption"}

Effect(c) == call[c].effect

Init ==
    /\ authority = 0
    /\ retired = FALSE
    /\ business = None
    /\ receipts = [e \in Effects |-> NoReceipt]
    /\ resolutions = [e \in Effects |-> NoResolution]
    /\ pc = [c \in Callers |-> "idle"]
    /\ \E e \in Effects :
          call = [c \in Callers |-> [op |-> "put", effect |-> e, epoch |-> 0]]
    /\ stage = [c \in Callers |-> "first"]
    /\ attempt = [c \in Callers |-> 0]
    /\ held = [c \in Callers |-> NothingHeld]
    /\ outcome = [c \in Callers |-> "none"]
-----------------------------------------------------------------------------
(***************************************************************************)
(* The coordinator authority of the store: adoptCoordinatorAuthority,       *)
(* retireStore and reactivateRetiredStore, each by the transaction that      *)
(* takes effect.  ApplicationStateAuthority has the calls in full and        *)
(* implements StoreFence.                                                  *)
(***************************************************************************)
Fence == INSTANCE StoreFence

Adopt == Fence!Adopt /\ UNCHANGED <<rows, locals>>

Retire == Fence!Retire /\ UNCHANGED <<rows, locals>>

Reactivate == Fence!Reactivate /\ UNCHANGED <<rows, locals>>
-----------------------------------------------------------------------------
(***************************************************************************)
(* The course of a call.                                                   *)
(***************************************************************************)
Goto(c, step) ==
    /\ pc' = [pc EXCEPT ![c] = step]
    /\ UNCHANGED <<call, stage, attempt, held, outcome>>

Answer(c, o) ==
    /\ pc' = [pc EXCEPT ![c] = "done"]
    /\ held' = [held EXCEPT ![c] = NothingHeld]
    /\ stage' = [stage EXCEPT ![c] = "first"]
    /\ attempt' = [attempt EXCEPT ![c] = 0]
    /\ outcome' = [outcome EXCEPT ![c] = o]
    /\ UNCHANGED call

ReadDisposition(c, why) ==
    /\ pc' = [pc EXCEPT ![c] = "disposition"]
    /\ stage' = [stage EXCEPT ![c] = why]
    /\ held' = [held EXCEPT ![c] = NothingHeld]
    /\ UNCHANGED <<call, attempt, outcome>>

\* The next round of the loop, or the last error is thrown.
TryAgain(c, step) ==
    IF attempt[c] + 1 < MaxAttempts
    THEN /\ attempt' = [attempt EXCEPT ![c] = @ + 1]
         /\ pc' = [pc EXCEPT ![c] = step]
         /\ UNCHANGED <<call, stage, held, outcome>>
    ELSE Answer(c, "error")

Begin(c, k) ==
    /\ pc[c] = "idle"
    /\ call' = [call EXCEPT ![c] = k]
    /\ pc' = [pc EXCEPT ![c] = "disposition"]
    /\ UNCHANGED <<fence, rows, stage, attempt, held, outcome>>
-----------------------------------------------------------------------------
(***************************************************************************)
(* readEffectDisposition: two reads at once, in either order.               *)
(***************************************************************************)
ReadReceipt(c) ==
    /\ pc[c] = "disposition"
    /\ "receipt" \notin held[c].known
    /\ held' = [held EXCEPT ![c].receipt = receipts[Effect(c)],
                            ![c].known = @ \cup {"receipt"}]
    /\ UNCHANGED <<fence, rows, pc, call, stage, attempt, outcome>>

ReadResolution(c) ==
    /\ pc[c] = "disposition"
    /\ "resolution" \notin held[c].known
    /\ held' = [held EXCEPT ![c].resolution = resolutions[Effect(c)],
                            ![c].known = @ \cup {"resolution"}]
    /\ UNCHANGED <<fence, rows, pc, call, stage, attempt, outcome>>

\* Neither row was found.
Undecided(c) ==
    \/ call[c].op = "recover" /\ Answer(c, "unknown")
    \/ /\ call[c].op # "recover"
       /\ IF stage[c] = "winner" THEN Answer(c, "corruption")
          ELSE Goto(c, "retirement")

ExamineDisposition(c) ==
    /\ pc[c] = "disposition"
    /\ held[c].known = {"receipt", "resolution"}
    /\ CASE Exists(held[c].receipt) /\ held[c].resolution.closed ->
              Answer(c, "corruption")
         [] Exists(held[c].receipt) # held[c].resolution.closed ->
              Goto(c, "substantiate")
         [] OTHER -> Undecided(c)
    /\ UNCHANGED <<fence, rows>>

\* assertReceiptBusiness
ReceiptIsSubstantiated(c) ==
    /\ business = held[c].receipt.record
    /\ held[c].receipt.inserted <=> business = Effect(c)

\* requireMatchingResolution: the key may have been written since.
ResolutionIsSubstantiated(c) ==
    IF held[c].resolution.observed = None THEN business # Effect(c)
    ELSE business = held[c].resolution.observed

Decision(c) ==
    CASE Exists(held[c].receipt) ->
           IF ~ReceiptIsSubstantiated(c) THEN "corruption"
           ELSE IF held[c].receipt.inserted THEN "inserted" ELSE "present"
      [] OTHER ->
           IF ~ResolutionIsSubstantiated(c) THEN "corruption"
           ELSE IF call[c].op = "recover" THEN "unknown" ELSE "not-applied"

Substantiate(c) ==
    /\ pc[c] = "substantiate"
    /\ Answer(c, Decision(c))
    /\ UNCHANGED <<fence, rows>>
-----------------------------------------------------------------------------
(***************************************************************************)
(* assertCurrentCoordinatorAuthority: two reads, one after the other.       *)
(***************************************************************************)
ReadRetirement(c) ==
    /\ pc[c] = "retirement"
    /\ IF retired THEN Answer(c, "retired") ELSE Goto(c, "authority")
    /\ UNCHANGED <<fence, rows>>

ReadAuthority(c) ==
    /\ pc[c] = "authority"
    /\ CASE authority # call[c].epoch -> Answer(c, "stale")
         [] authority = call[c].epoch /\ call[c].op = "put" ->
              CASE stage[c] = "first" -> Goto(c, "insert")
                [] stage[c] = "failed" -> Goto(c, "business")
                [] OTHER -> TryAgain(c, "insert")
         [] OTHER ->
              IF stage[c] = "first" THEN Goto(c, "business")
              ELSE TryAgain(c, "business")
    /\ UNCHANGED <<fence, rows>>

Hold(c, step) ==
    /\ held' = [held EXCEPT ![c].business = business]
    /\ pc' = [pc EXCEPT ![c] = step]
    /\ UNCHANGED <<call, stage, attempt, outcome>>

ReadBusiness(c) ==
    /\ pc[c] = "business"
    /\ CASE business = Effect(c) -> ReadDisposition(c, "winner")
         [] business # Effect(c) /\ call[c].op = "resolve" -> Hold(c, "close")
         [] business = None /\ call[c].op # "resolve" -> TryAgain(c, "insert")
         [] OTHER -> Hold(c, "present")
    /\ UNCHANGED <<fence, rows>>
-----------------------------------------------------------------------------
(***************************************************************************)
(* The transactions, all under writeWithCoordinatorFence.                   *)
(***************************************************************************)
\* Mutant of Fenced: the retirement is only looked for beforehand.
FencedByEpochOnly(c) == authority = call[c].epoch

Fenced(c) == ~retired /\ authority = call[c].epoch

\* Whatever the error, the caller reads what was decided.
WriteFails(c, why) == ReadDisposition(c, why)

WriteReturns(c, receipt, resolution) ==
    /\ pc' = [pc EXCEPT ![c] = "substantiate"]
    /\ held' = [held EXCEPT ![c] = [NothingHeld EXCEPT !.receipt = receipt,
                                                       !.resolution = resolution]]
    /\ UNCHANGED <<call, stage, attempt, outcome>>

\* Mutant of CanInsert: the resolution was read beforehand.
CanInsertUnlessReceived(c) ==
    /\ Fenced(c)
    /\ business = None
    /\ ~Exists(receipts[Effect(c)])

CanInsert(c) ==
    /\ Fenced(c)
    /\ ~resolutions[Effect(c)].closed
    /\ business = None
    /\ ~Exists(receipts[Effect(c)])

Insert(c) ==
    LET receipt == [inserted |-> TRUE, record |-> Effect(c)] IN
    /\ pc[c] = "insert"
    /\ \/ /\ CanInsert(c)
          /\ business' = Effect(c)
          /\ receipts' = [receipts EXCEPT ![Effect(c)] = receipt]
          /\ WriteReturns(c, receipt, NoResolution) \/ WriteFails(c, "failed")
       \/ WriteFails(c, "failed") /\ UNCHANGED <<business, receipts>>
    /\ UNCHANGED <<fence, resolutions>>

CanRetainPresent(c) ==
    /\ Fenced(c)
    /\ ~resolutions[Effect(c)].closed
    /\ business = held[c].business
    /\ ~Exists(receipts[Effect(c)])

RetainPresent(c) ==
    LET receipt == [inserted |-> FALSE, record |-> held[c].business] IN
    /\ pc[c] = "present"
    /\ \/ /\ CanRetainPresent(c)
          /\ receipts' = [receipts EXCEPT ![Effect(c)] = receipt]
          /\ WriteReturns(c, receipt, NoResolution) \/ WriteFails(c, "conflict")
       \/ WriteFails(c, "conflict") /\ UNCHANGED receipts
    /\ UNCHANGED <<fence, business, resolutions>>

\* Mutant of CanClose: the receipt was read beforehand.
CanCloseUnlessClosed(c) ==
    /\ Fenced(c)
    /\ ~resolutions[Effect(c)].closed

CanClose(c) ==
    /\ Fenced(c)
    /\ ~Exists(receipts[Effect(c)])
    /\ business = held[c].business
    /\ ~resolutions[Effect(c)].closed

Close(c) ==
    LET resolution == [closed |-> TRUE, observed |-> held[c].business] IN
    /\ pc[c] = "close"
    /\ \/ /\ CanClose(c)
          /\ resolutions' = [resolutions EXCEPT ![Effect(c)] = resolution]
          /\ WriteReturns(c, NoReceipt, resolution) \/ WriteFails(c, "failed")
       \/ WriteFails(c, "failed") /\ UNCHANGED resolutions
    /\ UNCHANGED <<fence, business, receipts>>
-----------------------------------------------------------------------------
\* The caller takes the answer, or its process stops in the middle of a call.
Leave(c) ==
    /\ pc[c] # "idle"
    /\ pc' = [pc EXCEPT ![c] = "idle"]
    /\ stage' = [stage EXCEPT ![c] = "first"]
    /\ attempt' = [attempt EXCEPT ![c] = 0]
    /\ held' = [held EXCEPT ![c] = NothingHeld]
    /\ outcome' = [outcome EXCEPT ![c] = "none"]
    /\ UNCHANGED <<fence, rows, call>>

CallerStep(c) ==
    \/ \E k \in Call : Begin(c, k)
    \/ ReadReceipt(c) \/ ReadResolution(c) \/ ExamineDisposition(c)
    \/ Substantiate(c)
    \/ ReadRetirement(c) \/ ReadAuthority(c) \/ ReadBusiness(c)
    \/ Insert(c) \/ RetainPresent(c) \/ Close(c)
    \/ Leave(c)

Next ==
    \/ Adopt \/ Retire \/ Reactivate
    \/ \E c \in Callers : CallerStep(c)

Spec == Init /\ [][Next]_vars
-----------------------------------------------------------------------------
TypeOK ==
    /\ authority \in Epochs
    /\ retired \in BOOLEAN
    /\ business \in Effects \cup {None}
    /\ receipts \in [Effects -> Receipt]
    /\ resolutions \in [Effects -> Resolution]
    /\ pc \in [Callers -> Steps]
    /\ call \in [Callers -> Call]
    /\ stage \in [Callers -> Stages]
    /\ attempt \in [Callers -> 0..(MaxAttempts - 1)]
    /\ held \in [Callers -> Held]
    /\ outcome \in [Callers -> Outcomes]

\* What the rows of the store say of an effect.
Disposition(e) ==
    CASE Exists(receipts[e]) -> IF receipts[e].inserted THEN "inserted" ELSE "present"
      [] ~Exists(receipts[e]) /\ resolutions[e].closed -> "not-applied"
      [] OTHER -> "open"

(***************************************************************************)
(* The store implements its promise: whatever interleaves, fails or is       *)
(* retried, one effect inserts, and each effect is decided once.            *)
(***************************************************************************)
Destination == INSTANCE EffectDestination
                   WITH disposition <- [e \in Effects |-> Disposition(e)]

DestinationSpec == Destination!Spec

(***************************************************************************)
(* A call that reports a decision reports the permanent one, whether it      *)
(* took it, lost the race for it or came late (putIfAbsent,                 *)
(* resolvePutIfAbsentNotApplied, recoverPutIfAbsent).                       *)
(***************************************************************************)
AnswersArePermanent ==
    \A c \in Callers : outcome[c] \in {"inserted", "present", "not-applied"} =>
        outcome[c] = Disposition(Effect(c))

(***************************************************************************)
(* No call takes the intermediate states of another for a corrupt store,    *)
(* although it reads the receipt, the resolution and the business record at  *)
(* three different moments (ApplicationStateCorruptionError).               *)
(***************************************************************************)
NoCallFindsCorruption == \A c \in Callers : outcome[c] # "corruption"

(***************************************************************************)
(* What a caller learns about an effect is true and stays true, and that the *)
(* store is corrupt it learns from no other call's progress.                *)
(***************************************************************************)
AnswersAreTrue == AnswersArePermanent /\ NoCallFindsCorruption

(***************************************************************************)
(* A retired store is sealed: until it is reactivated under a higher epoch   *)
(* nothing in it changes, not even by a call that had passed its checks      *)
(* before (retireStore).                                                   *)
(***************************************************************************)
RetiredStoreIsSealed ==
    [][retired => /\ UNCHANGED rows
                  /\ retired' \/ authority' > authority]_vars
=============================================================================
