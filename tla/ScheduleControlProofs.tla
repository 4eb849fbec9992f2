------------------------ MODULE ScheduleControlProofs ------------------------
(***************************************************************************)
(* Proofs about ScheduleControl: every due minute is accounted for once,      *)
(* whatever happens to the residents, the fences and the transactions.       *)
(*                                                                         *)
(* A transaction carries the cursor it was computed from and is refused if    *)
(* the store has another, so what matters is known when it is computed        *)
(* (Accords) and stays true while it is under way, given up and late.        *)
(***************************************************************************)
EXTENDS ScheduleControl, WellFoundedInduction, TLAPS

\* A cursor never covers more than the time at which it was written.
GoodCursor(c) ==
    /\ c \in Cursor
    /\ c.boundary <= c.horizon
    /\ c.horizon <= Floor(c.updatedAt)

\* Both evaluations go on from the cursor they started with.
GoesOn(r) ==
    /\ r.expected.definition \in Definitions
    /\ r.next.definition = r.expected.definition
    /\ r.next.boundary = r.expected.boundary
    /\ r.expected.horizon <= r.next.horizon

WindowOf(r) == DueIn(r.expected.definition, r.expected.horizon, r.next.horizon)

Accords(r) ==
    /\ r \in Request
    /\ GoodCursor(r.expected) /\ GoodCursor(r.next)
    /\ r.call \notin Fresh => r.next = r.expected
    /\ r.call = "activate" =>
          r.expected.horizon <= r.next.horizon /\ r.next.boundary = r.next.horizon
    /\ r.call = "advance" => GoesOn(r) /\ WindowOf(r) = {}
    /\ r.call = "admit" =>
          /\ GoesOn(r)
          /\ r.minute \in WindowOf(r)
          /\ \A k \in WindowOf(r) : k <= r.minute
          /\ r.skipped = WindowOf(r) \ {r.minute}

\* What a resident knows of the schedule belongs to its own definition.
Sound(s) ==
    /\ s \in Observer
    /\ Accords(s.request)
    /\ GoodCursor(s.cursor)
    /\ s.pc # "off" => s.definition \in Definitions
    /\ s.initialized => s.pc # "off" /\ s.cursor.definition = s.definition
    /\ s.request.call = "keep" => s.request.next.definition = s.definition

StoreInv ==
    /\ GoodCursor(cursor)
    /\ occurrences \in [Minutes -> Occurrence]
    /\ EveryDueMinuteIsAccountedOnce

IInv ==
    /\ TypeOK
    /\ StoreInv
    /\ \A o \in Observers : Sound(observer[o])
    /\ \A l \in late : Accords(l[2])
-----------------------------------------------------------------------------
(***************************************************************************)
(* Numbers.                                                                *)
(***************************************************************************)
\* A set of numbers has a least one.
LEMMA LeastNat ==
    ASSUME NEW S \in SUBSET Nat, S # {}
    PROVE  Min(S) \in S /\ \A y \in S : Min(S) <= y
<1>1. PICK x \in S : \A y \in S : ~ (<<y, x>> \in OpToRel(<, Nat))
    BY NatLessThanWellFounded, WFMin
<1>2. \A y \in S : ~ (y < x)
    BY <1>1 DEF OpToRel
<1>3. \A y \in S : x <= y
    BY <1>2
<1> QED BY <1>3 DEF Min

\* A bounded set of numbers has a greatest one.
LEMMA GreatestNat ==
    ASSUME NEW n \in Nat, NEW S \in SUBSET (0..n), S # {}
    PROVE  Max(S) \in S /\ \A y \in S : y <= Max(S)
<1> DEFINE T == {t \in 0..n : n - t \in S}
<1>1. PICK s \in S : TRUE
    OBVIOUS
<1>2. T \in SUBSET Nat /\ n - s \in T
    BY n - (n - s) = s
<1>3. PICK x \in T : \A y \in T : x <= y
    BY <1>2, LeastNat
<1>4. \A y \in S : y <= n - x
    <2> TAKE y \in S
    <2>1. n - y \in T
        BY n - (n - y) = y
    <2> QED BY <2>1, <1>3
<1>5. \E m \in S : \A y \in S : m >= y
    BY <1>3, <1>4
<1> QED BY <1>5 DEF Max

\* The last tick is one of the times, and none is later.
LEMMA LastTickIsLast == LastTick \in Nat /\ Times \subseteq 0..LastTick
<1>1. \E t \in Times : \A u \in Times : t >= u
    BY TimesAreNatural
<1>2. Max(Times) \in Times /\ \A u \in Times : Max(Times) >= u
    BY <1>1 DEF Max
<1>3. Times \subseteq Nat
    BY TimesAreNatural
<1>4. LastTick \in Times /\ \A u \in Times : u <= LastTick
    BY <1>2, <1>3 DEF LastTick
<1> QED BY <1>3, <1>4

\* A minute does not come before the minute of an earlier tick.
LEMMA FloorIsMinute ==
    ASSUME NEW t \in 0..LastTick
    PROVE  Floor(t) \in Minutes /\ \A u \in t..LastTick : Floor(t) <= Floor(u)
<1>1. \A a, b \in Nat : a <= b =>
          a \div TicksPerMinute <= b \div TicksPerMinute /\ a \div TicksPerMinute \in Nat
    BY TimesAreNatural, SMTT(30)
<1> QED BY <1>1, LastTickIsLast DEF Floor, Minutes
-----------------------------------------------------------------------------
(***************************************************************************)
(* What is computed for a request.                                         *)
(***************************************************************************)
LEMMA NothingIsGood == GoodCursor(NoCursor) /\ Accords(NoRequest) /\ Sound(Off)
<1>1. 0 \in 0..LastTick /\ Floor(0) \in Minutes /\ 0 \in Minutes
    BY LastTickIsLast, FloorIsMinute DEF Minutes
<1>2. GoodCursor(NoCursor)
    BY <1>1 DEF GoodCursor, NoCursor, Cursor, Minutes
<1>3. Accords(NoRequest)
    BY <1>1, <1>2 DEF Accords, NoRequest, Request, Fresh, Cursor
<1>4. Sound(Off)
    BY <1>1, <1>2, <1>3, TimesAreNatural
    DEF Sound, Off, Observer, Steps, NoRequest, Request, Cursor, Accords
<1> QED BY <1>2, <1>3, <1>4

LEMMA NoRequestIsNone == NoRequest.call = "none"
    BY DEF NoRequest

\* A cursor of a definition is not the absent one.
LEMMA CursorOfDefinition ==
    ASSUME NEW c \in Cursor, c.definition \in Definitions
    PROVE  c \in [definition : Definitions, boundary : Minutes, horizon : Minutes,
                  version : Nat \ {0}, updatedAt : 0..LastTick]
    BY NoneIsNothing DEF Cursor, NoCursor

\* A cursor that is taken over by a resident.
LEMMA CachedIsSound ==
    ASSUME NEW s, Sound(s), s.definition \in Definitions, NEW c, GoodCursor(c)
    PROVE  /\ Sound(Cached(s, c))
           /\ c.definition = s.definition =>
                 /\ Cached(s, c).pc = "poll"
                 /\ Cached(s, c).initialized
                 /\ Cached(s, c).definition = s.definition
<1>1. CASE c.definition # s.definition
    BY <1>1, NothingIsGood DEF Cached
<1>2. CASE c.definition = s.definition
    <2> DEFINE t == [s EXCEPT !.pc = "poll", !.cursor = c,
                              !.initialized = TRUE, !.at = 0, !.request = NoRequest]
    <2>1. Cached(s, c) = t
        BY <1>2 DEF Cached, Known
    <2>2. s \in Observer /\ NoRequest \in Request /\ c \in Cursor /\ 0 \in 0..LastTick
        BY NothingIsGood, LastTickIsLast DEF Sound, Accords, GoodCursor
    <2>3. t \in Observer
        BY <2>2 DEF Observer, Steps
    <2>4. t.pc = "poll" /\ t.cursor = c /\ t.initialized /\ t.request = NoRequest
          /\ t.definition = s.definition
        BY <2>2 DEF Observer
    <2>5. Sound(t)
        BY <2>3, <2>4, <1>2, NothingIsGood, NoRequestIsNone DEF Sound
    <2> QED BY <2>1, <2>4, <2>5
<1> QED BY <1>1, <1>2

\* The windows are sets of minutes.
LEMMA WindowIsMinutes ==
    ASSUME NEW d \in Definitions, NEW a \in Minutes, NEW b \in Minutes
    PROVE  DueIn(d, a, b) \in SUBSET Minutes /\ \A k \in DueIn(d, a, b) : a < k /\ k <= b
<1>1. Floor(LastTick) \in Nat
    BY LastTickIsLast, FloorIsMinute DEF Minutes
<1>2. Due[d] \in SUBSET Minutes
    BY DueIsMinutes
<1> QED BY <1>1, <1>2 DEF DueIn, Minutes

\* What a resident asks for after it looked at a window.
LEMMA EvaluationIsSound ==
    ASSUME NEW s, Sound(s), s.initialized, NEW at \in 0..LastTick,
           s.cursor.horizon <= Floor(at)
    PROVE  Sound(Evaluation(s, at, DueIn(s.definition, s.cursor.horizon, Floor(at))))
<1> DEFINE window == DueIn(s.definition, s.cursor.horizon, Floor(at))
           next == [s.cursor EXCEPT !.horizon = Floor(at),
                                    !.version = @ + 1, !.updatedAt = at]
           request == [NoRequest EXCEPT !.expected = s.cursor, !.next = next]
           advance == [request EXCEPT !.call = "advance"]
           admit == [request EXCEPT !.call = "admit", !.minute = Max(window),
                                    !.skipped = window \ {Max(window)}]
<1>1. /\ s \in Observer /\ s.definition \in Definitions
      /\ s.cursor.definition = s.definition /\ GoodCursor(s.cursor)
    BY DEF Sound
<1>2. s.cursor \in [definition : Definitions, boundary : Minutes, horizon : Minutes,
                    version : Nat \ {0}, updatedAt : 0..LastTick]
    BY <1>1, CursorOfDefinition DEF GoodCursor
<1>3. Floor(at) \in Minutes /\ Floor(LastTick) \in Nat
    BY FloorIsMinute, LastTickIsLast DEF Minutes
<1>4. /\ next.definition = s.cursor.definition
      /\ next.boundary = s.cursor.boundary
      /\ next.horizon = Floor(at)
      /\ next.updatedAt = at
      /\ next \in [definition : Definitions, boundary : Minutes, horizon : Minutes,
                   version : Nat \ {0}, updatedAt : 0..LastTick]
    <2>1. s.cursor.version + 1 \in Nat \ {0}
        BY <1>2
    <2>2. next = [s.cursor EXCEPT !.horizon = Floor(at),
                                  !.version = s.cursor.version + 1, !.updatedAt = at]
        OBVIOUS
    <2> QED BY <1>2, <1>3, <2>1, <2>2
<1>5. GoodCursor(next)
    <2>1. s.cursor.boundary <= Floor(at)
        BY <1>1, <1>2, <1>3 DEF GoodCursor, Minutes
    <2>2. Floor(at) <= Floor(at)
        BY <1>3 DEF Minutes
    <2>3. next \in Cursor
        BY <1>4 DEF Cursor
    <2> HIDE DEF next
    <2> QED BY <1>1, <1>4, <2>1, <2>2, <2>3 DEF GoodCursor
<1>6. window \in SUBSET Minutes
    BY <1>1, <1>2, <1>3, WindowIsMinutes
<1> HIDE DEF next, window
<1>7. request \in Request /\ request.expected = s.cursor /\ request.next = next
    BY NothingIsGood, <1>1, <1>5 DEF Accords, Request, GoodCursor
<1>8. CASE window = {}
    <2>1. /\ advance \in Request /\ advance.call = "advance"
          /\ advance.expected = s.cursor /\ advance.next = next
        BY <1>7 DEF Request, Fresh
    <2>2. GoesOn(advance) /\ WindowOf(advance) = {}
        BY <1>1, <1>4, <1>8, <2>1 DEF GoesOn, WindowOf, window
    <2> HIDE DEF advance
    <2>3. Accords(advance)
        BY <1>1, <1>5, <2>1, <2>2 DEF Accords, Fresh
    <2> DEFINE t == [s EXCEPT !.pc = "barrier", !.request = advance]
    <2>4. /\ t \in Observer /\ t.pc = "barrier" /\ t.request = advance
          /\ t.cursor = s.cursor /\ t.definition = s.definition
        BY <1>1, <2>1 DEF Observer, Steps
    <2>5. Evaluation(s, at, window) = t
        BY <1>8 DEF Evaluation, advance, next
    <2> HIDE DEF t
    <2>6. Sound(t)
        BY <1>1, <2>1, <2>3, <2>4 DEF Sound
    <2> QED BY <2>5, <2>6 DEF window
<1>9. CASE window # {}
    <2>1. Max(window) \in window /\ \A k \in window : k <= Max(window)
        BY <1>3, <1>6, <1>9, GreatestNat DEF Minutes
    <2>2. /\ admit \in Request /\ admit.call = "admit"
          /\ admit.expected = s.cursor /\ admit.next = next
          /\ admit.minute = Max(window) /\ admit.skipped = window \ {Max(window)}
        BY <1>6, <1>7, <2>1 DEF Request, Fresh
    <2>3. GoesOn(admit) /\ WindowOf(admit) = window
        BY <1>1, <1>4, <2>2 DEF GoesOn, WindowOf, window
    <2> HIDE DEF admit
    <2>4. Accords(admit)
        BY <1>1, <1>5, <2>1, <2>2, <2>3 DEF Accords, Fresh
    <2> DEFINE t == [s EXCEPT !.pc = "occurrence", !.request = admit]
    <2>5. /\ t \in Observer /\ t.pc = "occurrence" /\ t.request = admit
          /\ t.cursor = s.cursor /\ t.definition = s.definition
        BY <1>1, <2>2 DEF Observer, Steps
    <2>6. Evaluation(s, at, window) = t
        BY <1>9 DEF Evaluation, admit, next
    <2> HIDE DEF t
    <2>7. Sound(t)
        BY <1>1, <2>2, <2>4, <2>5 DEF Sound
    <2> QED BY <2>6, <2>7 DEF window
<1> QED BY <1>8, <1>9

LEMMA EvaluatedIsSound ==
    ASSUME NEW s, Sound(s), s.initialized, NEW at \in 0..LastTick
    PROVE  Sound(Evaluated(s, at))
<1>1. s.cursor.horizon \in Minutes /\ Floor(at) \in Minutes /\ Floor(LastTick) \in Nat
    <2>1. s.cursor \in [definition : Definitions, boundary : Minutes, horizon : Minutes,
                        version : Nat \ {0}, updatedAt : 0..LastTick]
        BY CursorOfDefinition DEF Sound, GoodCursor
    <2> QED BY <2>1, FloorIsMinute, LastTickIsLast DEF Minutes
<1>2. CASE Floor(at) <= s.cursor.horizon
    BY <1>2 DEF Evaluated
<1>3. CASE ~ (Floor(at) <= s.cursor.horizon)
    <2>1. s.cursor.horizon <= Floor(at)
        BY <1>1, <1>3 DEF Minutes
    <2>2. Sound(Evaluation(s, at, DueIn(s.definition, s.cursor.horizon, Floor(at))))
        BY <2>1, EvaluationIsSound
    <2> QED BY <1>3, <2>2, NothingIsGood DEF Evaluated
<1> QED BY <1>2, <1>3
-----------------------------------------------------------------------------
(***************************************************************************)
(* What a transaction does to the store.                                   *)
(***************************************************************************)
LEMMA CommitKeepsStore ==
    ASSUME StoreInv, NEW session, NEW r, Accords(r), cursor = r.expected,
           r.call = "admit" => occurrences[r.minute] = NoOccurrence,
           Commit(session, r)
    PROVE  StoreInv'
<1>1. cursor' = r.next /\ GoodCursor(r.next) /\ GoodCursor(cursor) /\ r \in Request
    BY DEF Commit, Accords, StoreInv
<1>2. cursor \in Cursor /\ r.next \in Cursor /\ Floor(LastTick) \in Nat
    BY <1>1, LastTickIsLast, FloorIsMinute DEF GoodCursor, Minutes
<1>3. /\ cursor.horizon \in Nat /\ r.next.horizon \in Nat
      /\ cursor.boundary \in Nat /\ r.next.boundary \in Nat
    BY <1>2 DEF Cursor, NoCursor, Minutes
<1>4. cursor.horizon <= r.next.horizon
    <2>1. CASE r.call \in {"activate", "advance", "admit"}
        BY <2>1 DEF Accords, GoesOn
    <2>2. CASE r.call \notin {"activate", "advance", "admit"}
        BY <1>3, <2>2 DEF Accords, Fresh
    <2> QED BY <2>1, <2>2
<1>5. CASE r.call # "admit"
    <2>1. occurrences' = occurrences
        BY <1>5 DEF Commit
    <2>2. Admitted' = Admitted /\ \A m \in Minutes : Window(m)' = Window(m)
        BY <2>1 DEF Admitted, Window
    <2>3. \A m \in Admitted : occurrences[m].through \in Nat
        BY <1>2 DEF StoreInv, Admitted, Occurrence, NoOccurrence, Minutes
    <2>4. \A m \in Admitted : occurrences'[m].through <= cursor'.horizon
        BY <1>1, <1>3, <1>4, <2>1, <2>3 DEF StoreInv, EveryDueMinuteIsAccountedOnce
    <2>5. cursor' # NoCursor =>
             \A m \in DueIn(cursor'.definition, cursor'.boundary, cursor'.horizon) :
                \E n \in Admitted :
                   /\ occurrences[n].definition = cursor'.definition
                   /\ m \in {n} \cup {k \in occurrences[n].skipped : k < n}
        <3>1. CASE r.call = "activate"
            <4>1. (cursor'.boundary + 1)..cursor'.horizon = {}
                BY <1>1, <1>3, <3>1 DEF Accords
            <4> QED BY <4>1 DEF DueIn
        <3>2. CASE r.call = "advance"
            <4>1. /\ cursor.definition \in Definitions
                  /\ cursor'.definition = cursor.definition
                  /\ cursor'.boundary = cursor.boundary
                  /\ DueIn(cursor.definition, cursor.horizon, cursor'.horizon) = {}
                BY <1>1, <3>2 DEF Accords, GoesOn, WindowOf
            <4>2. cursor # NoCursor
                BY <4>1, NoneIsNothing DEF NoCursor
            <4>3. \A m \in DueIn(cursor'.definition, cursor'.boundary, cursor'.horizon) :
                     m \in DueIn(cursor.definition, cursor.boundary, cursor.horizon)
                BY <1>1, <1>3, <1>4, <4>1, DueIsMinutes DEF DueIn, Minutes
            <4> QED BY <4>1, <4>2, <4>3 DEF StoreInv, EveryDueMinuteIsAccountedOnce
        <3>3. CASE r.call \notin Fresh
            <4>1. cursor' = cursor
                BY <1>1, <3>3 DEF Accords
            <4> QED BY <4>1 DEF StoreInv, EveryDueMinuteIsAccountedOnce
        <3> QED BY <1>5, <3>1, <3>2, <3>3 DEF Fresh
    <2>6. \A m, n \in Admitted : m # n => Window(m)' \cap Window(n)' = {}
        BY <2>2 DEF StoreInv, EveryDueMinuteIsAccountedOnce, Admitted
    <2> QED BY <1>1, <2>1, <2>2, <2>4, <2>5, <2>6
            DEF StoreInv, EveryDueMinuteIsAccountedOnce, GoodCursor
<1>6. CASE r.call = "admit"
    <2> DEFINE new == OccurrenceOf(r)
               w == WindowOf(r)
    <2>1. /\ cursor.definition \in Definitions
          /\ cursor'.definition = cursor.definition
          /\ cursor'.boundary = cursor.boundary
          /\ r.minute \in w
          /\ \A k \in w : k <= r.minute
          /\ r.skipped = w \ {r.minute}
          /\ w = DueIn(cursor.definition, cursor.horizon, cursor'.horizon)
        BY <1>1, <1>6 DEF Accords, GoesOn, WindowOf
    <2>2. cursor # NoCursor
        BY <2>1, NoneIsNothing DEF NoCursor
    <2>3. /\ cursor \in [definition : Definitions, boundary : Minutes, horizon : Minutes,
                         version : Nat \ {0}, updatedAt : 0..LastTick]
          /\ cursor' \in [definition : Definitions, boundary : Minutes, horizon : Minutes,
                          version : Nat \ {0}, updatedAt : 0..LastTick]
        BY <1>1, <1>2, <2>1, CursorOfDefinition
    <2>4. w \in SUBSET Minutes /\ \A k \in w : cursor.horizon < k /\ k <= cursor'.horizon
        BY <2>1, <2>3, WindowIsMinutes
    <2>5. /\ new.definition = cursor.definition /\ new.after = cursor.horizon
          /\ new.through = cursor'.horizon /\ new.skipped = w \ {r.minute}
          /\ new \in Occurrence /\ new # NoOccurrence
        <3>1. /\ new.definition = cursor.definition /\ new.after = cursor.horizon
              /\ new.through = cursor'.horizon /\ new.skipped = w \ {r.minute}
            BY <1>1, <2>1 DEF OccurrenceOf
        <3>2. new \in Occurrence
            BY <1>1, <2>1, <2>3, <2>4 DEF OccurrenceOf, Occurrence
        <3>3. new # NoOccurrence
            BY <2>1, <3>1, NoneIsNothing DEF NoOccurrence
        <3> QED BY <3>1, <3>2, <3>3
    <2>6. occurrences' = [occurrences EXCEPT ![r.minute] = new]
        BY <1>6 DEF Commit
    <2> HIDE DEF new
    <2>7. r.minute \in Minutes /\ r.minute \notin Admitted
        BY <1>6, <2>1, <2>4 DEF Admitted
    <2>8. /\ occurrences' \in [Minutes -> Occurrence]
          /\ occurrences'[r.minute] = new
          /\ \A m \in Minutes : m # r.minute => occurrences'[m] = occurrences[m]
        BY <2>5, <2>6, <2>7 DEF StoreInv
    <2>9. Admitted' = Admitted \cup {r.minute}
        BY <2>5, <2>7, <2>8 DEF Admitted
    <2>10. \A m \in Admitted : m \in Minutes /\ occurrences'[m] = occurrences[m]
        BY <2>7, <2>8 DEF Admitted
    <2>11. \A m \in Admitted : /\ occurrences[m].through \in Nat
                               /\ occurrences[m].through <= cursor.horizon
        BY <1>2 DEF StoreInv, EveryDueMinuteIsAccountedOnce, Admitted, Occurrence,
                    NoOccurrence, Minutes
    <2>12. \A m \in Admitted' : occurrences'[m].through <= cursor'.horizon
        BY <1>1, <1>3, <1>4, <2>5, <2>8, <2>9, <2>10, <2>11
    <2>13. \A m, n \in Admitted' : m # n => Window(m)' \cap Window(n)' = {}
        <3>1. \A m \in Admitted : Window(m)' = Window(m)
            BY <2>10 DEF Window
        <3>2. Window(r.minute)' = (cursor.horizon + 1)..cursor'.horizon
            BY <2>5, <2>8 DEF Window
        <3>3. \A m \in Admitted : \A k \in Window(m) : k \in Int /\ k <= cursor.horizon
            <4>1. \A m \in Admitted : occurrences[m].after \in Nat
                BY <1>2 DEF StoreInv, Admitted, Occurrence, NoOccurrence, Minutes
            <4> QED BY <1>3, <2>11, <4>1 DEF Window
        <3>4. \A m \in Admitted : Window(m) \cap ((cursor.horizon + 1)..cursor'.horizon) = {}
            BY <1>1, <1>3, <3>3
        <3>5. \A m, n \in Admitted : m # n => Window(m) \cap Window(n) = {}
            BY DEF StoreInv, EveryDueMinuteIsAccountedOnce
        <3> TAKE m, n \in Admitted'
        <3> HAVE m # n
        <3>6. CASE m \in Admitted /\ n \in Admitted
            BY <3>1, <3>5, <3>6
        <3>7. CASE m = r.minute
            <4>1. n \in Admitted
                BY <2>9, <3>7
            <4>2. Window(m)' = (cursor.horizon + 1)..cursor'.horizon
                BY <3>2, <3>7
            <4>3. Window(n)' = Window(n)
                BY <3>1, <4>1
            <4> QED BY <3>4, <4>1, <4>2, <4>3
        <3>8. CASE n = r.minute
            <4>1. m \in Admitted
                BY <2>9, <3>8
            <4>2. Window(n)' = (cursor.horizon + 1)..cursor'.horizon
                BY <3>2, <3>8
            <4>3. Window(m)' = Window(m)
                BY <3>1, <4>1
            <4> QED BY <3>4, <4>1, <4>2, <4>3
        <3> QED BY <2>9, <3>6, <3>7, <3>8
    <2>14. \A m \in DueIn(cursor'.definition, cursor'.boundary, cursor'.horizon) :
              \E n \in Admitted' :
                 /\ occurrences'[n].definition = cursor'.definition
                 /\ m \in {n} \cup {k \in occurrences'[n].skipped : k < n}
        <3> TAKE m \in DueIn(cursor'.definition, cursor'.boundary, cursor'.horizon)
        <3>1. \/ m \in DueIn(cursor.definition, cursor.boundary, cursor.horizon)
              \/ m \in w
            BY <1>1, <1>3, <2>1, <2>3, DueIsMinutes DEF DueIn, Minutes
        <3>2. CASE m \in w
            <4>1. m = r.minute \/ (m \in w \ {r.minute} /\ m < r.minute)
                BY <2>1, <2>4, <2>7, <3>2, <1>2 DEF Minutes
            <4>2. /\ r.minute \in Admitted'
                  /\ occurrences'[r.minute].definition = cursor'.definition
                  /\ occurrences'[r.minute].skipped = w \ {r.minute}
                BY <2>1, <2>5, <2>8, <2>9
            <4> QED BY <4>1, <4>2
        <3>3. CASE m \in DueIn(cursor.definition, cursor.boundary, cursor.horizon)
            <4>1. PICK n \in Admitted :
                     /\ occurrences[n].definition = cursor.definition
                     /\ m \in {n} \cup {k \in occurrences[n].skipped : k < n}
                BY <2>2, <3>3 DEF StoreInv, EveryDueMinuteIsAccountedOnce
            <4> QED BY <2>1, <2>9, <2>10, <4>1
        <3> QED BY <3>1, <3>2, <3>3
    <2>15. EveryDueMinuteIsAccountedOnce'
        BY <2>12, <2>13, <2>14 DEF EveryDueMinuteIsAccountedOnce
    <2>16. GoodCursor(cursor')
        BY <1>1
    <2> QED BY <2>8, <2>15, <2>16 DEF StoreInv, GoodCursor
<1> QED BY <1>5, <1>6
-----------------------------------------------------------------------------
(***************************************************************************)
(* What a resident becomes.                                                *)
(***************************************************************************)
\* The fields of a resident that goes on with another request.
LEMMA RequestedIsSound ==
    ASSUME NEW s, Sound(s), s.pc # "off", NEW pc \in Steps \ {"off"},
           NEW r, Accords(r), r.call = "keep" => r.next.definition = s.definition
    PROVE  Sound([s EXCEPT !.pc = pc, !.request = r])
<1> DEFINE t == [s EXCEPT !.pc = pc, !.request = r]
<1>1. s \in Observer /\ r \in Request
    BY DEF Sound, Accords
<1>2. /\ t \in Observer /\ t.pc = pc /\ t.request = r /\ t.definition = s.definition
      /\ t.cursor = s.cursor /\ t.initialized = s.initialized
    BY <1>1 DEF Observer
<1> HIDE DEF t
<1>3. Sound(t)
    BY <1>2 DEF Sound
<1> QED BY <1>3 DEF t

LEMMA MovedIsSound ==
    ASSUME NEW s, Sound(s), s.pc # "off", NEW pc \in Steps \ {"off"}
    PROVE  Sound([s EXCEPT !.pc = pc])
<1> DEFINE t == [s EXCEPT !.pc = pc]
<1>1. s \in Observer
    BY DEF Sound
<1>2. /\ t \in Observer /\ t.pc = pc /\ t.request = s.request
      /\ t.definition = s.definition /\ t.cursor = s.cursor
      /\ t.initialized = s.initialized
    BY <1>1 DEF Observer
<1> HIDE DEF t
<1>3. Sound(t)
    BY <1>2 DEF Sound
<1> QED BY <1>3 DEF t

\* The fences that a request carries are nothing to its cursors.
LEMMA FencesOfRequest ==
    ASSUME NEW r, Accords(r), NEW n \in Nat
    PROVE  /\ Accords([r EXCEPT !.barrier = n])
           /\ [r EXCEPT !.barrier = n].call = r.call
           /\ [r EXCEPT !.barrier = n].next = r.next
           /\ Accords([r EXCEPT !.activation = n])
           /\ [r EXCEPT !.activation = n].call = r.call
           /\ [r EXCEPT !.activation = n].next = r.next
<1>1. r \in Request
    BY DEF Accords
<1>2. ASSUME NEW q \in Request, q.call = r.call, q.expected = r.expected,
             q.next = r.next, q.minute = r.minute, q.skipped = r.skipped
      PROVE  Accords(q)
    BY <1>2 DEF Accords, GoesOn, WindowOf
<1>3. /\ [r EXCEPT !.barrier = n] \in Request
      /\ [r EXCEPT !.activation = n] \in Request
    BY <1>1 DEF Request
<1> DEFINE b == [r EXCEPT !.barrier = n]
           a == [r EXCEPT !.activation = n]
<1>4. /\ b.call = r.call /\ b.expected = r.expected /\ b.next = r.next
      /\ b.minute = r.minute /\ b.skipped = r.skipped
    BY <1>1 DEF Request
<1>5. /\ a.call = r.call /\ a.expected = r.expected /\ a.next = r.next
      /\ a.minute = r.minute /\ a.skipped = r.skipped
    BY <1>1 DEF Request
<1> QED BY <1>2, <1>3, <1>4, <1>5

\* The answer to a transaction is what its resident takes over.
LEMMA AnsweredIsSound ==
    ASSUME NEW s, Sound(s), s.pc # "off"
    PROVE  Sound(Answered(s))
<1>1. /\ s.definition \in Definitions /\ GoodCursor(s.request.next)
      /\ s.at \in 0..LastTick
    BY DEF Sound, Accords, Observer
<1>2. CASE s.request.call = "admit"
    BY <1>2, MovedIsSound DEF Answered, Steps
<1>3. CASE s.request.call = "keep"
    <2>1. s.request.next.definition = s.definition
        BY <1>3 DEF Sound
    <2>2. /\ Sound(Cached(s, s.request.next))
          /\ Cached(s, s.request.next).initialized
        BY <1>1, <2>1, CachedIsSound
    <2> QED BY <1>1, <1>3, <2>2, EvaluatedIsSound DEF Answered
<1>4. CASE s.request.call \notin {"admit", "keep"}
    BY <1>1, <1>4, CachedIsSound DEF Answered
<1> QED BY <1>2, <1>3, <1>4
-----------------------------------------------------------------------------
(***************************************************************************)
(* The steps.                                                              *)
(***************************************************************************)
LEMMA StoreStays ==
    ASSUME StoreInv, UNCHANGED store
    PROVE  StoreInv'
    BY DEF StoreInv, store, EveryDueMinuteIsAccountedOnce, GoodCursor, Admitted, Window

\* A step of one resident that moves nothing but itself and the store.
LEMMA BecomeKeeps ==
    ASSUME IInv, StoreInv', NEW o \in Observers, NEW s, Sound(s), Become(o, s)
    PROVE  IInv'
<1>1. observer \in [Observers -> Observer] /\ s \in Observer
    BY DEF IInv, TypeOK, Sound
<1>2. observer' = [observer EXCEPT ![o] = s]
    BY DEF Become
<1>3. observer' \in [Observers -> Observer]
    BY <1>1, <1>2
<1>4. \A p \in Observers : Sound(observer'[p])
    <2> TAKE p \in Observers
    <2>1. CASE p = o
        BY <1>1, <1>2, <2>1
    <2>2. CASE p # o
        <3>1. observer'[p] = observer[p]
            BY <1>1, <1>2, <2>2
        <3> QED BY <3>1 DEF IInv
    <2> QED BY <2>1, <2>2
<1>5. TypeOK'
    BY <1>3 DEF IInv, TypeOK, StoreInv, GoodCursor, Become, fenced
<1>6. \A l \in late' : Accords(l[2])
    BY DEF IInv, Become
<1> QED BY <1>4, <1>5, <1>6 DEF IInv

\* A step of one resident that only reads.
LEMMA ReadKeeps ==
    ASSUME IInv, NEW o \in Observers, NEW s, Sound(s), Become(o, s), UNCHANGED store
    PROVE  IInv'
    BY BecomeKeeps, StoreStays DEF IInv

LEMMA ObserveKeeps ==
    ASSUME IInv, NEW o \in Observers, NEW at \in Times, Observe(o, at)
    PROVE  IInv'
<1> DEFINE s == observer[o]
<1>1. Sound(s) /\ s.pc = "poll" /\ UNCHANGED store /\ at \in 0..LastTick
    BY LastTickIsLast DEF IInv, Observe
<1>2. CASE Become(o, Off)
    BY <1>1, <1>2, ReadKeeps, NothingIsGood
<1>3. CASE s.initialized /\ Become(o, Evaluated(s, at))
    BY <1>1, <1>3, ReadKeeps, EvaluatedIsSound
<1>4. CASE Become(o, [Goto(o, "read") EXCEPT !.at = at])
    <2> DEFINE u == [s EXCEPT !.pc = "read"]
               t == [u EXCEPT !.at = at]
    <2>1. Sound(u) /\ u.pc = "read"
        <3>1. u.pc = "read"
            BY <1>1 DEF Sound, Observer
        <3> QED BY <1>1, <3>1, MovedIsSound DEF Steps
    <2> HIDE DEF u
    <2>2. /\ t \in Observer /\ t.pc = u.pc /\ t.request = u.request
          /\ t.definition = u.definition /\ t.cursor = u.cursor
          /\ t.initialized = u.initialized
        BY <1>1, <2>1 DEF Sound, Observer
    <2> HIDE DEF t
    <2>3. Sound(t)
        BY <2>1, <2>2 DEF Sound
    <2> QED BY <1>1, <1>4, <2>3, ReadKeeps DEF Goto, t, u
<1>5. CASE UNCHANGED <<fenced, observer, late, faults>>
    BY <1>1, <1>5, StoreStays DEF IInv, TypeOK, StoreInv, GoodCursor, fenced
<1> QED BY <1>1, <1>2, <1>3, <1>4, <1>5 DEF Observe

\* An activation is never earlier than the cursor it replaces.
LEMMA EffectiveTimeIsLate ==
    ASSUME IInv, NEW o \in Observers
    PROVE  /\ EffectiveTime(o) \in 0..LastTick
           /\ Floor(EffectiveTime(o)) \in Minutes
           /\ cursor.horizon <= Floor(EffectiveTime(o))
           /\ cursor.version + 1 \in Nat \ {0}
<1>1. /\ observer[o].at \in 0..LastTick /\ GoodCursor(cursor) /\ LastTick \in Nat
      /\ Floor(LastTick) \in Nat
    BY LastTickIsLast, FloorIsMinute DEF IInv, Sound, Observer, StoreInv, Minutes
<1>2. /\ cursor.updatedAt \in 0..LastTick /\ cursor.horizon \in Nat
      /\ cursor.version + 1 \in Nat \ {0}
    BY <1>1 DEF GoodCursor, Cursor, NoCursor, Minutes
<1>3. CASE cursor = NoCursor
    <2>1. EffectiveTime(o) = observer[o].at /\ cursor.horizon = 0
        BY <1>3 DEF EffectiveTime, NoCursor
    <2>2. Floor(observer[o].at) \in Minutes /\ Floor(observer[o].at) \in Nat
        BY <1>1, FloorIsMinute DEF Minutes
    <2>3. 0 <= Floor(observer[o].at)
        BY <2>2
    <2> QED BY <1>1, <1>2, <2>1, <2>2, <2>3
<1>4. CASE cursor # NoCursor
    <2> DEFINE t == Max({observer[o].at, cursor.updatedAt})
    <2>1. t \in 0..LastTick /\ cursor.updatedAt <= t
        BY <1>1, <1>2, GreatestNat
    <2>2. EffectiveTime(o) = t
        BY <1>4 DEF EffectiveTime
    <2> HIDE DEF t
    <2>3. t \in cursor.updatedAt..LastTick
        BY <1>1, <1>2, <2>1
    <2>4. /\ Floor(t) \in Minutes /\ Floor(cursor.updatedAt) \in Minutes
          /\ Floor(cursor.updatedAt) <= Floor(t)
        BY <1>2, <2>1, <2>3, FloorIsMinute
    <2>5. cursor.horizon <= Floor(t)
        BY <1>1, <1>2, <2>4 DEF GoodCursor, Minutes
    <2> QED BY <1>2, <2>1, <2>2, <2>4, <2>5
<1> QED BY <1>3, <1>4

LEMMA ReadCursorKeeps ==
    ASSUME IInv, NEW o \in Observers, ReadCursor(o)
    PROVE  IInv'
<1> DEFINE s == observer[o]
           t == EffectiveTime(o)
           fresh == [definition |-> s.definition, boundary |-> Floor(t),
                     horizon |-> Floor(t), version |-> cursor.version + 1,
                     updatedAt |-> t]
           r == [NoRequest EXCEPT !.expected = cursor]
           keep == [r EXCEPT !.call = "keep", !.next = cursor]
           activate == [r EXCEPT !.call = "activate", !.next = fresh]
<1>1. Sound(s) /\ s.pc = "read" /\ UNCHANGED store /\ GoodCursor(cursor)
    BY DEF IInv, ReadCursor, StoreInv
<1>2. NoRequest \in Request /\ cursor \in Cursor
    BY <1>1, NothingIsGood DEF Accords, GoodCursor
<1>3. CASE cursor.definition = s.definition
    <2>1. /\ keep \in Request /\ keep.call = "keep"
          /\ keep.expected = cursor /\ keep.next = cursor
        BY <1>2 DEF Request
    <2> HIDE DEF keep
    <2>2. Accords(keep)
        BY <1>1, <2>1 DEF Accords, Fresh
    <2>3. Sound([s EXCEPT !.pc = "activation", !.request = keep])
        BY <1>1, <1>3, <2>1, <2>2, RequestedIsSound DEF Steps
    <2>4. Become(o, [s EXCEPT !.pc = "activation", !.request = keep])
        BY <1>3 DEF ReadCursor, keep
    <2> QED BY <1>1, <2>3, <2>4, ReadKeeps
<1>4. CASE cursor.definition # s.definition
    <2>1. GoodCursor(fresh) /\ cursor.horizon <= fresh.horizon
          /\ fresh.boundary = fresh.horizon
        <3>1. s.definition \in Definitions
            BY <1>1 DEF Sound
        <3>2. fresh \in Cursor
            BY <3>1, EffectiveTimeIsLate DEF Cursor
        <3>3. Floor(t) <= Floor(t)
            BY EffectiveTimeIsLate, LastTickIsLast, FloorIsMinute DEF Minutes
        <3> QED BY <3>2, <3>3, EffectiveTimeIsLate DEF GoodCursor
    <2> HIDE DEF fresh
    <2>2. /\ activate \in Request /\ activate.call = "activate"
          /\ activate.expected = cursor /\ activate.next = fresh
        BY <1>2, <2>1 DEF Request, Fresh, GoodCursor
    <2> HIDE DEF activate
    <2>3. Accords(activate)
        BY <1>1, <2>1, <2>2 DEF Accords, Fresh
    <2> DEFINE u == [s EXCEPT !.pc = "barrier", !.at = 0, !.request = activate]
    <2>4. /\ u \in Observer /\ u.pc = "barrier" /\ u.request = activate
          /\ u.definition = s.definition /\ u.cursor = s.cursor
          /\ u.initialized = s.initialized
        <3>1. s \in Observer /\ activate \in Request /\ 0 \in 0..LastTick
            BY <1>1, <2>2, LastTickIsLast DEF Sound
        <3> HIDE DEF s
        <3> QED BY <3>1 DEF Observer, Steps
    <2>5. Become(o, u)
        BY <1>4 DEF ReadCursor, activate, fresh
    <2> HIDE DEF u
    <2>6. Sound(u)
        BY <1>1, <2>2, <2>3, <2>4 DEF Sound
    <2> QED BY <1>1, <2>5, <2>6, ReadKeeps
<1> QED BY <1>3, <1>4

LEMMA ReadOccurrenceKeeps ==
    ASSUME IInv, NEW o \in Observers, ReadOccurrence(o)
    PROVE  IInv'
<1>1. Sound(observer[o]) /\ observer[o].pc # "off" /\ UNCHANGED store
    BY DEF IInv, ReadOccurrence
<1>2. Sound(Goto(o, "barrier")) /\ Sound(Goto(o, "admitted")) /\ Sound(Off)
    BY <1>1, MovedIsSound, NothingIsGood DEF Goto, Steps
<1>3. \/ Become(o, Goto(o, "barrier")) \/ Become(o, Goto(o, "admitted"))
      \/ Become(o, Off)
    BY DEF ReadOccurrence
<1> QED BY <1>1, <1>2, <1>3, ReadKeeps

\* The generation of the barrier and the version of the activation are numbers.
LEMMA FencesAreNumbers ==
    ASSUME IInv
    PROVE  barrier.generation \in Nat /\ activation.version \in Nat
    BY DEF IInv, TypeOK

LEMMA ReadBarrierKeeps ==
    ASSUME IInv, NEW o \in Observers, ReadBarrier(o)
    PROVE  IInv'
<1> DEFINE s == observer[o]
           r == [s.request EXCEPT !.barrier = barrier.generation]
           t == [Goto(o, "activation") EXCEPT !.request.barrier = barrier.generation]
<1>1. Sound(s) /\ s.pc # "off" /\ UNCHANGED store
    BY DEF IInv, ReadBarrier
<1>2. Accords(r) /\ (r.call = "keep" => r.next.definition = s.definition)
    BY <1>1, FencesAreNumbers, FencesOfRequest DEF Sound
<1>3. Sound([s EXCEPT !.pc = "activation", !.request = r])
    BY <1>1, <1>2, RequestedIsSound DEF Steps
<1>4. t = [s EXCEPT !.pc = "activation", !.request = r]
    BY <1>1 DEF Sound, Observer, Goto
<1>5. Become(o, t) \/ Become(o, Off)
    BY DEF ReadBarrier
<1> QED BY <1>1, <1>3, <1>4, <1>5, ReadKeeps, NothingIsGood

LEMMA ReadActivationKeeps ==
    ASSUME IInv, NEW o \in Observers, ReadActivation(o)
    PROVE  IInv'
<1> DEFINE s == observer[o]
           r == [s.request EXCEPT !.activation = activation.version]
           t == [Goto(o, "write") EXCEPT !.request.activation = activation.version]
<1>1. Sound(s) /\ s.pc # "off" /\ UNCHANGED store
    BY DEF IInv, ReadActivation
<1>2. Accords(r) /\ (r.call = "keep" => r.next.definition = s.definition)
    BY <1>1, FencesAreNumbers, FencesOfRequest DEF Sound
<1>3. Sound([s EXCEPT !.pc = "write", !.request = r])
    BY <1>1, <1>2, RequestedIsSound DEF Steps
<1>4. t = [s EXCEPT !.pc = "write", !.request = r]
    BY <1>1 DEF Sound, Observer, Goto
<1>5. Become(o, t) \/ Become(o, Off)
    BY DEF ReadActivation
<1> QED BY <1>1, <1>3, <1>4, <1>5, ReadKeeps, NothingIsGood

\* A transaction that its fences and its cursor let through.
LEMMA HeldCommitKeepsStore ==
    ASSUME StoreInv, NEW session, NEW r, Accords(r), Holds(session, r),
           Commit(session, r)
    PROVE  StoreInv'
    BY CommitKeepsStore DEF Holds

LEMMA WriteKeeps ==
    ASSUME IInv, NEW o \in Observers, Write(o)
    PROVE  IInv'
<1> DEFINE s == observer[o]
<1>1. Sound(s) /\ s.pc # "off" /\ Accords(s.request) /\ StoreInv
    BY DEF IInv, Write, Sound
<1>2. CASE Holds(s, s.request) /\ Commit(s, s.request) /\ Become(o, Answered(s))
    BY <1>1, <1>2, HeldCommitKeepsStore, AnsweredIsSound, BecomeKeeps
<1>3. CASE Become(o, Goto(o, "failed")) /\ UNCHANGED store
    BY <1>1, <1>3, MovedIsSound, ReadKeeps DEF Goto, Steps
<1> QED BY <1>2, <1>3 DEF Write

LEMMA FailedKeeps ==
    ASSUME IInv, NEW o \in Observers, Failed(o)
    PROVE  IInv'
<1> DEFINE s == observer[o]
           r == s.request
           q == [r EXCEPT !.call = "recheck", !.expected = cursor, !.next = cursor]
           t == [s EXCEPT !.pc = "activation", !.request = q]
<1>1. Sound(s) /\ s.pc # "off" /\ Accords(r) /\ UNCHANGED store /\ GoodCursor(cursor)
    BY DEF IInv, Failed, Sound, StoreInv
<1>2. Sound(Cached(s, cursor)) /\ Sound(Goto(o, "admitted")) /\ Sound(Off)
    BY <1>1, MovedIsSound, CachedIsSound, NothingIsGood DEF Goto, Steps, Sound
<1>3. /\ q \in Request /\ q.call = "recheck"
      /\ q.expected = cursor /\ q.next = cursor
    BY <1>1 DEF Accords, Request, GoodCursor
<1> HIDE DEF q
<1>4. Accords(q)
    BY <1>1, <1>3 DEF Accords, Fresh
<1>5. Sound(t)
    BY <1>1, <1>3, <1>4, RequestedIsSound DEF Steps
<1>6. \/ Become(o, Cached(s, cursor)) \/ Become(o, t)
      \/ Become(o, Goto(o, "admitted")) \/ Become(o, Off)
    BY DEF Failed, q
<1> QED BY <1>1, <1>2, <1>5, <1>6, ReadKeeps

LEMMA ReadNextCursorKeeps ==
    ASSUME IInv, NEW o \in Observers, ReadNextCursor(o)
    PROVE  IInv'
<1>1. /\ Sound(observer[o]) /\ observer[o].pc # "off"
      /\ UNCHANGED store /\ GoodCursor(cursor)
    BY DEF IInv, ReadNextCursor, StoreInv
<1>2. Sound(Cached(observer[o], cursor))
    BY <1>1, CachedIsSound DEF Sound
<1> QED BY <1>1, <1>2, ReadKeeps DEF ReadNextCursor
-----------------------------------------------------------------------------
\* A step that leaves the residents, the store and the late transactions.
LEMMA SurroundingsKeep ==
    ASSUME IInv, TypeOK', UNCHANGED <<store, observer>>, late' \subseteq late
    PROVE  IInv'
<1>1. StoreInv'
    BY StoreStays DEF IInv
<1> QED BY <1>1 DEF IInv

LEMMA WriteUnansweredKeeps ==
    ASSUME IInv, NEW o \in Observers, WriteUnanswered(o)
    PROVE  IInv'
<1> DEFINE s == observer[o]
           l == <<[session |-> s.session, bound |-> s.bound], s.request>>
<1>1. Sound(s) /\ s.pc # "off" /\ Accords(s.request) /\ StoreInv /\ TypeOK
    BY DEF IInv, WriteUnanswered, Sound
<1>2. /\ s.session \in 0..MaxSessions /\ s.bound \in BOOLEAN /\ s.request \in Request
    BY <1>1 DEF Sound, Observer
<1>3. observer' = [observer EXCEPT ![o] = [s EXCEPT !.pc = "failed"]]
    BY DEF WriteUnanswered
<1>4. Sound([s EXCEPT !.pc = "failed"])
    BY <1>1, MovedIsSound DEF Steps
<1>5. /\ observer' \in [Observers -> Observer]
      /\ \A p \in Observers : Sound(observer'[p])
    <2>1. observer \in [Observers -> Observer]
        BY <1>1 DEF TypeOK
    <2>2. [s EXCEPT !.pc = "failed"] \in Observer
        BY <1>4 DEF Sound
    <2>3. observer' \in [Observers -> Observer]
        BY <1>3, <2>1, <2>2
    <2>4. observer'[o] = [s EXCEPT !.pc = "failed"]
        BY <1>3, <2>1
    <2>5. \A p \in Observers : p # o => observer'[p] = observer[p]
        BY <1>3, <2>1
    <2>6. \A p \in Observers : Sound(observer[p])
        BY DEF IInv
    <2>7. ASSUME NEW p \in Observers
          PROVE  Sound(observer'[p])
        <3>1. CASE p = o
            BY <3>1, <2>4, <1>4
        <3>2. CASE p # o
            <4>1. observer'[p] = observer[p]
                BY <3>2, <2>5
            <4> QED BY <4>1, <2>6
        <3> QED BY <3>1, <3>2
    <2> QED BY <2>3, <2>7
<1>6. faults' \in 0..MaxFaults
    BY <1>1, TimesAreNatural DEF WriteUnanswered, Fault, TypeOK
<1>7. StoreInv'
    <2>1. CASE Holds(s, s.request) /\ Commit(s, s.request)
        BY <1>1, <2>1, HeldCommitKeepsStore
    <2>2. CASE UNCHANGED store
        BY <1>1, <2>2, StoreStays
    <2> QED BY <2>1, <2>2 DEF WriteUnanswered
<1>8. l \in [session : 0..MaxSessions, bound : BOOLEAN] \X Request /\ l[2] = s.request
    BY <1>2
<1>9. late' \subseteq late \cup {l}
    BY DEF WriteUnanswered
<1>10. /\ late' \subseteq [session : 0..MaxSessions, bound : BOOLEAN] \X Request
       /\ \A k \in late' : Accords(k[2])
    BY <1>1, <1>8, <1>9 DEF TypeOK, IInv
<1>11. TypeOK'
    BY <1>1, <1>5, <1>6, <1>7, <1>10
       DEF TypeOK, StoreInv, GoodCursor, WriteUnanswered, fenced
<1> QED BY <1>5, <1>7, <1>10, <1>11 DEF IInv

LEMMA DeliverKeeps ==
    ASSUME IInv, Deliver
    PROVE  IInv'
<1>1. PICK l \in late :
         /\ late' = late \ {l}
         /\ IF Holds(l[1], l[2]) THEN Commit(l[1], l[2]) ELSE UNCHANGED store
         /\ UNCHANGED <<fenced, observer, faults>>
    BY DEF Deliver
<1>2. StoreInv /\ Accords(l[2])
    BY DEF IInv
<1>3. StoreInv'
    <2>1. CASE Holds(l[1], l[2]) /\ Commit(l[1], l[2])
        BY <1>2, <2>1, HeldCommitKeepsStore
    <2>2. CASE UNCHANGED store
        BY <1>2, <2>2, StoreStays
    <2> QED BY <1>1, <2>1, <2>2
<1>4. TypeOK'
    BY <1>1, <1>3 DEF IInv, TypeOK, StoreInv, GoodCursor, fenced
<1> QED BY <1>1, <1>3, <1>4 DEF IInv

LEMMA StartKeeps ==
    ASSUME IInv, NEW o \in Observers, NEW d \in Definitions, Start(o, d)
    PROVE  IInv'
<1> DEFINE s == [Off EXCEPT !.pc = "poll", !.session = FreeSession,
                            !.bound = o \in Bound, !.definition = d]
<1>1. FreeSession \in 0..MaxSessions
    <2>1. FreeSessions \in SUBSET Nat /\ FreeSessions \subseteq 0..MaxSessions
        BY TimesAreNatural DEF FreeSessions
    <2>2. FreeSessions # {}
        BY DEF Start
    <2>3. FreeSession \in FreeSessions
        BY <2>1, <2>2, LeastNat DEF FreeSession
    <2> QED BY <2>1, <2>3
<1>2. Off \in Observer /\ Accords(Off.request) /\ GoodCursor(Off.cursor)
    BY NothingIsGood DEF Sound
<1>3. (o \in Bound) \in BOOLEAN
    OBVIOUS
<1>4. /\ s \in Observer /\ s.request = Off.request /\ s.cursor = Off.cursor
      /\ s.definition = d /\ s.initialized = Off.initialized
    BY <1>1, <1>2, <1>3 DEF Observer, Steps
<1>5. ~Off.initialized /\ Off.request.call = "none"
    BY DEF Off, NoRequest
<1>6. observer' = [observer EXCEPT ![o] = s]
    BY DEF Start
<1> HIDE DEF s
<1>7. Sound(s)
    BY <1>2, <1>4, <1>5 DEF Sound
<1>8. observer \in [Observers -> Observer]
    BY DEF IInv, TypeOK
<1>9. observer' \in [Observers -> Observer]
    BY <1>4, <1>6, <1>8
<1>10. \A p \in Observers : Sound(observer'[p])
    <2> TAKE p \in Observers
    <2>1. CASE p = o
        BY <1>6, <1>7, <1>8, <2>1
    <2>2. CASE p # o
        <3>1. observer'[p] = observer[p]
            BY <1>6, <1>8, <2>2
        <3> QED BY <3>1 DEF IInv
    <2> QED BY <2>1, <2>2
<1>11. /\ owner' \in 0..MaxSessions /\ holder' \in 0..MaxSessions
       /\ faults' \in 0..MaxFaults
       /\ UNCHANGED <<store, activation, barrier, late>>
    BY <1>1, TimesAreNatural DEF IInv, TypeOK, Start, Fault
<1>12. StoreInv'
    BY <1>11, StoreStays DEF IInv
<1>13. TypeOK'
    BY <1>9, <1>11, <1>12 DEF IInv, TypeOK, StoreInv, GoodCursor
<1> QED BY <1>10, <1>11, <1>12, <1>13 DEF IInv

LEMMA CrashKeeps ==
    ASSUME IInv, NEW o \in Observers, Crash(o)
    PROVE  IInv'
<1>1. observer \in [Observers -> Observer] /\ Sound(Off) /\ Off \in Observer
    BY NothingIsGood DEF IInv, TypeOK, Sound
<1>2. /\ observer' = [observer EXCEPT ![o] = Off] /\ faults' \in 0..MaxFaults
      /\ UNCHANGED <<store, fenced, late>>
    BY TimesAreNatural DEF IInv, TypeOK, Crash, Fault
<1>3. observer' \in [Observers -> Observer]
    BY <1>1, <1>2
<1>4. \A p \in Observers : Sound(observer'[p])
    <2> TAKE p \in Observers
    <2>1. CASE p = o
        BY <1>1, <1>2, <2>1
    <2>2. CASE p # o
        <3>1. observer'[p] = observer[p]
            BY <1>1, <1>2, <2>2
        <3> QED BY <3>1 DEF IInv
    <2> QED BY <2>1, <2>2
<1>5. StoreInv'
    BY <1>2, StoreStays DEF IInv
<1>6. TypeOK'
    BY <1>2, <1>3, <1>5 DEF IInv, TypeOK, StoreInv, GoodCursor, fenced
<1> QED BY <1>2, <1>4, <1>5, <1>6 DEF IInv

LEMMA ChangeKeeps ==
    ASSUME IInv, Activate \/ TakeOver \/ MoveBarrier
    PROVE  IInv'
<1>1. /\ faults' \in 0..MaxFaults
      /\ UNCHANGED <<store, owner, observer, late>>
    BY TimesAreNatural DEF IInv, TypeOK, Activate, TakeOver, MoveBarrier, Change, Fault
<1>2. /\ activation' \in [phase : {"ACTIVE", "CHANGING"},
                          definition : Definitions, version : Nat]
      /\ holder' \in 0..MaxSessions
      /\ barrier' \in [open : BOOLEAN, generation : Nat]
    <2>1. CASE Activate
        BY <2>1 DEF IInv, TypeOK, Activate
    <2>2. CASE TakeOver
        BY <2>2, TimesAreNatural DEF IInv, TypeOK, TakeOver
    <2>3. CASE MoveBarrier
        <3>1. barrier \in [open : BOOLEAN, generation : Nat]
            BY DEF IInv, TypeOK
        <3>2. barrier' \in [open : BOOLEAN, generation : Nat]
            <4>1. barrier.generation + 1 \in Nat
                BY <3>1
            <4>2. [barrier EXCEPT !.open = FALSE]
                     \in [open : BOOLEAN, generation : Nat]
                BY <3>1
            <4>3. [open |-> TRUE, generation |-> barrier.generation + 1]
                     \in [open : BOOLEAN, generation : Nat]
                BY <4>1
            <4> QED BY <2>3, <4>2, <4>3, Zenon DEF MoveBarrier
        <3> QED BY <2>3, <3>2 DEF IInv, TypeOK, MoveBarrier
    <2> QED BY <2>1, <2>2, <2>3
<1>3. TypeOK'
    BY <1>1, <1>2 DEF IInv, TypeOK, store
<1> QED BY <1>1, <1>3, SurroundingsKeep

LEMMA NextKeeps ==
    ASSUME IInv, [Next]_vars
    PROVE  IInv'
<1>1. ASSUME NEW o \in Observers, NEW at \in Times, Observe(o, at)
      PROVE  IInv'
    BY <1>1, ObserveKeeps
<1>2. ASSUME NEW o \in Observers, Work(o)
      PROVE  IInv'
    BY <1>2, ReadCursorKeeps, ReadOccurrenceKeeps, ReadBarrierKeeps,
       ReadActivationKeeps, WriteKeeps, FailedKeeps, ReadNextCursorKeeps DEF Work
<1>3. ASSUME NEW o \in Observers, WriteUnanswered(o)
      PROVE  IInv'
    BY <1>3, WriteUnansweredKeeps
<1>4. ASSUME NEW o \in Observers, NEW d \in Definitions, Start(o, d)
      PROVE  IInv'
    BY <1>4, StartKeeps
<1>5. ASSUME NEW o \in Observers, Crash(o)
      PROVE  IInv'
    BY <1>5, CrashKeeps
<1>6. CASE Deliver
    BY <1>6, DeliverKeeps
<1>7. CASE Activate \/ TakeOver \/ MoveBarrier
    BY <1>7, ChangeKeeps
<1>8. CASE UNCHANGED vars
    <2>1. TypeOK'
        BY <1>8 DEF IInv, TypeOK, vars, store, fenced
    <2> QED BY <1>8, <2>1, SurroundingsKeep DEF vars
<1> QED BY <1>1, <1>2, <1>3, <1>4, <1>5, <1>6, <1>7, <1>8 DEF Next

LEMMA InitHolds ==
    ASSUME Init
    PROVE  IInv
<1>1. /\ GoodCursor(cursor) /\ cursor.horizon = 0 /\ Admitted = {}
    BY NothingIsGood DEF Init, NoCursor, Admitted
<1>2. occurrences \in [Minutes -> Occurrence]
    BY DEF Init, Occurrence
<1>3. StoreInv
    BY <1>1, <1>2 DEF StoreInv, EveryDueMinuteIsAccountedOnce, Init
<1>4. \A o \in Observers : Sound(observer[o])
    BY NothingIsGood DEF Init
<1>5. observer \in [Observers -> Observer]
    BY NothingIsGood DEF Init, Sound
<1>6. TypeOK
    BY <1>1, <1>2, <1>5, TimesAreNatural DEF TypeOK, Init, GoodCursor
<1> QED BY <1>3, <1>4, <1>6 DEF IInv, Init

LEMMA Inductive == Spec => []IInv
    BY InitHolds, NextKeeps, PTL DEF Spec

(***************************************************************************)
(* The variables keep their types for every set of residents, definitions    *)
(* and times: a cursor that is stored or carried by a request lies within    *)
(* the minutes of the clock.                                                *)
(***************************************************************************)
THEOREM TypeCorrect == Spec => []TypeOK
<1>1. IInv => TypeOK
    BY DEF IInv
<1> QED BY <1>1, Inductive, PTL

(***************************************************************************)
(* Whatever residents, sessions, clocks and definitions there are, and       *)
(* however long the schedule runs, every due minute that the cursor covers   *)
(* is accounted for by exactly one occurrence (advance,                     *)
(* prepareWorkflowAdmission, observeOnce).                                  *)
(***************************************************************************)
THEOREM DueMinutesCorrect == Spec => []EveryDueMinuteIsAccountedOnce
<1>1. IInv => EveryDueMinuteIsAccountedOnce
    BY DEF IInv, StoreInv
<1> QED BY <1>1, Inductive, PTL
=============================================================================
