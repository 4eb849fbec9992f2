--------------------------- MODULE ScheduleControl ---------------------------
(***************************************************************************)
(* The cursor and the occurrences of one schedule and the residents that     *)
(* observe it (src/core/lib/db/tables/schedule-control.js,                   *)
(* src/core/runtime/services/resident-schedule-observer.js, and the          *)
(* scheduled half of createWorkflowRun in execution-ledger.js).              *)
(*                                                                         *)
(* A read and a transaction are one step each; between them other residents *)
(* move, the application is activated, the authority is taken over and the   *)
(* barrier closes.  A transaction may take effect without its response, and *)
(* after its caller gave it up.  The clock of an observation is any time: it *)
(* differs between hosts and may go back.  An occurrence and its workflow    *)
(* run are written by one transaction under one identity, the scheduled      *)
(* minute, and are one value here.  An authority is named by the session it  *)
(* was granted to, and a session that nothing mentions any more may be drawn *)
(* again, which keeps the instance finite.                                  *)
(***************************************************************************)
EXTENDS Integers, FiniteSets, FiniteSetsExt

CONSTANTS
    Observers,      \* resident processes
    Bound,          \* those that hold a coordinator authority
    Definitions,    \* sealed definitions, each of its own revision
    Due,            \* definition -> the minutes its expression matches
    None,
    TicksPerMinute, \* SCHEDULE_MINUTE_MS
    Times,          \* bound: the times of an observation
    MaxScan,        \* SCHEDULE_OCCURRENCE_MAX_SCAN_MINUTES
    MaxSessions,    \* bound: sessions in use at a time
    MaxFaults       \* bound: changes of activation, authority, barrier and
                    \* owner under a resident, crashes and lost responses

ASSUME BoundIsResident == Bound \subseteq Observers
ASSUME NoneIsNothing == None \notin Definitions
ASSUME TimesAreNatural ==
    /\ Times \subseteq Nat /\ \E t \in Times : \A u \in Times : t >= u
    /\ {MaxScan, MaxSessions, MaxFaults} \subseteq Nat
    /\ TicksPerMinute \in Nat \ {0}

LastTick == Max(Times)

Floor(t) == t \div TicksPerMinute

Minutes == 0..Floor(LastTick)

ASSUME DueIsMinutes == Due \in [Definitions -> SUBSET Minutes]

VARIABLES
    cursor,       \* the cursor of the schedule
    occurrences,  \* minute -> the occurrence admitted for it, with its run
    activation,   \* the activation record: phase, selected revision, version
    owner,        \* the session that owns the service
    holder,       \* the session that holds the coordinator authority, or 0
    barrier,      \* the quiescence barrier: open, generation
    observer,     \* each resident
    late,         \* transactions given up by their caller
    faults        \* faults so far

store == <<cursor, occurrences>>
fenced == <<activation, owner, holder, barrier>>
vars == <<store, fenced, observer, late, faults>>
-----------------------------------------------------------------------------
NoCursor == [definition |-> None, boundary |-> 0, horizon |-> 0,
             version |-> 0, updatedAt |-> 0]

Cursor == [definition : Definitions, boundary : Minutes, horizon : Minutes,
           version : Nat \ {0}, updatedAt : 0..LastTick] \cup {NoCursor}

NoOccurrence == [definition |-> None, after |-> 0, through |-> 0,
                 skipped |-> {}]

Occurrence == [definition : Definitions, after : Minutes, through : Minutes,
               skipped : SUBSET Minutes] \cup {NoOccurrence}

NoRequest == [call |-> "none", expected |-> NoCursor, next |-> NoCursor,
              minute |-> 0, skipped |-> {}, barrier |-> 0, activation |-> 0]

Off == [pc |-> "off", session |-> 0, bound |-> FALSE, definition |-> None,
        initialized |-> FALSE, cursor |-> NoCursor, at |-> 0,
        request |-> NoRequest]

Steps == {"off", "poll", "read", "occurrence", "barrier", "activation",
          "write", "failed", "admitted"}

Fresh == {"activate", "advance", "admit"}

Request == [call : Fresh \cup {"none", "keep", "recheck"},
            expected : Cursor, next : Cursor, minute : Minutes,
            skipped : SUBSET Minutes,
            barrier : Nat, activation : Nat]

Observer == [pc : Steps, session : 0..MaxSessions, bound : BOOLEAN,
             definition : Definitions \cup {None}, initialized : BOOLEAN,
             cursor : Cursor, at : 0..LastTick, request : Request]

Init ==
    /\ cursor = NoCursor
    /\ occurrences = [m \in Minutes |-> NoOccurrence]
    /\ activation \in [phase : {"ACTIVE"}, definition : Definitions, version : {1}]
    /\ owner = 0
    /\ holder = 0
    /\ barrier = [open |-> TRUE, generation |-> 0]
    /\ observer = [o \in Observers |-> Off]
    /\ late = {}
    /\ faults = 0

Become(o, state) ==
    /\ observer' = [observer EXCEPT ![o] = state]
    /\ UNCHANGED <<fenced, late, faults>>

\* An error that the observer does not handle ends the resident.
Stop(o) == Become(o, Off) /\ UNCHANGED store

Goto(o, pc) == [observer[o] EXCEPT !.pc = pc]

Fault == faults < MaxFaults /\ faults' = faults + 1
-----------------------------------------------------------------------------
(***************************************************************************)
(* The fences.                                                             *)
(***************************************************************************)
AdmitsRun(definition) ==
    activation.phase = "ACTIVE" /\ activation.definition = definition

HoldsAuthority(session) == session.bound => holder = session.session

\* transactionWrite, and appendTransition of the ledger for an admission.
Holds(session, r) ==
    /\ owner = session.session
    /\ HoldsAuthority(session)
    /\ activation.version = r.activation
    /\ r.call \in Fresh => barrier.open /\ barrier.generation = r.barrier
    /\ cursor = r.expected
    /\ r.call = "admit" => occurrences[r.minute] = NoOccurrence

DueIn(definition, after, through) ==
    Due[definition] \cap (after + 1)..through

OccurrenceOf(r) ==
    [definition |-> r.next.definition,
     after      |-> r.expected.horizon,
     through    |-> r.next.horizon,
     skipped    |-> r.skipped]

Commit(session, r) ==
    /\ cursor' = r.next
    /\ occurrences' = IF r.call = "admit"
                      THEN [occurrences EXCEPT ![r.minute] =
                                                   OccurrenceOf(r)]
                      ELSE occurrences
-----------------------------------------------------------------------------
(***************************************************************************)
(* observe: one poll of the resident.                                      *)
(***************************************************************************)
\* Mutant of Known: the cursor that was known first is kept.
KnownFirst(s, seen) == IF s.initialized THEN s.cursor ELSE seen

Known(s, seen) == seen

\* cacheCursor: a cursor of another definition is an error.
Cached(s, seen) ==
    IF seen.definition = s.definition
    THEN [s EXCEPT !.pc = "poll", !.cursor = Known(s, seen),
                   !.initialized = TRUE, !.at = 0, !.request = NoRequest]
    ELSE Off

\* What the evaluation of a window asks for: the latest due minute is
\* admitted, the others are skipped; without one the cursor is advanced.
Evaluation(s, at, window) ==
    LET next == [s.cursor EXCEPT !.horizon = Floor(at),
                                 !.version = @ + 1, !.updatedAt = at]
        request == [NoRequest EXCEPT !.expected = s.cursor, !.next = next] IN
    IF window = {}
    THEN [s EXCEPT !.pc = "barrier",
                   !.request = [request EXCEPT !.call = "advance"]]
    ELSE [s EXCEPT !.pc = "occurrence",
                   !.request = [request EXCEPT !.call = "admit",
                                               !.minute = Max(window),
                                               !.skipped = window \ {Max(window)}]]

\* Mutant of Evaluated: a long window is evaluated in part.
EvaluatedInPart(s, at) ==
    LET end == Min({Floor(at), s.cursor.horizon + MaxScan}) IN
    IF Floor(at) <= s.cursor.horizon THEN s
    ELSE Evaluation(s, at, DueIn(s.definition, s.cursor.horizon, end))

\* The loop over the schedules, with the cursor the observer knows.
Evaluated(s, at) ==
    IF Floor(at) <= s.cursor.horizon THEN s
    ELSE IF Floor(at) - s.cursor.horizon > MaxScan THEN Off
    ELSE Evaluation(s, at, DueIn(s.definition, s.cursor.horizon, Floor(at)))

\* probeAuthority, the activation on the first poll, then the evaluation.
Observe(o, at) ==
    LET s == observer[o] IN
    /\ s.pc = "poll"
    /\ UNCHANGED store
    /\ IF owner # s.session \/ ~HoldsAuthority(s) THEN Become(o, Off)
       ELSE IF AdmitsRun(s.definition)
            THEN IF s.initialized THEN Become(o, Evaluated(s, at))
                 ELSE Become(o, [Goto(o, "read") EXCEPT !.at = at])
            ELSE IF ~s.initialized /\ activation.definition = s.definition
                 THEN UNCHANGED <<fenced, observer, late, faults>>
                 ELSE Become(o, Off)

\* activate: never earlier than the cursor.
EffectiveTime(o) ==
    IF cursor = NoCursor THEN observer[o].at
    ELSE Max({observer[o].at, cursor.updatedAt})

\* activate: read the cursor; another definition starts at a new boundary.
ReadCursor(o) ==
    LET s == observer[o]
        t == EffectiveTime(o)
        fresh == [definition |-> s.definition, boundary |-> Floor(t),
                  horizon |-> Floor(t), version |-> cursor.version + 1,
                  updatedAt |-> t]
        r == [NoRequest EXCEPT !.expected = cursor] IN
    /\ s.pc = "read"
    /\ UNCHANGED store
    /\ IF cursor.definition = s.definition
       THEN Become(o, [s EXCEPT !.pc = "activation",
                                !.request = [r EXCEPT !.call = "keep",
                                                      !.next = cursor]])
       ELSE Become(o, [s EXCEPT !.pc = "barrier",
                                !.at = 0,
                                !.request = [r EXCEPT !.call = "activate",
                                                      !.next = fresh]])

\* prepareWorkflowAdmission: an equal occurrence is replayed, another refused.
SameOccurrence(o, stored) ==
    stored = OccurrenceOf(observer[o].request)

ReadOccurrence(o) ==
    LET s == observer[o]
        stored == occurrences[s.request.minute] IN
    /\ s.pc = "occurrence"
    /\ UNCHANGED store
    /\ Become(o, IF stored = NoOccurrence THEN Goto(o, "barrier")
                 ELSE IF SameOccurrence(o, stored) THEN Goto(o, "admitted")
                 ELSE Off)

\* prepareCoordinatorAdmission
ReadBarrier(o) ==
    /\ observer[o].pc = "barrier"
    /\ UNCHANGED store
    /\ Become(o, IF barrier.open
                 THEN [Goto(o, "activation")
                           EXCEPT !.request.barrier = barrier.generation]
                 ELSE Off)

\* getLocalApplicationRunCreationFence
ReadActivation(o) ==
    /\ observer[o].pc = "activation"
    /\ UNCHANGED store
    /\ Become(o, IF AdmitsRun(observer[o].definition)
                 THEN [Goto(o, "write")
                           EXCEPT !.request.activation = activation.version]
                 ELSE Off)

\* What follows the response of a transaction.
Answered(s) ==
    IF s.request.call = "admit" THEN [s EXCEPT !.pc = "admitted"]
    ELSE IF s.request.call = "keep"
         THEN Evaluated(Cached(s, s.request.next), s.at)
         ELSE Cached(s, s.request.next)

Write(o) ==
    LET s == observer[o] IN
    /\ s.pc = "write"
    /\ IF Holds(s, s.request)
       THEN Commit(s, s.request) /\ Become(o, Answered(s))
       ELSE Become(o, Goto(o, "failed")) /\ UNCHANGED store

\* The transaction takes effect now, later or never; the caller sees an error.
WriteUnanswered(o) ==
    LET s == observer[o] IN
    /\ s.pc = "write"
    /\ Fault
    /\ observer' = [observer EXCEPT ![o].pc = "failed"]
    /\ \/ /\ Holds(s, s.request)
          /\ Commit(s, s.request)
          /\ UNCHANGED late
       \/ /\ late' = late \cup {<<[session |-> s.session, bound |-> s.bound],
                                  s.request>>}
          /\ UNCHANGED store
       \/ UNCHANGED <<store, late>>
    /\ UNCHANGED fenced

Deliver == \E l \in late :
    /\ late' = late \ {l}
    /\ IF Holds(l[1], l[2]) THEN Commit(l[1], l[2]) ELSE UNCHANGED store
    /\ UNCHANGED <<fenced, observer, faults>>

\* advance, after a failure: another observer covered the window.
Overtaken(r) ==
    /\ cursor.definition = r.expected.definition
    /\ cursor.boundary = r.expected.boundary
    /\ cursor.horizon >= r.next.horizon
    /\ cursor.version > r.expected.version

\* The failed advance, and the check of the fences over the cursor it found.
Failed(o) ==
    LET s == observer[o]
        r == s.request IN
    /\ s.pc = "failed"
    /\ UNCHANGED store
    /\ Become(o,
         IF r.call = "advance" /\ s.bound /\ cursor = r.next
         THEN Cached(s, cursor)
         ELSE IF r.call = "advance" /\ Overtaken(r) /\ HoldsAuthority(s)
         THEN [s EXCEPT !.pc = "activation",
                        !.request = [r EXCEPT !.call = "recheck",
                                              !.expected = cursor,
                                              !.next = cursor]]
         ELSE IF r.call = "admit" /\ SameOccurrence(o, occurrences[r.minute])
         THEN Goto(o, "admitted")
         ELSE Off)

\* getCursor after an admission or its replay.
ReadNextCursor(o) ==
    /\ observer[o].pc = "admitted"
    /\ Become(o, Cached(observer[o], cursor))
    /\ UNCHANGED store
-----------------------------------------------------------------------------
(***************************************************************************)
(* The surroundings: residents, activation, authority and barrier.         *)
(*                                                                         *)
(* A step of Activate, TakeOver or MoveBarrier stands for any sequence of  *)
(* the operations on that record, which LocalApplicationActivation,        *)
(* CoordinatorAuthority and QuiescenceBarrier model one by one; it allows  *)
(* more than they do.  The fences ask only whether a record is as it was   *)
(* read, so a version or a generation need only differ when it is not.     *)
(***************************************************************************)
FreeSessions ==
    (1..MaxSessions) \
        ({owner, holder} \cup {observer[o].session : o \in Observers}
                         \cup {l[1].session : l \in late})

FreeSession == Min(FreeSessions)

\* A resident of a revision that may start its service claims it; a bound one
\* acquires the authority as well, and serves once the barrier is open.  That
\* it supersedes a resident that still runs is one of the bounded faults.
Start(o, definition) ==
    /\ observer[o].pc = "off"
    /\ IF \E p \in Observers \ {o} : observer[p].pc # "off"
       THEN Fault
       ELSE UNCHANGED faults
    /\ activation.definition = definition
    /\ o \in Bound => barrier.open
    /\ FreeSessions # {}
    /\ owner' = FreeSession
    /\ holder' = IF o \in Bound THEN FreeSession ELSE holder
    /\ observer' = [observer EXCEPT ![o] =
                       [Off EXCEPT !.pc = "poll",
                                   !.session = FreeSession,
                                   !.bound = o \in Bound,
                                   !.definition = definition]]
    /\ UNCHANGED <<store, activation, barrier, late>>

Crash(o) ==
    /\ observer[o].pc # "off"
    /\ Fault
    /\ observer' = [observer EXCEPT ![o] = Off]
    /\ UNCHANGED <<store, fenced, late>>

Change ==
    /\ Fault
    /\ UNCHANGED <<store, owner, observer, late>>

\* beginChange to completeActivation: another phase, another selected revision.
Activate == \E p \in {"ACTIVE", "CHANGING"}, d \in Definitions :
    /\ Change
    /\ activation' = [phase |-> p, definition |-> d,
                      version |-> activation.version + 1]
    /\ UNCHANGED <<holder, barrier>>

\* takeover: the session loses the authority to one outside this module.
TakeOver ==
    /\ Change
    /\ holder # 0
    /\ holder' = 0
    /\ UNCHANGED <<activation, barrier>>

\* close, adopt and reopen: every operation advances the version; counting the
\* reopenings tells any two open barriers apart, and only open ones are compared.
MoveBarrier ==
    /\ Change
    /\ barrier' = IF barrier.open THEN [barrier EXCEPT !.open = FALSE]
                  ELSE [open |-> TRUE, generation |-> barrier.generation + 1]
    /\ UNCHANGED <<activation, holder>>

Work(o) ==
    \/ ReadCursor(o) \/ ReadOccurrence(o) \/ ReadBarrier(o)
    \/ ReadActivation(o) \/ Write(o) \/ Failed(o) \/ ReadNextCursor(o)

Next ==
    \/ \E o \in Observers :
          \/ \E at \in Times : Observe(o, at)
          \/ Work(o)
          \/ WriteUnanswered(o)
          \/ \E d \in Definitions : Start(o, d)
          \/ Crash(o)
    \/ Deliver
    \/ Activate \/ TakeOver \/ MoveBarrier

Spec == Init /\ [][Next]_vars

(***************************************************************************)
(* A resident that runs goes on and polls again at a later time, and one is  *)
(* started again by its supervisor.                                         *)
(***************************************************************************)
Fairness == \A o \in Observers :
    /\ WF_vars(Work(o))
    /\ WF_vars(Observe(o, LastTick))
    /\ WF_vars(\E d \in Definitions : Start(o, d))

FairSpec == Spec /\ Fairness
-----------------------------------------------------------------------------
TypeOK ==
    /\ cursor \in Cursor
    /\ occurrences \in [Minutes -> Occurrence]
    /\ activation \in [phase : {"ACTIVE", "CHANGING"},
                       definition : Definitions, version : Nat]
    /\ owner \in 0..MaxSessions
    /\ holder \in 0..MaxSessions
    /\ barrier \in [open : BOOLEAN, generation : Nat]
    /\ observer \in [Observers -> Observer]
    /\ late \subseteq [session : 0..MaxSessions, bound : BOOLEAN] \X Request
    /\ faults \in 0..MaxFaults

Admitted == {m \in Minutes : occurrences[m] # NoOccurrence}

Window(m) == (occurrences[m].after + 1)..occurrences[m].through

(***************************************************************************)
(* Each due minute is accounted for exactly once, whatever sessions, clocks, *)
(* definitions, lost responses and late transactions come between: between   *)
(* the boundary and the horizon of the cursor it is the minute of the one    *)
(* occurrence whose window holds it or one that occurrence skipped; no two   *)
(* windows overlap and none lies beyond the horizon (advance,                *)
(* prepareWorkflowAdmission, observeOnce).                                  *)
(***************************************************************************)
EveryDueMinuteIsAccountedOnce ==
    /\ \A m, n \in Admitted : m # n => Window(m) \cap Window(n) = {}
    /\ \A m \in Admitted : occurrences[m].through <= cursor.horizon
    /\ cursor # NoCursor =>
          \A m \in DueIn(cursor.definition, cursor.boundary, cursor.horizon) :
             \E n \in Admitted :
                /\ occurrences[n].definition = cursor.definition
                /\ m \in {n} \cup {k \in occurrences[n].skipped : k < n}

Settled == activation.phase = "ACTIVE" /\ barrier.open

CaughtUp ==
    /\ cursor.definition = activation.definition
    /\ \/ cursor.horizon = Floor(LastTick)
       \/ Floor(LastTick) - cursor.horizon > MaxScan

(***************************************************************************)
(* When the activation and the barrier come to rest, the schedule of the     *)
(* active revision catches up with the clock, through crashes and lost       *)
(* responses, unless it is further behind than an observer may look          *)
(* (observe, runResidentScheduleObserver).                                  *)
(***************************************************************************)
ScheduleCatchesUp == <>[]Settled => <>[]CaughtUp
=============================================================================
