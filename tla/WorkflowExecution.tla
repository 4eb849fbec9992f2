-------------------------- MODULE WorkflowExecution --------------------------
(***************************************************************************)
(* One durable workflow run and everybody who moves it: the resident        *)
(* workers that find its ready-work row, claim, start, execute and settle    *)
(* its activities and fire its timers (src/core/runtime/services/            *)
(* resident-activity-worker.js, src/core/runtime/workflow-ledger-run.js),    *)
(* and the callers that deliver signals and ask for cancellation, over the   *)
(* workflow operations of src/core/lib/db/tables/execution-ledger.js.        *)
(*                                                                         *)
(* A ledger operation reads the run and writes under a condition on the      *)
(* version it read and on the authority of its process; LedgerAppend shows   *)
(* that such a write is atomic.  Where the operation, after a conflict,      *)
(* starts over from what it reads then, it is one step here.  Where what was *)
(* read decides what is written later, the read and the write are two.       *)
(***************************************************************************)
EXTENDS Integers, Sequences

CONSTANTS
    Residents,   \* processes that may hold the coordinator authority
    Callers,     \* callers of the process that holds it, one command each
    Deliveries,  \* delivery identities of signals
    Commands,    \* caller -> the commands it may send: [op, id, signal]
    Plans,       \* the plans a run may be created with
    None,
    MaxEvents    \* bound: commands, crashes, takeovers, lost responses and stops

VARIABLES
    plan,        \* the plan of the run: a sequence of step kinds
    wf,          \* the run with its cursor, invocation and current attempt
    ready,       \* the ready-work rows of the run
    decisions,   \* the retained decision on each delivery identity
    holder,      \* the process that holds the coordinator authority
    driver,      \* what each process is doing for the run
    call,        \* what each caller was answered, or waits for
    late,        \* a start nobody waits for any more that may still commit
    started,     \* history: how often each step was durably started
    begun,       \* history: how often the code of each step began
    ended,       \* history: how the code of each step was seen to end
    events       \* how many commands and faults there were

run == <<plan, wf, ready, decisions, late, started>>
code == <<begun, ended>>
vars == <<run, holder, driver, call, code, events>>
-----------------------------------------------------------------------------
\* The run as a value.  An operation of the ledger is a function of it; the
\* version it writes is added by Commit.

Steps == DOMAIN plan

\* The disposition of the cursor that enters a step.
Activation(s) ==
    CASE plan[s] = "activity" -> "runnable"
      [] plan[s] = "timer" -> "timer"
      [] OTHER -> "signal"

Entered(w, s) ==
    [w EXCEPT !.step = s, !.at = Activation(s), !.generation = 0, !.attempt = "none"]

\* The step gives its output: the next one is entered, or the run is complete.
Advanced(w) ==
    LET given == [w EXCEPT !.outputs = @ \union {w.step}, !.status = "RUNNING"]
    IN  IF w.step = Len(plan)
        THEN [given EXCEPT !.status = "COMPLETED", !.at = "completed"]
        ELSE Entered(given, w.step + 1)

Claimed(w) ==
    [w EXCEPT !.at = "running", !.generation = @ + 1, !.attempt = "claimed"]

Started(w) == [w EXCEPT !.attempt = "started"]

Released(w) == [w EXCEPT !.at = "runnable", !.attempt = "abandoned"]

Uncertain(w) ==
    [w EXCEPT !.status = "BLOCKED", !.at = "uncertain", !.attempt = "abandoned"]

\* Mutant of Suppressed: only what follows the last step is suppressed.
SuppressedAtEnd(w) == w.request # None /\ w.step = Len(plan)

\* A request that came while the activity ran suppresses its successor.
Suppressed(w) == w.request # None /\ w.step < Len(plan)

Terminated(w, outcome) ==
    LET w2 == [w EXCEPT !.attempt = IF @ = "started" THEN "ended" ELSE @]
    IN  CASE outcome = "completed" /\ ~Suppressed(w) -> Advanced(w2)
          [] outcome = "failed" -> [w2 EXCEPT !.status = "FAILED", !.at = "failed"]
          [] OTHER -> [w2 EXCEPT !.status = "CANCELLED", !.at = "cancelled"]

\* What has not started is cancelled, what has started keeps the request.
Cancelled(w, q) ==
    LET asked == [w EXCEPT !.request = q]
    IN  IF w.at = "runnable" \/ w.attempt = "claimed"
        THEN [asked EXCEPT !.status = "CANCELLED", !.at = "cancelled",
                           !.attempt = IF @ = "claimed" THEN "cancelled" ELSE @]
        ELSE asked

Consumed(w, d) == Advanced([w EXCEPT !.consumed[w.step] = d])

\* The verdict on a signal that has no decision yet.
Verdict(w, s) ==
    LET declared == {i \in Steps : plan[i] = s}
    IN  CASE w.status = "RUNNING" /\ w.at = "signal" /\ plan[w.step] = s -> "accepted"
          [] declared = {} \/ (w.at = "signal" /\ plan[w.step] # s) -> "unexpected"
          [] w.status # "RUNNING" \/ \E i \in declared : i <= w.step -> "late"
          [] OTHER -> "early"

Terminal(w) == w.status \in {"COMPLETED", "FAILED", "CANCELLED"}

\* The row that lists the run for the workers.
Expected(w) ==
    IF w.status # "RUNNING" \/ w.at = "signal" THEN {}
    ELSE {[kind |-> CASE w.at = "runnable" -> "ACTIVITY"
                      [] w.at = "running" -> "RECOVERY"
                      [] OTHER -> "TIMER",
           step |-> w.step, generation |-> w.generation,
           attempt |-> IF w.at = "running" THEN w.attempt ELSE "none",
           version |-> w.version]}

Key(row) == <<row.kind, row.step, row.generation, row.attempt>>

\* A conditional transaction on the run: it replaces the ready-work row of the
\* state it read and fails when that row is not there.
Commit(w) ==
    /\ Expected(wf) \subseteq ready
    /\ wf' = [w EXCEPT !.version = wf.version + 1]
    /\ ready' = (ready \ Expected(wf)) \union Expected(wf')
    /\ late' = None
-----------------------------------------------------------------------------
Off == [pc |-> "off", step |-> 0, generation |-> 0, version |-> 0,
        row |-> None, expected |-> {}, aborted |-> FALSE, outcome |-> None]
Idle == [Off EXCEPT !.pc = "idle"]

Quiet == [pc |-> "idle", op |-> None, id |-> None, signal |-> None, via |-> None,
          version |-> 0, verdict |-> None, port |-> None, answer |-> None]

Answer(c, a) == [c EXCEPT !.pc = "answered", !.answer = a, !.via = None,
                          !.version = 0, !.verdict = None, !.port = None]

NewRun(p) ==
    [status |-> "RUNNING", version |-> 1, request |-> None, step |-> 1,
     at |-> Activation(1), generation |-> 0, attempt |-> "none", outputs |-> {},
     consumed |-> [s \in DOMAIN p |-> None]]

Init ==
    /\ plan \in Plans
    /\ wf = NewRun(plan)
    /\ ready = Expected(wf)
    /\ decisions = [d \in Deliveries |-> None]
    /\ holder = None
    /\ driver = [r \in Residents |-> Off]
    /\ call = [c \in Callers |-> Quiet]
    /\ late = None
    /\ started = [s \in Steps |-> 0]
    /\ begun = [s \in Steps |-> 0]
    /\ ended = [s \in Steps |-> None]
    /\ events = 0

\* What comes from outside: a command, or something that goes wrong.
Event == events < MaxEvents /\ events' = events + 1

At(r, pc) == driver[r].pc = pc
Goto(r, pc) == driver' = [driver EXCEPT ![r].pc = pc]
Rest(r) == driver' = [driver EXCEPT ![r] = Idle]

\* The attempt the process of r claimed is the current one.
Mine(r) ==
    /\ wf.at = "running"
    /\ wf.step = driver[r].step /\ wf.generation = driver[r].generation
-----------------------------------------------------------------------------
\* Processes.

\* A process that starts when nobody holds the authority takes it; what its
\* predecessor left under way is refused from then on.
Boot(r) ==
    /\ At(r, "off") /\ holder = None
    /\ holder' = r /\ late' = None
    /\ Rest(r)
    /\ UNCHANGED <<plan, wf, ready, decisions, started, call, code, events>>

TakeOver(r) ==
    /\ At(r, "off") /\ holder # None
    /\ Event
    /\ holder' = r /\ late' = None
    /\ Rest(r)
    /\ UNCHANGED <<plan, wf, ready, decisions, started, call, code>>

Ends(r) ==
    /\ driver' = [driver EXCEPT ![r] = Off]
    /\ holder' = IF holder = r THEN None ELSE holder
    /\ call' = [c \in Callers |->
            IF call[c].via = r /\ call[c].pc = "write"
            THEN Answer(call[c], "unknown")
            ELSE call[c]]

Crash(r) ==
    /\ ~At(r, "off")
    /\ Event
    /\ Ends(r)
    /\ UNCHANGED <<run, code>>

\* A write of a process that lost the authority is refused and ends its worker.
Fenced(r) ==
    /\ driver[r].pc \in {"repair", "claim", "start", "finish", "settle", "fire"}
    /\ holder # r
    /\ Ends(r)
    /\ UNCHANGED <<run, code, events>>
-----------------------------------------------------------------------------
\* The resident worker: find a row, compare it with the run, act on it.

Scan(r) ==
    /\ At(r, "idle")
    /\ \E row \in ready :
            driver' = [driver EXCEPT ![r].pc = "resolve", ![r].row = row]
    /\ UNCHANGED <<run, holder, call, code, events>>

\* A row that is not the one of the run it reads is repaired, with what was
\* read; the activity of a row that is is claimed, recovered or fired.
Resolve(r) ==
    /\ At(r, "resolve")
    /\ LET row == driver[r].row
           found == [Idle EXCEPT !.step = wf.step, !.generation = wf.generation,
                                 !.version = wf.version]
       IN  driver' = [driver EXCEPT ![r] =
            IF row \notin Expected(wf)
            THEN [found EXCEPT !.pc = "repair", !.row = row, !.expected = Expected(wf)]
            ELSE [found EXCEPT !.pc = CASE row.kind = "ACTIVITY" -> "claim"
                                        [] row.kind = "RECOVERY" -> "settle"
                                        [] OTHER -> "fire"]]
    /\ UNCHANGED <<run, holder, call, code, events>>

\* Mutant of Repair: the version of the run is no condition of its write.
RepairUnconditionally(r) ==
    /\ At(r, "repair") /\ holder = r
    /\ ready' = {row \in ready : \A other \in driver[r].expected \union {driver[r].row} :
                    Key(row) # Key(other)} \union driver[r].expected
    /\ Rest(r)
    /\ UNCHANGED <<plan, wf, decisions, late, started, holder, call, code, events>>

\* The repair is refused when the run has moved since it was read.
Repair(r) ==
    /\ At(r, "repair") /\ holder = r
    /\ ready' = IF wf.version = driver[r].version
                THEN {row \in ready : \A other \in driver[r].expected \union {driver[r].row} :
                            Key(row) # Key(other)} \union driver[r].expected
                ELSE ready
    /\ Rest(r)
    /\ UNCHANGED <<plan, wf, decisions, late, started, holder, call, code, events>>

\* A claim whose response is lost is not executed: recovery will release it.
\* After a conflict the claim is tried again for the same activation.
Claim(r) ==
    /\ At(r, "claim") /\ holder = r
    /\ \/ /\ wf.version = driver[r].version
          /\ Commit(Claimed(wf))
          /\ \/ driver' = [driver EXCEPT ![r].pc = "start", ![r].version = wf'.version,
                                         ![r].generation = wf'.generation]
                /\ UNCHANGED events
             \/ Event /\ Rest(r)
       \/ /\ wf.version # driver[r].version
          /\ \/ /\ wf.at = "runnable"
                /\ wf.step = driver[r].step /\ wf.generation = driver[r].generation
                /\ driver' = [driver EXCEPT ![r].version = wf.version]
             \/ Rest(r)
          /\ UNCHANGED <<wf, ready, late, events>>
    /\ UNCHANGED <<plan, decisions, started, holder, call, code>>

CountStart == started' = [started EXCEPT ![wf.step] = @ + 1]

\* Only the response to the write itself authorizes the dispatch.  A start found
\* durable otherwise, or not confirmed, is settled.
Start(r) ==
    /\ At(r, "start") /\ holder = r
    /\ \/ /\ wf.version = driver[r].version
          /\ Commit(Started(wf)) /\ CountStart
          /\ driver' = [driver EXCEPT ![r].pc = "dispatch", ![r].version = wf'.version]
          /\ UNCHANGED events
       \/ /\ wf.version = driver[r].version
          /\ Event
          /\ late' = [version |-> wf.version, by |-> r]
          /\ \/ UNCHANGED driver
             \/ Goto(r, "settle")
          /\ UNCHANGED <<wf, ready, started>>
       \/ /\ wf.version # driver[r].version
          /\ CASE ~Mine(r) -> Rest(r)
               [] Mine(r) /\ wf.attempt = "started" -> Goto(r, "settle")
               [] OTHER -> \/ driver' = [driver EXCEPT ![r].version = wf.version]
                           \/ Goto(r, "settle")
          /\ UNCHANGED <<wf, ready, late, started, events>>
    /\ UNCHANGED <<plan, decisions, holder, call, code>>

\* The store commits a start after its caller gave up on it.
ArriveLate ==
    /\ late # None /\ late.version = wf.version
    /\ Commit(Started(wf)) /\ CountStart
    /\ UNCHANGED <<plan, decisions, holder, driver, call, code, events>>

\* A shutdown asks before the start is written and before the code is run.
StopBefore(r) ==
    /\ driver[r].pc \in {"start", "dispatch"}
    /\ Event
    /\ Goto(r, "settle")
    /\ UNCHANGED <<run, holder, call, code>>

Dispatch(r) ==
    /\ At(r, "dispatch")
    /\ Goto(r, "execute")
    /\ begun' = [begun EXCEPT ![driver[r].step] = @ + 1]
    /\ UNCHANGED <<run, holder, call, ended, events>>

\* The code ends: cancelled only when it was told to stop, "unusable" when what
\* it returned is no supported terminal.  Requests that came through the port of
\* the attempt are settled first.
EndExecution(r) ==
    /\ At(r, "execute")
    /\ \A c \in Callers : ~(call[c].pc = "write" /\ call[c].via = r /\ call[c].port # None)
    /\ \E outcome \in {"completed", "failed", "cancelled", "unusable"} :
        /\ outcome = "cancelled" => driver[r].aborted
        /\ driver' = [driver EXCEPT
                ![r].pc = IF outcome = "unusable" THEN "settle" ELSE "finish",
                ![r].outcome = outcome]
        /\ ended' = [ended EXCEPT ![driver[r].step] = outcome]
    /\ UNCHANGED <<run, holder, call, begun, events>>

\* The terminal is rebased on a run that moved while its attempt is the same,
\* and settled as uncertain after three attempts on one version.
Finish(r) ==
    /\ At(r, "finish") /\ holder = r
    /\ \/ /\ wf.version = driver[r].version
          /\ \/ Commit(Terminated(wf, driver[r].outcome)) /\ Rest(r) /\ UNCHANGED events
             \/ Event /\ Goto(r, "settle") /\ UNCHANGED <<wf, ready, late>>
       \/ /\ wf.version # driver[r].version
          /\ IF Mine(r) /\ wf.attempt = "started"
             THEN driver' = [driver EXCEPT ![r].version = wf.version]
             ELSE Rest(r)
          /\ UNCHANGED <<wf, ready, late, events>>
    /\ UNCHANGED <<plan, decisions, started, holder, call, code>>

\* Mutant of Settle: what may have started is released too.
SettleReleasing(r) ==
    /\ At(r, "settle") /\ holder = r
    /\ IF Mine(r) /\ wf.attempt \in {"claimed", "started"}
       THEN Commit(Released(wf))
       ELSE UNCHANGED <<wf, ready, late>>
    /\ Rest(r)
    /\ UNCHANGED <<plan, decisions, started, holder, call, code, events>>

\* A claim that did not start is released, a start whose outcome is not known
\* blocks the run.
Settle(r) ==
    /\ At(r, "settle") /\ holder = r
    /\ IF Mine(r) /\ wf.attempt \in {"claimed", "started"}
       THEN Commit(IF wf.attempt = "claimed" THEN Released(wf) ELSE Uncertain(wf))
       ELSE UNCHANGED <<wf, ready, late>>
    /\ Rest(r)
    /\ UNCHANGED <<plan, decisions, started, holder, call, code, events>>

Fire(r) ==
    /\ At(r, "fire") /\ holder = r
    /\ IF wf.at = "timer" /\ wf.step = driver[r].step /\ wf.status = "RUNNING"
       THEN Commit(Advanced(wf))
       ELSE UNCHANGED <<wf, ready, late>>
    /\ Rest(r)
    /\ UNCHANGED <<plan, decisions, started, holder, call, code, events>>
-----------------------------------------------------------------------------
\* Commands, served by the process that holds the authority.

\* A signal delivery reads its identity, and the run when there is none.
Considered(c) ==
    IF decisions[c.id] # None
    THEN Answer(c, IF decisions[c.id].signal = c.signal
                   THEN decisions[c.id].verdict ELSE "conflict")
    ELSE [c EXCEPT !.pc = "write", !.version = wf.version,
                   !.verdict = Verdict(wf, c.signal)]

Ask(command) ==
    [Quiet EXCEPT !.op = command.op, !.id = command.id, !.signal = command.signal,
                  !.via = holder]

DeliverSignal(k) ==
    /\ call[k].pc = "idle" /\ holder # None
    /\ Event
    /\ \E command \in Commands[k] :
        /\ command.op = "deliver"
        /\ call' = [call EXCEPT ![k] = Considered(Ask(command))]
    /\ UNCHANGED <<run, holder, driver, code>>

\* Mutant of WriteDecision: the verdict on an earlier version is written.
WriteOldDecision(k) ==
    LET c == call[k] IN
    /\ c.pc = "write" /\ c.op = "deliver" /\ holder = c.via
    /\ IF decisions[c.id] = None
       THEN /\ Commit(IF c.verdict = "accepted" THEN Consumed(wf, c.id) ELSE wf)
            /\ decisions' = [decisions EXCEPT ![c.id] =
                  [signal |-> c.signal, verdict |-> c.verdict]]
            /\ call' = [call EXCEPT ![k] = Answer(c, c.verdict)]
       ELSE /\ call' = [call EXCEPT ![k] = Considered(c)]
            /\ UNCHANGED <<wf, ready, late, decisions>>
    /\ UNCHANGED <<plan, started, holder, driver, code, events>>

WriteDecision(k) ==
    LET c == call[k] IN
    /\ c.pc = "write" /\ c.op = "deliver" /\ holder = c.via
    /\ \/ /\ wf.version = c.version /\ decisions[c.id] = None
          /\ Commit(IF c.verdict = "accepted" THEN Consumed(wf, c.id) ELSE wf)
          /\ decisions' = [decisions EXCEPT ![c.id] =
                [signal |-> c.signal, verdict |-> c.verdict]]
          /\ \/ call' = [call EXCEPT ![k] = Answer(c, c.verdict)] /\ UNCHANGED events
             \/ Event /\ call' = [call EXCEPT ![k] = Answer(c, "unknown")]
       \/ /\ wf.version # c.version
          /\ \/ call' = [call EXCEPT ![k] = Considered(c)]
             \/ call' = [call EXCEPT ![k] = Answer(c, "unknown")]
          /\ UNCHANGED <<wf, ready, late, decisions, events>>
    /\ UNCHANGED <<plan, started, holder, driver, code>>

\* The port through which a running attempt takes its cancellation.
Port(r) ==
    IF driver[r].pc \in {"execute", "finish"} \/ driver[r].outcome # None
    THEN <<driver[r].step, driver[r].generation>> ELSE None

Running(w) == w.status = "RUNNING" /\ w.at = "running" /\ w.attempt = "started"

\* A request for cancellation reads the run.
Examined(c) ==
    CASE wf.request # None -> Answer(c, "requested")
      [] wf.request = None /\ Terminal(wf) -> Answer(c, "terminal")
      [] Running(wf) /\ c.port # <<wf.step, wf.generation>> -> Answer(c, "not-ready")
      [] OTHER -> [c EXCEPT !.pc = "write", !.version = wf.version]

RequestCancellation(k) ==
    /\ call[k].pc = "idle" /\ holder # None
    /\ Event
    /\ \E command \in Commands[k] :
        /\ command.op = "cancel"
        /\ call' = [call EXCEPT ![k] = Examined([Ask(command) EXCEPT
                !.port = IF Running(wf) THEN Port(holder) ELSE None])]
    /\ UNCHANGED <<run, holder, driver, code>>

\* The write names an invocation. A run that waits has none, and the ledger
\* refuses the request as malformed. What is retained is told to the attempt
\* through its port, unless the response was lost.
WriteCancellation(k) ==
    LET c == call[k] IN
    /\ c.pc = "write" /\ c.op = "cancel" /\ holder = c.via
    /\ \/ /\ wf.version = c.version
          /\ wf.at \notin {"timer", "signal"}
          /\ Commit(Cancelled(wf, c.id))
          /\ \/ /\ driver' = [driver EXCEPT ![c.via].aborted =
                    (Running(wf) /\ At(c.via, "execute")) \/ @]
                /\ UNCHANGED events
             \/ Event /\ UNCHANGED driver
          /\ call' = [call EXCEPT ![k] = Answer(c, "requested")]
       \/ /\ wf.version = c.version
          /\ wf.at \in {"timer", "signal"}
          /\ call' = [call EXCEPT ![k] = Answer(c, "invalid")]
          /\ UNCHANGED <<wf, ready, late, driver, events>>
       \/ /\ wf.version # c.version
          /\ \/ call' = [call EXCEPT ![k] = Examined(c)]
             \/ call' = [call EXCEPT ![k] = Answer(c, "unknown")]
          /\ UNCHANGED <<wf, ready, late, driver, events>>
    /\ UNCHANGED <<plan, decisions, started, holder, code>>

\* An answer from a process that lost the authority is an error.
Refuse(k) ==
    /\ call[k].pc = "write" /\ holder # call[k].via
    /\ call' = [call EXCEPT ![k] = Answer(call[k], "unknown")]
    /\ UNCHANGED <<run, holder, driver, code, events>>

\* An operator brings the evidence of how the code of a blocked attempt ended;
\* that of a code whose end no process saw is found outside.
Reconcile ==
    /\ holder # None
    /\ wf.status = "BLOCKED" /\ wf.at = "uncertain"
    /\ \E outcome \in {"completed", "failed", "cancelled"} :
        /\ begun[wf.step] > 0
        /\ \A r \in Residents : At(r, "execute") => driver[r].step # wf.step
        /\ ended[wf.step] = outcome \/ (ended[wf.step] = None /\ outcome # "cancelled")
        /\ Commit(Terminated(wf, outcome))
    /\ UNCHANGED <<plan, decisions, started, holder, driver, call, code, events>>
-----------------------------------------------------------------------------
Next ==
    \/ \E r \in Residents :
        \/ Boot(r) \/ TakeOver(r) \/ Crash(r) \/ Fenced(r)
        \/ Scan(r) \/ Resolve(r) \/ Repair(r) \/ Claim(r) \/ Start(r) \/ StopBefore(r)
        \/ Dispatch(r) \/ EndExecution(r) \/ Finish(r) \/ Settle(r) \/ Fire(r)
    \/ \E k \in Callers :
        \/ DeliverSignal(k) \/ RequestCancellation(k)
        \/ WriteDecision(k) \/ WriteCancellation(k) \/ Refuse(k)
    \/ ArriveLate
    \/ Reconcile

Spec == Init /\ [][Next]_vars
-----------------------------------------------------------------------------
\* Restarts, takeovers, lost starts and releases notwithstanding, the code of an
\* activity begins at most once, never without a durable start, and a step has
\* an output only if its code began, or it is a wait that was met.
StepsRunOnce ==
    \A s \in Steps :
        /\ begun[s] <= started[s] /\ started[s] <= 1
        /\ s \in wf.outputs =>
            IF plan[s] = "activity" THEN begun[s] = 1 /\ ended[s] \in {None, "completed"}
            ELSE plan[s] = "timer" \/ wf.consumed[s] # None

\* What a caller was told is so: the verdict on a delivery is the retained one,
\* every accepted delivery met exactly the wait for its signal and every wait was
\* met by one, a request said to be retained is, and a run said to have ended has.
CommandAnswersAreTrue ==
    /\ \A k \in Callers :
        LET c == call[k] IN
        c.pc = "answered" =>
            CASE c.answer \in {"accepted", "early", "late", "unexpected"} ->
                    decisions[c.id] = [signal |-> c.signal, verdict |-> c.answer]
              [] c.answer = "conflict" -> decisions[c.id].signal # c.signal
              [] c.answer = "requested" -> wf.request # None
              [] c.answer = "terminal" -> wf.request = None /\ Terminal(wf)
              [] OTHER -> TRUE
    /\ \A d \in Deliveries :
        LET met == {s \in Steps : wf.consumed[s] = d} IN
        IF decisions[d] # None /\ decisions[d].verdict = "accepted"
        THEN \E s \in Steps : met = {s} ELSE met = {}
    /\ \A s \in Steps : wf.consumed[s] # None =>
            s \in wf.outputs /\ decisions[wf.consumed[s]].signal = plan[s]

\* The ready-work index lists the run exactly when a worker has something to do
\* for it, under its present version, whatever repairs raced its transitions.
ReadyWorkAgrees == ready = Expected(wf)

\* The run gives the outputs of its plan in order and stops when asked.
Promise == INSTANCE LinearPlan WITH
    outputs <- wf.outputs, status <- wf.status, stopping <- wf.request # None
PlanSpec == Promise!Spec

\* ADR 0019: "Runnable activities, timer waits, and signal waits cancel without
\* authored dispatch."
WaitsCancel == \A k \in Callers : call[k].answer # "invalid"
=============================================================================
