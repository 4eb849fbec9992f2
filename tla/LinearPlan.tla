----------------------------- MODULE LinearPlan -----------------------------
(***************************************************************************)
(* What a durable workflow promises of its plan, with no host, driver,     *)
(* ready-work row or version in it: the steps of the plan give their       *)
(* outputs in order, an activity starts at most once whatever restarts,    *)
(* and once the run is asked to stop no further step is entered.           *)
(***************************************************************************)
EXTENDS Integers, Sequences

CONSTANT Plans      \* the finite plans: sequences of step kinds

VARIABLES
    plan,           \* the plan the run was created with
    outputs,        \* the steps whose output is retained
    started,        \* how often each step was durably started
    status,         \* RUNNING, BLOCKED, COMPLETED, FAILED or CANCELLED
    stopping        \* whether a cancellation request is retained

vars == <<plan, outputs, started, status, stopping>>

\* The first step that has not given its output.
Step == CHOOSE s \in DOMAIN plan : s \notin outputs /\ \A t \in 1..(s - 1) : t \in outputs

Live == status \in {"RUNNING", "BLOCKED"}

Begun == plan[Step] = "activity" /\ started[Step] = 1

Init ==
    /\ plan \in Plans
    /\ outputs = {}
    /\ started = [s \in DOMAIN plan |-> 0]
    /\ status = "RUNNING"
    /\ stopping = FALSE

Start ==
    /\ status = "RUNNING" /\ ~stopping
    /\ plan[Step] = "activity" /\ started[Step] = 0
    /\ started' = [started EXCEPT ![Step] = 1]
    /\ UNCHANGED <<plan, outputs, status, stopping>>

\* A step gives its output. An activity must have started, a blocked run has an
\* activity that did, and a stopping run may only complete its last step.
Give ==
    /\ Live
    /\ (plan[Step] = "activity" \/ status = "BLOCKED") => Begun
    /\ stopping => Step = Len(plan)
    /\ outputs' = outputs \union {Step}
    /\ status' = IF Step = Len(plan) THEN "COMPLETED" ELSE "RUNNING"
    /\ UNCHANGED <<plan, started, stopping>>

Block ==
    /\ status = "RUNNING" /\ Begun
    /\ status' = "BLOCKED"
    /\ UNCHANGED <<plan, outputs, started, stopping>>

Fail ==
    /\ Live /\ Begun
    /\ status' = "FAILED"
    /\ UNCHANGED <<plan, outputs, started, stopping>>

\* A step that has not started never will; one that has keeps its run until its
\* outcome is known.
Stop ==
    /\ Live /\ ~stopping
    /\ stopping' = TRUE
    /\ status' = IF Begun THEN status ELSE "CANCELLED"
    /\ UNCHANGED <<plan, outputs, started>>

Abandon ==
    /\ Live /\ stopping /\ Begun
    /\ status' = "CANCELLED"
    /\ UNCHANGED <<plan, outputs, started, stopping>>

Next == Start \/ Give \/ Block \/ Fail \/ Stop \/ Abandon

Spec == Init /\ [][Next]_vars
=============================================================================
