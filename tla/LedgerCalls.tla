----------------------------- MODULE LedgerCalls -----------------------------
(***************************************************************************)
(* Three protocols over the tables of one ledger: an operation appends its   *)
(* event (LedgerAppend), a resident closes and reopens admission             *)
(* (QuiescenceBarrier), workers and callers move a workflow run              *)
(* (WorkflowExecution).  The second and the third take from the first what   *)
(* HistorySpec says of a conditional write, and nothing else: they are        *)
(* instances of their modules beside it, over variables of their own.        *)
(***************************************************************************)
EXTENDS LedgerAppend

CONSTANTS
    \* QuiescenceBarrier
    Residents, Admitters, Runs, Contents, None, MaxSafe, MaxMoves,
    \* WorkflowExecution
    Workers, Senders, Deliveries, Commands, Plans, MaxEvents

ASSUME NoneIsNothing ==
    /\ None \notin Contents /\ None \notin Runs
    /\ None \notin Deliveries /\ None \notin Workers
    /\ None \notin {"completed", "failed", "cancelled", "unusable"}
    /\ None \notin [version : Nat, by : Workers]
ASSUME PartiesAreDistinct == Residents \cap Admitters = {}
ASSUME BarrierBounds == MaxSafe \in Nat \ {0} /\ MaxMoves \in Nat \ {0}
ASSUME EventsAreBounded == MaxEvents \in Nat
ASSUME PlansHaveSteps ==
    \A p \in Plans : Len(p) \in Nat \ {0} /\ DOMAIN p = 1..Len(p)
ASSUME CommandsAreNamed ==
    \A k \in Senders : \A c \in Commands[k] :
        /\ c.id # None
        /\ c.op = "deliver" => c.id \in Deliveries
        /\ None \notin [signal : {c.signal},
                        verdict : {"accepted", "early", "late", "unexpected"}]

VARIABLES
    \* QuiescenceBarrier
    coordinator, barrier, requests, runs, underway, phase, token, copy, step,
    unread, first, second, creation, answer, refused, snapshot,
    \* WorkflowExecution
    plan, wf, ready, decisions, holder, driver, command, late, started, begun,
    ended, events
-----------------------------------------------------------------------------
Admission == INSTANCE QuiescenceBarrier WITH
    authority <- coordinator, receipts <- requests, delayed <- underway,
    pc <- phase, seen <- copy, call <- creation, outcome <- answer

Workflow == INSTANCE WorkflowExecution WITH
    Residents <- Workers, Callers <- Senders, call <- command

admission == <<coordinator, barrier, requests, runs, underway, phase, token, copy,
               step, unread, first, second, creation, answer, refused, snapshot>>
workflow == <<plan, wf, ready, decisions, holder, driver, command, late, started,
              begun, ended, events>>
-----------------------------------------------------------------------------
\* The properties of the admission and of the workflow, stated in their modules.
QuiescentHistoryIsComplete == Admission!QuiescentHistoryIsComplete
ReconstructionIsASnapshot == Admission!ReconstructionIsASnapshot
BarrierAnswersHold == Admission!BarrierAnswersHold
StepsRunOnce == Workflow!StepsRunOnce
CommandAnswersAreTrue == Workflow!CommandAnswersAreTrue
ReadyWorkAgrees == Workflow!ReadyWorkAgrees
PlanSpec == Workflow!PlanSpec
WaitsCancel == Workflow!WaitsCancel
=============================================================================
