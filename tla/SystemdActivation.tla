-------------------------- MODULE SystemdActivation --------------------------
(***************************************************************************)
(* Installing, updating and rolling back an application under systemd        *)
(* (src/core/runtime/services/local-application-systemd-activation.js): one  *)
(* command at a time, under the operation lock, drives the activation record *)
(* through its phases while runs are created and finished, the service is    *)
(* started and stopped by systemd or by an operator, and the command dies    *)
(* between any two steps and is repeated.                                   *)
(*                                                                         *)
(* The host driver (stopService, selectRelease and activateRelease of        *)
(* services/systemd-user-service-manager.js) is modelled by its effect on     *)
(* the selected and the running release, or its failure.  The lock makes the  *)
(* command the only writer of the record.                                   *)
(***************************************************************************)
EXTENDS LocalApplicationActivation, FiniteSets

CONSTANTS
    Runs,       \* durable runs of the application
    LastBegin,  \* bound: the last record version at which a command begins
    MaxCrashes  \* bound: commands that die

ASSUME BoundsAreNatural == LastBegin \in Nat /\ MaxCrashes \in Nat

VARIABLES
    wired,     \* the release the current selector of the unit names
    running,   \* the release whose service is running, or None
    runs,      \* run -> its release and whether it ended
    fences,    \* run -> the record its creator read
    step,      \* where the command is, "idle" while there is none
    unread,    \* runs the inspection has yet to list
    blocked,   \* whether the inspection met a blocker
    crashes    \* number of commands that died

host == <<wired, running>>
work == <<runs, fences>>
command == <<step, unread, blocked>>
vars == <<activationVars, host, work, command, crashes>>
-----------------------------------------------------------------------------
Steps == {"idle", "converge", "before", "stop", "stopped", "after", "quiesce",
          "retain", "abort", "select", "complete", "restore"}

NoRun == [release |-> None, ended |-> FALSE]

Run == [release : Releases \cup {None}, ended : BOOLEAN]

NoFence == [release |-> None, record |-> NoRecord]

InitAll ==
    /\ Init
    /\ wired = None
    /\ running = None
    /\ runs \in [Runs -> {NoRun} \cup [release : Releases, ended : {FALSE}]]
    /\ fences = [i \in Runs |-> NoFence]
    /\ step = "idle"
    /\ unread = {}
    /\ blocked = FALSE
    /\ crashes = 0

Goto(s) == step' = s /\ UNCHANGED <<unread, blocked>>

Source == record.transition.source

FirstInstall == Source = None

RestoresSource == record.desired = Source

\* The runs to list are read one page after another.
Inspect(s) == step' = s /\ unread' = Runs /\ blocked' = FALSE
-----------------------------------------------------------------------------
(***************************************************************************)
(* Commands: install, update, rollback, recover.                           *)
(***************************************************************************)
MayBegin == step = "idle" /\ record.version <= LastBegin

\* install: a first install, or the replacement of one that is in flight.
Install(t) ==
    /\ MayBegin
    /\ BeginInstall(t) \/ ReplaceInstall(t)
    /\ Goto("converge")
    /\ UNCHANGED <<host, work, crashes>>

Update(t) ==
    /\ MayBegin
    /\ BeginChange("update", t)
    /\ Goto("converge")
    /\ UNCHANGED <<host, work, crashes>>

Rollback ==
    /\ MayBegin
    /\ record.rollback # None
    /\ BeginChange("rollback", record.rollback)
    /\ Goto("converge")
    /\ UNCHANGED <<host, work, crashes>>

\* recover, and the other commands when they meet their own transition.
Recover ==
    /\ step = "idle"
    /\ record.phase \in InFlight
    /\ Goto("converge")
    /\ UNCHANGED <<activationVars, host, work, crashes>>

\* The process dies, a driver call throws, or the response of a write is lost.
Die ==
    /\ step # "idle"
    /\ crashes < MaxCrashes
    /\ step' = "idle"
    /\ unread' = {}
    /\ blocked' = FALSE
    /\ crashes' = crashes + 1
    /\ UNCHANGED <<activationVars, host, work>>
-----------------------------------------------------------------------------
(***************************************************************************)
(* converge: one turn of the loop, by the phase of the record.             *)
(***************************************************************************)
Converge ==
    /\ step = "converge"
    /\ \/ /\ record.phase = "QUIESCING" /\ ~RestoresSource /\ ~FirstInstall
          /\ IF wired = Source THEN Inspect("before") ELSE Goto("idle")
       \/ /\ record.phase = "QUIESCING" /\ (RestoresSource \/ FirstInstall)
          /\ Goto("stop")
       \/ record.phase \in {"QUIESCENT", "SELECTED"} /\ Goto("stop")
       \/ record.phase = "ACTIVATING" /\ wired = record.selected /\ Goto("stopped")
       \/ record.phase = "ACTIVE" /\ Goto("idle")
    /\ UNCHANGED <<activationVars, host, work, crashes>>

\* A blocker is a nonterminal run, except one of the revision that a first
\* install makes current.
Blocks(i) ==
    /\ runs[i] # NoRun
    /\ ~runs[i].ended
    /\ ~(step = "after" /\ FirstInstall /\ runs[i].release = record.desired)

\* inspectLocalApplicationQuiescence
ListRun == \E i \in unread :
    /\ step \in {"before", "after"}
    /\ unread' = unread \ {i}
    /\ blocked' = (blocked \/ Blocks(i))
    /\ UNCHANGED <<activationVars, host, work, step, crashes>>

Inspected ==
    /\ step \in {"before", "after"}
    /\ unread = {}
    /\ step' = IF blocked THEN "retain"
               ELSE IF step = "before" THEN "stop" ELSE "quiesce"
    /\ blocked' = FALSE
    /\ UNCHANGED <<activationVars, host, work, unread, crashes>>

\* stopService and proveServiceInactive
Stop ==
    /\ step = "stop"
    /\ running' = None
    /\ Goto("stopped")
    /\ UNCHANGED <<activationVars, wired, work, crashes>>

\* Mutant of InspectAfterStop: the inspection before the stop is enough.
InspectOnlyBeforeStop ==
    /\ step = "stopped"
    /\ record.phase = "QUIESCING"
    /\ Goto("quiesce")
    /\ UNCHANGED <<activationVars, host, work, crashes>>

\* The directory is read again with the service inactive.
InspectAfterStop ==
    /\ step = "stopped"
    /\ record.phase = "QUIESCING"
    /\ IF RestoresSource THEN Goto("quiesce") ELSE Inspect("after")
    /\ UNCHANGED <<activationVars, host, work, crashes>>

Quiesce ==
    /\ step = "quiesce"
    /\ MarkQuiescent
    /\ Goto("converge")
    /\ UNCHANGED <<host, work, crashes>>

\* selectRelease replaces the selector of the unit, then markSelected.
Wire ==
    /\ step = "stopped"
    /\ record.phase = "QUIESCENT"
    /\ wired' = record.desired
    /\ Goto("select")
    /\ UNCHANGED <<activationVars, running, work, crashes>>

Select ==
    /\ step = "select"
    /\ MarkSelected
    /\ Goto("converge")
    /\ UNCHANGED <<host, work, crashes>>

Activating ==
    /\ step = "stopped"
    /\ record.phase = "SELECTED"
    /\ wired = record.selected
    /\ MarkActivating
    /\ Goto("converge")
    /\ UNCHANGED <<host, work, crashes>>

\* activateRelease starts the service of the wired release.
Healthy ==
    /\ step = "stopped"
    /\ record.phase = "ACTIVATING"
    /\ running' = record.desired
    /\ Goto("complete")
    /\ UNCHANGED <<activationVars, wired, work, crashes>>

\* completeActivation; a generation that proves nothing ends the command.
Complete ==
    /\ step = "complete"
    /\ \/ CompleteActivation /\ Goto("converge")
       \/ ~Proved /\ Goto("idle") /\ UNCHANGED activationVars
    /\ UNCHANGED <<host, work, crashes>>

\* A failed target is given up for its source; otherwise the command ends.
Unhealthy ==
    /\ step = "stopped"
    /\ record.phase = "ACTIVATING"
    /\ Goto(IF FirstInstall \/ RestoresSource THEN "idle" ELSE "restore")
    /\ UNCHANGED <<activationVars, host, work, crashes>>

Restore ==
    /\ step = "restore"
    /\ BeginSourceRestore
    /\ Goto("converge")
    /\ UNCHANGED <<host, work, crashes>>

\* retainSource: durable work refuses the change; an install stays pending.
RetainPending ==
    /\ step = "retain"
    /\ FirstInstall \/ wired # Source
    /\ Goto("idle")
    /\ UNCHANGED <<activationVars, host, work, crashes>>

\* Mutant of RetainHealthy: the retained source is started, the change stays open.
RetainWithoutAbort ==
    /\ step = "retain"
    /\ ~FirstInstall /\ wired = Source
    /\ running' = Source
    /\ Goto("idle")
    /\ UNCHANGED <<activationVars, wired, work, crashes>>

RetainHealthy ==
    /\ step = "retain"
    /\ ~FirstInstall /\ wired = Source
    /\ running' = Source
    /\ Goto("abort")
    /\ UNCHANGED <<activationVars, wired, work, crashes>>

RetainUnhealthy ==
    /\ step = "retain"
    /\ ~FirstInstall /\ wired = Source
    /\ Goto("idle")
    /\ UNCHANGED <<activationVars, host, work, crashes>>

Abort ==
    /\ step = "abort"
    /\ AbortChange
    /\ Goto("idle")
    /\ UNCHANGED <<host, work, crashes>>
-----------------------------------------------------------------------------
(***************************************************************************)
(* The service and the runs.                                               *)
(***************************************************************************)
\* Mutant of MayStart: a quiescent application starts its selected release.
MayStartUnlessQuiescing(release) ==
    record.phase # "QUIESCING" /\ record.selected = release

\* The session claim of a starting service carries the start fence.
MayStart(release) == AdmitsService(record, release)

\* systemd starts the unit at boot, after a failure or for an operator.
ServiceStarts ==
    /\ running = None
    /\ wired # None
    /\ MayStart(wired)
    /\ running' = wired
    /\ UNCHANGED <<activationVars, wired, work, command, crashes>>

ServiceStops ==
    /\ running # None
    /\ running' = None
    /\ UNCHANGED <<activationVars, wired, work, command, crashes>>

\* The creator of a run reads the record and is admitted by it.
AdmitRun(i, release) ==
    /\ runs[i] = NoRun
    /\ fences[i] = NoFence
    /\ AdmitsRun(record, release)
    /\ fences' = [fences EXCEPT ![i] = [release |-> release, record |-> record]]
    /\ UNCHANGED <<activationVars, host, runs, command, crashes>>

\* createAdmissionFence compares every field it lists, the version included.
FenceHolds(i) == record = fences[i].record

\* The transaction that creates the run, or its failure.
CreateRun(i) ==
    /\ fences[i] # NoFence
    /\ fences' = [fences EXCEPT ![i] = NoFence]
    /\ \/ /\ FenceHolds(i)
          /\ runs' = [runs EXCEPT ![i] = [release |-> fences[i].release,
                                          ended   |-> FALSE]]
       \/ UNCHANGED runs
    /\ UNCHANGED <<activationVars, host, command, crashes>>

\* The run ends, in the service or by an operator.
EndRun(i) ==
    /\ runs[i] # NoRun
    /\ ~runs[i].ended
    /\ runs' = [runs EXCEPT ![i].ended = TRUE]
    /\ UNCHANGED <<activationVars, host, fences, command, crashes>>

Drive ==
    \/ Converge \/ ListRun \/ Inspected \/ Stop \/ InspectAfterStop \/ Quiesce
    \/ Wire \/ Select \/ Activating \/ Healthy \/ Complete \/ Unhealthy
    \/ Restore \/ RetainPending \/ RetainHealthy \/ RetainUnhealthy \/ Abort

Environment ==
    \/ ServiceStarts \/ ServiceStops
    \/ \E i \in Runs :
          \/ \E t \in Releases : AdmitRun(i, t)
          \/ CreateRun(i)
          \/ EndRun(i)

NextAll ==
    \/ \E t \in Releases : Install(t) \/ Update(t)
    \/ Rollback \/ Recover \/ Die
    \/ Drive
    \/ Environment

SpecAll == InitAll /\ [][NextAll]_vars

(***************************************************************************)
(* A command that runs goes on, an interrupted one is repeated, and a        *)
(* release that is started again and again is healthy in the end.            *)
(***************************************************************************)
Fairness ==
    /\ WF_vars(Drive)
    /\ WF_vars(Recover)
    /\ SF_vars(Healthy)
    /\ SF_vars(RetainHealthy)

FairSpec == SpecAll /\ Fairness
-----------------------------------------------------------------------------
Nonterminal == {i \in Runs : runs[i] # NoRun /\ ~runs[i].ended}

(***************************************************************************)
(* A release is exchanged only over work that has ended: from quiescence on  *)
(* no nonterminal run is left behind, except runs of the revision a first    *)
(* install makes current, and while a release is active every nonterminal    *)
(* run is one of its revision, whatever creations were under way (converge,  *)
(* getLocalApplicationRunCreationFence).                                    *)
(***************************************************************************)
NoRunIsLeftBehind ==
    LET releases == {runs[i].release : i \in Nonterminal} IN
    /\ record.phase = "ACTIVE" => releases \subseteq {record.selected}
    /\ record.phase \in {"QUIESCENT", "SELECTED", "ACTIVATING"} =>
          IF FirstInstall THEN releases \subseteq {record.desired}
          ELSE releases = {}

(***************************************************************************)
(* The service that runs is the one of the selected release, none runs       *)
(* between the selection and the activation of a release, and from the       *)
(* selection on the unit is wired to the release the record selects, through *)
(* every restart of the command or of the service                           *)
(* (getLocalApplicationServiceStartFence, selectRelease, markSelected).      *)
(***************************************************************************)
ServiceFollowsSelection ==
    /\ running # None => running = record.selected
    /\ record.phase = "SELECTED" => running = None
    /\ record.phase \in {"SELECTED", "ACTIVATING", "ACTIVE"} =>
          wired = record.selected

InFlightChange ==
    record.phase \in InFlight /\ record.transition.action \in Changes

(***************************************************************************)
(* recover resumes the durable transition: a change that was begun comes to  *)
(* rest with one release active, the target, the restored source or the      *)
(* retained source.                                                         *)
(***************************************************************************)
ChangesSettle == InFlightChange ~> (record.phase = "ACTIVE")

(***************************************************************************)
(* A failed install can be retried and reconciled from the durable           *)
(* activation state (docs/architecture/decisions/0020).                      *)
(***************************************************************************)
InstallsSettle ==
    (record.phase \in InFlight /\ record.transition.action = "install")
        ~> (record.phase = "ACTIVE")
=============================================================================
