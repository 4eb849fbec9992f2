--------------------- MODULE LocalApplicationActivation ---------------------
(***************************************************************************)
(* The durable record by which a host installs, updates and rolls back one   *)
(* application (src/core/lib/db/tables/local-application-activation.js).     *)
(*                                                                         *)
(* An operation reads the record and writes its successor on the condition   *)
(* that every field is still what it read, the version included, so it is    *)
(* one step here.  A call that finds its own effect in place, or that is     *)
(* refused, changes nothing and is a stuttering step.                       *)
(***************************************************************************)
EXTENDS Naturals

CONSTANTS
    Releases,  \* immutable releases: an artifact and its revision
    None,      \* no release
    MaxSafe    \* Number.MAX_SAFE_INTEGER: the last record version

ASSUME NoneIsNoRelease == None \notin Releases
ASSUME SafeIsPositive == MaxSafe \in Nat \ {0}

VARIABLES
    record,    \* the activation record
    succeeded  \* history: releases whose activation was ever completed

activationVars == <<record, succeeded>>
-----------------------------------------------------------------------------
InFlight == {"QUIESCING", "QUIESCENT", "SELECTED", "ACTIVATING"}

BeforeSelection == {"QUIESCING", "QUIESCENT"}

Changes == {"update", "rollback"}

\* createLocalApplicationActivationTransitionId hashes these fields.
Transition == [action     : Changes \cup {"install"},
               source     : Releases \cup {None},
               target     : Releases,
               version    : 0..MaxSafe,
               generation : 0..MaxSafe]

NoTransition == [action |-> "none", source |-> None, target |-> None,
                 version |-> 0, generation |-> 0]

NoSettlement == [transition |-> NoTransition, outcome |-> "none"]

Outcomes == {"TARGET_ACTIVE", "SOURCE_RESTORED", "SOURCE_RETAINED"}

Record == [phase      : InFlight \cup {"ABSENT", "ACTIVE"},
           version    : 0..MaxSafe,
           generation : 0..MaxSafe,
           selected   : Releases \cup {None},
           desired    : Releases \cup {None},
           rollback   : Releases \cup {None},
           transition : Transition \cup {NoTransition},
           last       : [transition : Transition, outcome : Outcomes]
                            \cup {NoSettlement}]

NoRecord == [phase |-> "ABSENT", version |-> 0, generation |-> 0,
             selected |-> None, desired |-> None, rollback |-> None,
             transition |-> NoTransition, last |-> NoSettlement]

Init == record = NoRecord /\ succeeded = {}

\* replaceRecord and write: the version must stay a safe integer.
Write(next) ==
    /\ record.version < MaxSafe
    /\ record' = [next EXCEPT !.version = record.version + 1]
    /\ UNCHANGED succeeded
-----------------------------------------------------------------------------
Begun(action, source, target) ==
    [record EXCEPT !.phase = "QUIESCING",
                   !.desired = target,
                   !.transition = [action     |-> action,
                                   source     |-> source,
                                   target     |-> target,
                                   version    |-> record.version,
                                   generation |-> record.generation]]

BeginInstall(target) ==
    /\ record.phase = "ABSENT"
    /\ Write(Begun("install", None, target))

\* Mutant of ReplaceInstall: an installed application is replaced as well.
ReplaceAnyInstall(target) ==
    /\ record.phase # "ABSENT"
    /\ record.desired # target
    /\ Write(Begun("install", None, target))

\* Only the install in flight at the version the caller names.
ReplaceInstall(target) ==
    /\ record.phase \in InFlight
    /\ record.transition.action = "install"
    /\ record.transition.target # target
    /\ Write(Begun("install", None, target))

BeginChange(action, target) ==
    /\ record.phase = "ACTIVE"
    /\ record.selected # target
    /\ action = "rollback" => record.rollback = target
    /\ Write(Begun(action, record.selected, target))

MarkQuiescent ==
    /\ record.phase = "QUIESCING"
    /\ Write([record EXCEPT !.phase = "QUIESCENT"])

\* The generation counts the selections that change the selected release.
Selected(release) ==
    [record EXCEPT !.phase = "SELECTED",
                   !.selected = release,
                   !.generation = IF record.selected = release THEN @ ELSE @ + 1]

MarkSelected ==
    /\ record.phase = "QUIESCENT"
    /\ record.desired \in {record.transition.source, record.transition.target}
    /\ Write(Selected(record.desired))

MarkActivating ==
    /\ record.phase = "SELECTED"
    /\ record.selected = record.desired
    /\ Write([record EXCEPT !.phase = "ACTIVATING"])

\* The activating target failed: go back to the source.
BeginSourceRestore ==
    /\ record.phase = "ACTIVATING"
    /\ record.transition.source # None
    /\ record.selected = record.transition.target
    /\ record.desired = record.transition.target
    /\ record.generation = record.transition.generation + 1
    /\ Write([record EXCEPT !.phase = "QUIESCING",
                            !.desired = record.transition.source])

Settled(outcome, rollback) ==
    [record EXCEPT !.phase = "ACTIVE",
                   !.desired = record.selected,
                   !.rollback = rollback,
                   !.transition = NoTransition,
                   !.last = [transition |-> record.transition,
                             outcome    |-> outcome]]

\* The change is given up before the source is quiescent.
AbortChange ==
    /\ record.phase = "QUIESCING"
    /\ record.transition.action \in Changes
    /\ record.selected = record.transition.source
    /\ record.desired = record.transition.target
    /\ record.generation = record.transition.generation
    /\ Write(Settled("SOURCE_RETAINED", record.rollback))

TargetActive == record.selected = record.transition.target

\* The generation proves which of the two releases is active.
Proved == record.generation =
              record.transition.generation + (IF TargetActive THEN 1 ELSE 2)

\* Mutant of Retained: the candidate follows the failed target.
RetainedTarget ==
    IF TargetActive THEN record.transition.source ELSE record.transition.target

\* The release a later rollback returns to.
Retained ==
    IF TargetActive THEN record.transition.source ELSE record.rollback

CompleteActivation ==
    /\ record.phase = "ACTIVATING"
    /\ record.selected = record.desired
    /\ record.selected \in {record.transition.source, record.transition.target}
    /\ Proved
    /\ record.version < MaxSafe
    /\ record' = [Settled(IF TargetActive THEN "TARGET_ACTIVE"
                          ELSE "SOURCE_RESTORED", Retained)
                      EXCEPT !.version = record.version + 1]
    /\ succeeded' = succeeded \cup {record.selected}

Next ==
    \/ \E t \in Releases :
          \/ BeginInstall(t)
          \/ ReplaceInstall(t)
          \/ \E a \in Changes : BeginChange(a, t)
    \/ MarkQuiescent
    \/ MarkSelected
    \/ MarkActivating
    \/ BeginSourceRestore
    \/ AbortChange
    \/ CompleteActivation

Spec == Init /\ [][Next]_activationVars
-----------------------------------------------------------------------------
\* getLocalApplicationRunCreationFence: which revision may create runs.
AdmitsRun(r, release) ==
    r.phase = "ABSENT" \/ (r.phase = "ACTIVE" /\ r.selected = release)

\* The source of a change may run until it is quiescent.
DrainingSource(r) ==
    /\ r.phase = "QUIESCING"
    /\ r.transition.action # "install"
    /\ r.selected = r.transition.source
    /\ r.desired = r.transition.target

\* getLocalApplicationServiceStartFence: which release may start its service.
AdmitsService(r, release) ==
    \/ r.phase = "ABSENT"
    \/ /\ r.phase \in {"ACTIVE", "ACTIVATING"} \/ DrainingSource(r)
       /\ r.selected = release
-----------------------------------------------------------------------------
TypeOK == record \in Record /\ succeeded \subseteq Releases

ValidActive(r) ==
    /\ r.selected # None
    /\ r.selected = r.desired
    /\ r.generation >= 1
    /\ r.last # NoSettlement
    /\ r.selected # r.rollback
    /\ r.transition = NoTransition

ValidInstall(r) ==
    /\ r.transition.source = None
    /\ r.rollback = None
    /\ r.last = NoSettlement
    /\ r.desired = r.transition.target
    /\ r.generation \in {r.transition.generation, r.transition.generation + 1}
    /\ r.transition.version = 0 => r.transition.generation = 0

\* Where a change stands: which release is selected and how often the
\* selection changed follow from the phase and from the direction.
ValidChange(r) ==
    LET t == r.transition
        changes == IF r.desired = t.target
                   THEN IF r.phase \in BeforeSelection THEN 0 ELSE 1
                   ELSE IF r.phase \in BeforeSelection THEN 1 ELSE 2 IN
    /\ t.source # None
    /\ r.last # NoSettlement
    /\ t.version >= 1
    /\ t.generation >= 1
    /\ t.action = "rollback" => r.rollback = t.target
    /\ r.desired \in {t.source, t.target}
    /\ r.generation = t.generation + changes
    /\ r.selected = IF changes = 1 THEN t.target ELSE t.source

ValidInFlight(r) ==
    LET t == r.transition IN
    /\ t # NoTransition
    /\ t.version < r.version
    /\ r.last.transition # t
    /\ IF t.action = "install" THEN ValidInstall(r) ELSE ValidChange(r)
    /\ r.phase \in {"SELECTED", "ACTIVATING"} =>
          /\ r.selected # None
          /\ r.generation >= 1
          /\ r.selected = r.desired

(***************************************************************************)
(* normalizeStorageRecord refuses a record whose fields contradict each      *)
(* other, and every operation begins with it: no sequence of operations      *)
(* produces a record that the next operation refuses to read.                *)
(***************************************************************************)
RecordIsReadable ==
    /\ record.phase = "ABSENT" => record = NoRecord
    /\ record.phase = "ACTIVE" => ValidActive(record)
    /\ record.phase \in InFlight => ValidInFlight(record)

(***************************************************************************)
(* A release is kept as rollback candidate, is the source of a change, or is *)
(* settled on only after its own activation was completed: a target that     *)
(* failed is never what a rollback returns to (completeActivation,           *)
(* beginSourceRestore, abortChange).                                        *)
(***************************************************************************)
OnlyProvenReleasesAreKept ==
    /\ record.rollback \in succeeded \cup {None}
    /\ record.transition.source \in succeeded \cup {None}
    /\ record.phase = "ACTIVE" => record.selected \in succeeded
=============================================================================
