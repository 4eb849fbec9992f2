------------------ MODULE LocalApplicationActivationProofs ------------------
(***************************************************************************)
(* Proofs about the activation record, for every set of releases and every   *)
(* last record version, and about the commands that drive it, the service    *)
(* and the runs of the application, for every number of runs and of commands *)
(* that die.                                                                *)
(***************************************************************************)
EXTENDS SystemdActivation, TLAPS

\* Every change of the generation is a write of its own.
GenerationIsCounted ==
    /\ record.generation <= record.version
    /\ record.selected # None => record.generation >= 1
    /\ record.phase = "ABSENT" \/ record.version >= 1

\* The releases of a change differ, and its source is not the candidate.
ChangeChanges ==
    record.phase \in InFlight =>
        /\ record.transition \in Transition
        /\ record.transition.source # record.transition.target
        /\ record.transition.action # "install" =>
              record.rollback # record.transition.source

\* The transition settled last began at an earlier record than any new one.
LastIsOlder ==
    record.last # NoSettlement =>
        record.last.transition.version < record.version

\* An install counts its selection only when it reaches it.
InstallIsCountedOnce ==
    /\ record.phase \in BeforeSelection
    /\ record.transition.action = "install"
    => record.generation = record.transition.generation

IInv ==
    /\ TypeOK
    /\ RecordIsReadable
    /\ OnlyProvenReleasesAreKept
    /\ GenerationIsCounted
    /\ ChangeChanges
    /\ LastIsOlder
    /\ InstallIsCountedOnce
-----------------------------------------------------------------------------
LEMMA InitIsGood == Init => IInv
BY NoneIsNoRelease, SafeIsPositive
DEF Init, IInv, TypeOK, RecordIsReadable, OnlyProvenReleasesAreKept,
    GenerationIsCounted, ChangeChanges, LastIsOlder, InstallIsCountedOnce,
    NoRecord, Record, Transition, NoTransition, NoSettlement, InFlight,
    BeforeSelection, Changes, Outcomes

\* Writing a well-typed record leaves a well-typed state.
LEMMA WriteKeepsType ==
    ASSUME TypeOK, NEW next \in Record, Write(next)
    PROVE  TypeOK'
<1>1. record.version + 1 \in 0..MaxSafe
  BY SafeIsPositive DEF Write, TypeOK, Record
<1> QED BY <1>1 DEF Write, TypeOK, Record

LEMMA BegunIsRecord ==
    ASSUME TypeOK, NEW action \in Changes \cup {"install"},
           NEW source \in Releases \cup {None}, NEW target \in Releases
    PROVE  Begun(action, source, target) \in Record
<1> DEFINE t == [action |-> action, source |-> source, target |-> target,
                 version |-> record.version,
                 generation |-> record.generation]
<1>1. t \in Transition
  BY DEF TypeOK, Record, Transition
<1>2. Begun(action, source, target) =
          [record EXCEPT !.phase = "QUIESCING", !.desired = target,
                         !.transition = t]
  BY DEF Begun
<1> HIDE DEF t
<1> QED BY <1>1, <1>2 DEF TypeOK, Record, InFlight

LEMMA SettledIsRecord ==
    ASSUME TypeOK, record.transition \in Transition, NEW outcome \in Outcomes,
           NEW rollback \in Releases \cup {None}
    PROVE  Settled(outcome, rollback) \in Record
<1> DEFINE s == [transition |-> record.transition, outcome |-> outcome]
<1>1. s \in [transition : Transition, outcome : Outcomes]
  OBVIOUS
<1>2. Settled(outcome, rollback) =
          [record EXCEPT !.phase = "ACTIVE", !.desired = record.selected,
                         !.rollback = rollback,
                         !.transition = NoTransition, !.last = s]
  BY DEF Settled
<1> HIDE DEF s
<1> QED BY <1>1, <1>2 DEF TypeOK, Record

LEMMA BeginInstallPreserves ==
    ASSUME IInv, NEW t \in Releases, BeginInstall(t)
    PROVE  IInv'
<1> USE NoneIsNoRelease, SafeIsPositive
    DEF Changes, InFlight, BeforeSelection, Outcomes
<1>1. TypeOK'
  BY BegunIsRecord, WriteKeepsType DEF BeginInstall, IInv
<1>2. GenerationIsCounted'
  BY SMTT(20) DEF BeginInstall, Write, Begun, IInv, TypeOK, GenerationIsCounted,
      NoRecord, Record, Transition, NoTransition, NoSettlement
<1>3. RecordIsReadable'
  BY SMTT(20) DEF BeginInstall, Write, Begun, IInv, TypeOK, RecordIsReadable,
      OnlyProvenReleasesAreKept, GenerationIsCounted, ChangeChanges,
      LastIsOlder, InstallIsCountedOnce, ValidActive, ValidInstall,
      ValidChange, ValidInFlight, NoRecord, Record, Transition,
      NoTransition, NoSettlement
<1>4. OnlyProvenReleasesAreKept'
  BY SMTT(20) DEF BeginInstall, Write, Begun, IInv, TypeOK, RecordIsReadable,
      OnlyProvenReleasesAreKept, GenerationIsCounted, ChangeChanges,
      LastIsOlder, InstallIsCountedOnce, ValidActive, ValidInstall,
      ValidChange, ValidInFlight, NoRecord, Record, Transition,
      NoTransition, NoSettlement
<1>5. ChangeChanges'
  BY SMTT(20) DEF BeginInstall, Write, Begun, IInv, TypeOK, RecordIsReadable,
      OnlyProvenReleasesAreKept, GenerationIsCounted, ChangeChanges,
      LastIsOlder, InstallIsCountedOnce, ValidActive, ValidInstall,
      ValidChange, ValidInFlight, NoRecord, Record, Transition,
      NoTransition, NoSettlement
<1>6. LastIsOlder'
  BY SMTT(20) DEF BeginInstall, Write, Begun, IInv, TypeOK, RecordIsReadable,
      OnlyProvenReleasesAreKept, GenerationIsCounted, ChangeChanges,
      LastIsOlder, InstallIsCountedOnce, ValidActive, ValidInstall,
      ValidChange, ValidInFlight, NoRecord, Record, Transition,
      NoTransition, NoSettlement
<1>7. InstallIsCountedOnce'
  BY SMTT(20) DEF BeginInstall, Write, Begun, IInv, TypeOK, RecordIsReadable,
      OnlyProvenReleasesAreKept, GenerationIsCounted, ChangeChanges,
      LastIsOlder, InstallIsCountedOnce, ValidActive, ValidInstall,
      ValidChange, ValidInFlight, NoRecord, Record, Transition,
      NoTransition, NoSettlement
<1> QED BY <1>1, <1>2, <1>3, <1>4, <1>5, <1>6, <1>7 DEF IInv

LEMMA ReplaceInstallPreserves ==
    ASSUME IInv, NEW t \in Releases, ReplaceInstall(t)
    PROVE  IInv'
<1> USE NoneIsNoRelease, SafeIsPositive
    DEF Changes, InFlight, BeforeSelection, Outcomes
<1>1. TypeOK'
  BY BegunIsRecord, WriteKeepsType DEF ReplaceInstall, IInv
<1>2. GenerationIsCounted'
  BY SMTT(20) DEF ReplaceInstall, Write, Begun, IInv, TypeOK, GenerationIsCounted,
      NoRecord, Record, Transition, NoTransition, NoSettlement
<1>3. RecordIsReadable'
  BY SMTT(20) DEF ReplaceInstall, Write, Begun, IInv, TypeOK, RecordIsReadable,
      OnlyProvenReleasesAreKept, GenerationIsCounted, ChangeChanges,
      LastIsOlder, InstallIsCountedOnce, ValidActive, ValidInstall,
      ValidChange, ValidInFlight, NoRecord, Record, Transition,
      NoTransition, NoSettlement
<1>4. OnlyProvenReleasesAreKept'
  BY SMTT(20) DEF ReplaceInstall, Write, Begun, IInv, TypeOK, RecordIsReadable,
      OnlyProvenReleasesAreKept, GenerationIsCounted, ChangeChanges,
      LastIsOlder, InstallIsCountedOnce, ValidActive, ValidInstall,
      ValidChange, ValidInFlight, NoRecord, Record, Transition,
      NoTransition, NoSettlement
<1>5. ChangeChanges'
  BY SMTT(20) DEF ReplaceInstall, Write, Begun, IInv, TypeOK, RecordIsReadable,
      OnlyProvenReleasesAreKept, GenerationIsCounted, ChangeChanges,
      LastIsOlder, InstallIsCountedOnce, ValidActive, ValidInstall,
      ValidChange, ValidInFlight, NoRecord, Record, Transition,
      NoTransition, NoSettlement
<1>6. LastIsOlder'
  BY SMTT(20) DEF ReplaceInstall, Write, Begun, IInv, TypeOK, RecordIsReadable,
      OnlyProvenReleasesAreKept, GenerationIsCounted, ChangeChanges,
      LastIsOlder, InstallIsCountedOnce, ValidActive, ValidInstall,
      ValidChange, ValidInFlight, NoRecord, Record, Transition,
      NoTransition, NoSettlement
<1>7. InstallIsCountedOnce'
  BY SMTT(20) DEF ReplaceInstall, Write, Begun, IInv, TypeOK, RecordIsReadable,
      OnlyProvenReleasesAreKept, GenerationIsCounted, ChangeChanges,
      LastIsOlder, InstallIsCountedOnce, ValidActive, ValidInstall,
      ValidChange, ValidInFlight, NoRecord, Record, Transition,
      NoTransition, NoSettlement
<1> QED BY <1>1, <1>2, <1>3, <1>4, <1>5, <1>6, <1>7 DEF IInv

LEMMA BeginChangePreserves ==
    ASSUME IInv, NEW a \in Changes, NEW t \in Releases, BeginChange(a, t)
    PROVE  IInv'
<1> USE NoneIsNoRelease, SafeIsPositive
    DEF Changes, InFlight, BeforeSelection, Outcomes
<1>1. TypeOK'
  <2>1. record.selected \in Releases \cup {None}
    BY DEF IInv, TypeOK, Record
  <2> QED BY <2>1, BegunIsRecord, WriteKeepsType DEF BeginChange, IInv
<1>2. GenerationIsCounted'
  BY SMTT(20) DEF BeginChange, Write, Begun, IInv, TypeOK, GenerationIsCounted,
      NoRecord, Record, Transition, NoTransition, NoSettlement
<1>3. RecordIsReadable'
  BY SMTT(20) DEF BeginChange, Write, Begun, IInv, TypeOK, RecordIsReadable,
      OnlyProvenReleasesAreKept, GenerationIsCounted, ChangeChanges,
      LastIsOlder, InstallIsCountedOnce, ValidActive, ValidInstall,
      ValidChange, ValidInFlight, NoRecord, Record, Transition,
      NoTransition, NoSettlement
<1>4. OnlyProvenReleasesAreKept'
  BY SMTT(20) DEF BeginChange, Write, Begun, IInv, TypeOK, RecordIsReadable,
      OnlyProvenReleasesAreKept, GenerationIsCounted, ChangeChanges,
      LastIsOlder, InstallIsCountedOnce, ValidActive, ValidInstall,
      ValidChange, ValidInFlight, NoRecord, Record, Transition,
      NoTransition, NoSettlement
<1>5. ChangeChanges'
  BY SMTT(20) DEF BeginChange, Write, Begun, IInv, TypeOK, RecordIsReadable,
      OnlyProvenReleasesAreKept, GenerationIsCounted, ChangeChanges,
      LastIsOlder, InstallIsCountedOnce, ValidActive, ValidInstall,
      ValidChange, ValidInFlight, NoRecord, Record, Transition,
      NoTransition, NoSettlement
<1>6. LastIsOlder'
  BY SMTT(20) DEF BeginChange, Write, Begun, IInv, TypeOK, RecordIsReadable,
      OnlyProvenReleasesAreKept, GenerationIsCounted, ChangeChanges,
      LastIsOlder, InstallIsCountedOnce, ValidActive, ValidInstall,
      ValidChange, ValidInFlight, NoRecord, Record, Transition,
      NoTransition, NoSettlement
<1>7. InstallIsCountedOnce'
  BY SMTT(20) DEF BeginChange, Write, Begun, IInv, TypeOK, RecordIsReadable,
      OnlyProvenReleasesAreKept, GenerationIsCounted, ChangeChanges,
      LastIsOlder, InstallIsCountedOnce, ValidActive, ValidInstall,
      ValidChange, ValidInFlight, NoRecord, Record, Transition,
      NoTransition, NoSettlement
<1> QED BY <1>1, <1>2, <1>3, <1>4, <1>5, <1>6, <1>7 DEF IInv

LEMMA MarkQuiescentPreserves ==
    ASSUME IInv, MarkQuiescent
    PROVE  IInv'
<1> USE NoneIsNoRelease, SafeIsPositive
    DEF Changes, InFlight, BeforeSelection, Outcomes
<1>1. TypeOK'
  <2>1. [record EXCEPT !.phase = "QUIESCENT"] \in Record
    BY DEF IInv, TypeOK, Record
  <2> QED BY <2>1, WriteKeepsType DEF MarkQuiescent, IInv
<1>2. GenerationIsCounted'
  BY SMTT(20) DEF MarkQuiescent, Write, IInv, TypeOK, GenerationIsCounted, NoRecord,
      Record, Transition, NoTransition, NoSettlement
<1>3. RecordIsReadable'
  BY SMTT(20) DEF MarkQuiescent, Write, IInv, TypeOK, RecordIsReadable,
      OnlyProvenReleasesAreKept, GenerationIsCounted, ChangeChanges,
      LastIsOlder, InstallIsCountedOnce, ValidActive, ValidInstall,
      ValidChange, ValidInFlight, NoRecord, Record, Transition,
      NoTransition, NoSettlement
<1>4. OnlyProvenReleasesAreKept'
  BY SMTT(20) DEF MarkQuiescent, Write, IInv, TypeOK, RecordIsReadable,
      OnlyProvenReleasesAreKept, GenerationIsCounted, ChangeChanges,
      LastIsOlder, InstallIsCountedOnce, ValidActive, ValidInstall,
      ValidChange, ValidInFlight, NoRecord, Record, Transition,
      NoTransition, NoSettlement
<1>5. ChangeChanges'
  BY SMTT(20) DEF MarkQuiescent, Write, IInv, TypeOK, RecordIsReadable,
      OnlyProvenReleasesAreKept, GenerationIsCounted, ChangeChanges,
      LastIsOlder, InstallIsCountedOnce, ValidActive, ValidInstall,
      ValidChange, ValidInFlight, NoRecord, Record, Transition,
      NoTransition, NoSettlement
<1>6. LastIsOlder'
  BY SMTT(20) DEF MarkQuiescent, Write, IInv, TypeOK, RecordIsReadable,
      OnlyProvenReleasesAreKept, GenerationIsCounted, ChangeChanges,
      LastIsOlder, InstallIsCountedOnce, ValidActive, ValidInstall,
      ValidChange, ValidInFlight, NoRecord, Record, Transition,
      NoTransition, NoSettlement
<1>7. InstallIsCountedOnce'
  BY SMTT(20) DEF MarkQuiescent, Write, IInv, TypeOK, RecordIsReadable,
      OnlyProvenReleasesAreKept, GenerationIsCounted, ChangeChanges,
      LastIsOlder, InstallIsCountedOnce, ValidActive, ValidInstall,
      ValidChange, ValidInFlight, NoRecord, Record, Transition,
      NoTransition, NoSettlement
<1> QED BY <1>1, <1>2, <1>3, <1>4, <1>5, <1>6, <1>7 DEF IInv

LEMMA MarkSelectedPreserves ==
    ASSUME IInv, MarkSelected
    PROVE  IInv'
<1> USE NoneIsNoRelease, SafeIsPositive
    DEF Changes, InFlight, BeforeSelection, Outcomes
<1>1. TypeOK'
  <2>1. record.generation + 1 \in 0..MaxSafe
    BY DEF MarkSelected, Write, IInv, GenerationIsCounted, TypeOK, Record
  <2>2. Selected(record.desired) \in Record
    BY <2>1 DEF Selected, IInv, TypeOK, Record
  <2> QED BY <2>2, WriteKeepsType DEF MarkSelected, IInv
<1>2. GenerationIsCounted'
  BY SMTT(20) DEF MarkSelected, Write, Selected, IInv, TypeOK, GenerationIsCounted,
      NoRecord, Record, Transition, NoTransition, NoSettlement
<1>3. RecordIsReadable'
  BY SMTT(20) DEF MarkSelected, Write, Selected, IInv, TypeOK, RecordIsReadable,
      OnlyProvenReleasesAreKept, GenerationIsCounted, ChangeChanges,
      LastIsOlder, InstallIsCountedOnce, ValidActive, ValidInstall,
      ValidChange, ValidInFlight, NoRecord, Record, Transition,
      NoTransition, NoSettlement
<1>4. OnlyProvenReleasesAreKept'
  BY SMTT(20) DEF MarkSelected, Write, Selected, IInv, TypeOK, RecordIsReadable,
      OnlyProvenReleasesAreKept, GenerationIsCounted, ChangeChanges,
      LastIsOlder, InstallIsCountedOnce, ValidActive, ValidInstall,
      ValidChange, ValidInFlight, NoRecord, Record, Transition,
      NoTransition, NoSettlement
<1>5. ChangeChanges'
  BY SMTT(20) DEF MarkSelected, Write, Selected, IInv, TypeOK, RecordIsReadable,
      OnlyProvenReleasesAreKept, GenerationIsCounted, ChangeChanges,
      LastIsOlder, InstallIsCountedOnce, ValidActive, ValidInstall,
      ValidChange, ValidInFlight, NoRecord, Record, Transition,
      NoTransition, NoSettlement
<1>6. LastIsOlder'
  BY SMTT(20) DEF MarkSelected, Write, Selected, IInv, TypeOK, RecordIsReadable,
      OnlyProvenReleasesAreKept, GenerationIsCounted, ChangeChanges,
      LastIsOlder, InstallIsCountedOnce, ValidActive, ValidInstall,
      ValidChange, ValidInFlight, NoRecord, Record, Transition,
      NoTransition, NoSettlement
<1>7. InstallIsCountedOnce'
  BY SMTT(20) DEF MarkSelected, Write, Selected, IInv, TypeOK, RecordIsReadable,
      OnlyProvenReleasesAreKept, GenerationIsCounted, ChangeChanges,
      LastIsOlder, InstallIsCountedOnce, ValidActive, ValidInstall,
      ValidChange, ValidInFlight, NoRecord, Record, Transition,
      NoTransition, NoSettlement
<1> QED BY <1>1, <1>2, <1>3, <1>4, <1>5, <1>6, <1>7 DEF IInv

LEMMA MarkActivatingPreserves ==
    ASSUME IInv, MarkActivating
    PROVE  IInv'
<1> USE NoneIsNoRelease, SafeIsPositive
    DEF Changes, InFlight, BeforeSelection, Outcomes
<1>1. TypeOK'
  <2>1. [record EXCEPT !.phase = "ACTIVATING"] \in Record
    BY DEF IInv, TypeOK, Record
  <2> QED BY <2>1, WriteKeepsType DEF MarkActivating, IInv
<1>2. GenerationIsCounted'
  BY SMTT(20) DEF MarkActivating, Write, IInv, TypeOK, GenerationIsCounted,
      NoRecord, Record, Transition, NoTransition, NoSettlement
<1>3. RecordIsReadable'
  BY SMTT(20) DEF MarkActivating, Write, IInv, TypeOK, RecordIsReadable,
      OnlyProvenReleasesAreKept, GenerationIsCounted, ChangeChanges,
      LastIsOlder, InstallIsCountedOnce, ValidActive, ValidInstall,
      ValidChange, ValidInFlight, NoRecord, Record, Transition,
      NoTransition, NoSettlement
<1>4. OnlyProvenReleasesAreKept'
  BY SMTT(20) DEF MarkActivating, Write, IInv, TypeOK, RecordIsReadable,
      OnlyProvenReleasesAreKept, GenerationIsCounted, ChangeChanges,
      LastIsOlder, InstallIsCountedOnce, ValidActive, ValidInstall,
      ValidChange, ValidInFlight, NoRecord, Record, Transition,
      NoTransition, NoSettlement
<1>5. ChangeChanges'
  BY SMTT(20) DEF MarkActivating, Write, IInv, TypeOK, RecordIsReadable,
      OnlyProvenReleasesAreKept, GenerationIsCounted, ChangeChanges,
      LastIsOlder, InstallIsCountedOnce, ValidActive, ValidInstall,
      ValidChange, ValidInFlight, NoRecord, Record, Transition,
      NoTransition, NoSettlement
<1>6. LastIsOlder'
  BY SMTT(20) DEF MarkActivating, Write, IInv, TypeOK, RecordIsReadable,
      OnlyProvenReleasesAreKept, GenerationIsCounted, ChangeChanges,
      LastIsOlder, InstallIsCountedOnce, ValidActive, ValidInstall,
      ValidChange, ValidInFlight, NoRecord, Record, Transition,
      NoTransition, NoSettlement
<1>7. InstallIsCountedOnce'
  BY SMTT(20) DEF MarkActivating, Write, IInv, TypeOK, RecordIsReadable,
      OnlyProvenReleasesAreKept, GenerationIsCounted, ChangeChanges,
      LastIsOlder, InstallIsCountedOnce, ValidActive, ValidInstall,
      ValidChange, ValidInFlight, NoRecord, Record, Transition,
      NoTransition, NoSettlement
<1> QED BY <1>1, <1>2, <1>3, <1>4, <1>5, <1>6, <1>7 DEF IInv

LEMMA BeginSourceRestorePreserves ==
    ASSUME IInv, BeginSourceRestore
    PROVE  IInv'
<1> USE NoneIsNoRelease, SafeIsPositive
    DEF Changes, InFlight, BeforeSelection, Outcomes
<1>1. TypeOK'
  <2>1. record.transition.source \in Releases \cup {None}
    BY DEF BeginSourceRestore, IInv, ChangeChanges, Transition
  <2>2. [record EXCEPT !.phase = "QUIESCING",
                       !.desired = record.transition.source] \in Record
    BY <2>1 DEF IInv, TypeOK, Record
  <2> QED BY <2>2, WriteKeepsType DEF BeginSourceRestore, IInv
<1>2. GenerationIsCounted'
  BY SMTT(20) DEF BeginSourceRestore, Write, IInv, TypeOK, GenerationIsCounted,
      NoRecord, Record, Transition, NoTransition, NoSettlement
<1>3. RecordIsReadable'
  BY SMTT(20) DEF BeginSourceRestore, Write, IInv, TypeOK, RecordIsReadable,
      OnlyProvenReleasesAreKept, GenerationIsCounted, ChangeChanges,
      LastIsOlder, InstallIsCountedOnce, ValidActive, ValidInstall,
      ValidChange, ValidInFlight, NoRecord, Record, Transition,
      NoTransition, NoSettlement
<1>4. OnlyProvenReleasesAreKept'
  BY SMTT(20) DEF BeginSourceRestore, Write, IInv, TypeOK, RecordIsReadable,
      OnlyProvenReleasesAreKept, GenerationIsCounted, ChangeChanges,
      LastIsOlder, InstallIsCountedOnce, ValidActive, ValidInstall,
      ValidChange, ValidInFlight, NoRecord, Record, Transition,
      NoTransition, NoSettlement
<1>5. ChangeChanges'
  BY SMTT(20) DEF BeginSourceRestore, Write, IInv, TypeOK, RecordIsReadable,
      OnlyProvenReleasesAreKept, GenerationIsCounted, ChangeChanges,
      LastIsOlder, InstallIsCountedOnce, ValidActive, ValidInstall,
      ValidChange, ValidInFlight, NoRecord, Record, Transition,
      NoTransition, NoSettlement
<1>6. LastIsOlder'
  BY SMTT(20) DEF BeginSourceRestore, Write, IInv, TypeOK, RecordIsReadable,
      OnlyProvenReleasesAreKept, GenerationIsCounted, ChangeChanges,
      LastIsOlder, InstallIsCountedOnce, ValidActive, ValidInstall,
      ValidChange, ValidInFlight, NoRecord, Record, Transition,
      NoTransition, NoSettlement
<1>7. InstallIsCountedOnce'
  BY SMTT(20) DEF BeginSourceRestore, Write, IInv, TypeOK, RecordIsReadable,
      OnlyProvenReleasesAreKept, GenerationIsCounted, ChangeChanges,
      LastIsOlder, InstallIsCountedOnce, ValidActive, ValidInstall,
      ValidChange, ValidInFlight, NoRecord, Record, Transition,
      NoTransition, NoSettlement
<1> QED BY <1>1, <1>2, <1>3, <1>4, <1>5, <1>6, <1>7 DEF IInv

LEMMA AbortChangePreserves ==
    ASSUME IInv, AbortChange
    PROVE  IInv'
<1> USE NoneIsNoRelease, SafeIsPositive
    DEF Changes, InFlight, BeforeSelection, Outcomes
<1>1. TypeOK'
  <2>1. record.transition \in Transition
    BY DEF AbortChange, IInv, ChangeChanges
  <2>2. record.rollback \in Releases \cup {None}
    BY DEF IInv, TypeOK, Record
  <2>3. Settled("SOURCE_RETAINED", record.rollback) \in Record
    BY <2>1, <2>2, SettledIsRecord DEF IInv
  <2> QED BY <2>3, WriteKeepsType DEF AbortChange, IInv
<1>2. GenerationIsCounted'
  BY SMTT(20) DEF AbortChange, Write, Settled, IInv, TypeOK, GenerationIsCounted,
      NoRecord, Record, Transition, NoTransition, NoSettlement
<1>3. RecordIsReadable'
  BY SMTT(20) DEF AbortChange, Write, Settled, IInv, TypeOK, RecordIsReadable,
      OnlyProvenReleasesAreKept, GenerationIsCounted, ChangeChanges,
      LastIsOlder, InstallIsCountedOnce, ValidActive, ValidInstall,
      ValidChange, ValidInFlight, NoRecord, Record, Transition,
      NoTransition, NoSettlement
<1>4. OnlyProvenReleasesAreKept'
  BY SMTT(20) DEF AbortChange, Write, Settled, IInv, TypeOK, RecordIsReadable,
      OnlyProvenReleasesAreKept, GenerationIsCounted, ChangeChanges,
      LastIsOlder, InstallIsCountedOnce, ValidActive, ValidInstall,
      ValidChange, ValidInFlight, NoRecord, Record, Transition,
      NoTransition, NoSettlement
<1>5. ChangeChanges'
  BY SMTT(20) DEF AbortChange, Write, Settled, IInv, TypeOK, RecordIsReadable,
      OnlyProvenReleasesAreKept, GenerationIsCounted, ChangeChanges,
      LastIsOlder, InstallIsCountedOnce, ValidActive, ValidInstall,
      ValidChange, ValidInFlight, NoRecord, Record, Transition,
      NoTransition, NoSettlement
<1>6. LastIsOlder'
  BY SMTT(20) DEF AbortChange, Write, Settled, IInv, TypeOK, RecordIsReadable,
      OnlyProvenReleasesAreKept, GenerationIsCounted, ChangeChanges,
      LastIsOlder, InstallIsCountedOnce, ValidActive, ValidInstall,
      ValidChange, ValidInFlight, NoRecord, Record, Transition,
      NoTransition, NoSettlement
<1>7. InstallIsCountedOnce'
  BY SMTT(20) DEF AbortChange, Write, Settled, IInv, TypeOK, RecordIsReadable,
      OnlyProvenReleasesAreKept, GenerationIsCounted, ChangeChanges,
      LastIsOlder, InstallIsCountedOnce, ValidActive, ValidInstall,
      ValidChange, ValidInFlight, NoRecord, Record, Transition,
      NoTransition, NoSettlement
<1> QED BY <1>1, <1>2, <1>3, <1>4, <1>5, <1>6, <1>7 DEF IInv

LEMMA CompleteActivationPreserves ==
    ASSUME IInv, CompleteActivation
    PROVE  IInv'
<1> USE NoneIsNoRelease, SafeIsPositive
    DEF Changes, InFlight, BeforeSelection, Outcomes
<1>1. TypeOK'
  <2> DEFINE o == IF TargetActive THEN "TARGET_ACTIVE" ELSE "SOURCE_RESTORED"
  <2>1. record.transition \in Transition
    BY DEF CompleteActivation, IInv, ChangeChanges
  <2>2. Retained \in Releases \cup {None}
    BY <2>1 DEF Retained, IInv, TypeOK, Record, Transition
  <2>3. o \in Outcomes
    OBVIOUS
  <2>4. Settled(o, Retained) \in Record
    BY <2>1, <2>2, <2>3, SettledIsRecord DEF IInv
  <2>5. record.selected \in Releases
    BY <2>1 DEF CompleteActivation, IInv, TypeOK, Record, Transition,
                OnlyProvenReleasesAreKept, RecordIsReadable, ValidInFlight
  <2>6. record' = [Settled(o, Retained) EXCEPT !.version = record.version + 1]
    BY DEF CompleteActivation
  <2>7. record.version + 1 \in 0..MaxSafe
    BY DEF CompleteActivation, IInv, TypeOK, Record
  <2>8. record' \in Record
    <3> DEFINE n == Settled(o, Retained)
    <3>1. n \in Record /\ record' = [n EXCEPT !.version = record.version + 1]
      BY <2>4, <2>6
    <3> HIDE DEF n
    <3> QED BY <3>1, <2>7 DEF Record
  <2> QED BY <2>5, <2>8 DEF CompleteActivation, IInv, TypeOK
<1>2. GenerationIsCounted'
  BY SMTT(20) DEF CompleteActivation, Write, Settled, Retained, Proved,
      TargetActive, IInv, TypeOK, GenerationIsCounted, NoRecord, Record,
      Transition, NoTransition, NoSettlement
<1>3. RecordIsReadable'
  BY SMTT(20) DEF CompleteActivation, Write, Settled, Retained, Proved,
      TargetActive, IInv, TypeOK, RecordIsReadable,
      OnlyProvenReleasesAreKept, GenerationIsCounted, ChangeChanges,
      LastIsOlder, InstallIsCountedOnce, ValidActive, ValidInstall,
      ValidChange, ValidInFlight, NoRecord, Record, Transition,
      NoTransition, NoSettlement
<1>4. OnlyProvenReleasesAreKept'
  BY SMTT(20) DEF CompleteActivation, Write, Settled, Retained, Proved,
      TargetActive, IInv, TypeOK, RecordIsReadable,
      OnlyProvenReleasesAreKept, GenerationIsCounted, ChangeChanges,
      LastIsOlder, InstallIsCountedOnce, ValidActive, ValidInstall,
      ValidChange, ValidInFlight, NoRecord, Record, Transition,
      NoTransition, NoSettlement
<1>5. ChangeChanges'
  BY SMTT(20) DEF CompleteActivation, Write, Settled, Retained, Proved,
      TargetActive, IInv, TypeOK, RecordIsReadable,
      OnlyProvenReleasesAreKept, GenerationIsCounted, ChangeChanges,
      LastIsOlder, InstallIsCountedOnce, ValidActive, ValidInstall,
      ValidChange, ValidInFlight, NoRecord, Record, Transition,
      NoTransition, NoSettlement
<1>6. LastIsOlder'
  BY SMTT(20) DEF CompleteActivation, Write, Settled, Retained, Proved,
      TargetActive, IInv, TypeOK, RecordIsReadable,
      OnlyProvenReleasesAreKept, GenerationIsCounted, ChangeChanges,
      LastIsOlder, InstallIsCountedOnce, ValidActive, ValidInstall,
      ValidChange, ValidInFlight, NoRecord, Record, Transition,
      NoTransition, NoSettlement
<1>7. InstallIsCountedOnce'
  BY SMTT(20) DEF CompleteActivation, Write, Settled, Retained, Proved,
      TargetActive, IInv, TypeOK, RecordIsReadable,
      OnlyProvenReleasesAreKept, GenerationIsCounted, ChangeChanges,
      LastIsOlder, InstallIsCountedOnce, ValidActive, ValidInstall,
      ValidChange, ValidInFlight, NoRecord, Record, Transition,
      NoTransition, NoSettlement
<1> QED BY <1>1, <1>2, <1>3, <1>4, <1>5, <1>6, <1>7 DEF IInv

LEMMA StutterPreserves == IInv /\ UNCHANGED activationVars => IInv'
BY DEF IInv, activationVars, TypeOK, RecordIsReadable, ValidActive,
       ValidInFlight, ValidInstall, ValidChange, OnlyProvenReleasesAreKept,
       GenerationIsCounted, ChangeChanges, LastIsOlder, InstallIsCountedOnce

LEMMA StepPreserves == IInv /\ [Next]_activationVars => IInv'
<1> SUFFICES ASSUME IInv, [Next]_activationVars
             PROVE  IInv'
  OBVIOUS
<1>1. ASSUME NEW t \in Releases, BeginInstall(t) PROVE IInv'
  BY <1>1, BeginInstallPreserves
<1>2. ASSUME NEW t \in Releases, ReplaceInstall(t) PROVE IInv'
  BY <1>2, ReplaceInstallPreserves
<1>3. ASSUME NEW t \in Releases, NEW a \in Changes, BeginChange(a, t)
      PROVE  IInv'
  BY <1>3, BeginChangePreserves
<1>4. CASE MarkQuiescent
  BY <1>4, MarkQuiescentPreserves
<1>5. CASE MarkSelected
  BY <1>5, MarkSelectedPreserves
<1>6. CASE MarkActivating
  BY <1>6, MarkActivatingPreserves
<1>7. CASE BeginSourceRestore
  BY <1>7, BeginSourceRestorePreserves
<1>8. CASE AbortChange
  BY <1>8, AbortChangePreserves
<1>9. CASE CompleteActivation
  BY <1>9, CompleteActivationPreserves
<1>10. CASE UNCHANGED activationVars
  BY <1>10, StutterPreserves
<1> QED
  BY <1>1, <1>2, <1>3, <1>4, <1>5, <1>6, <1>7, <1>8, <1>9, <1>10 DEF Next

LEMMA InductiveInvariant == Spec => []IInv
BY InitIsGood, StepPreserves, PTL DEF Spec

(***************************************************************************)
(* The record and the history keep their types; in particular neither the    *)
(* version nor the generation leaves the safe integers (Write).              *)
(***************************************************************************)
THEOREM TypeCorrect == Spec => []TypeOK
<1>1. IInv => TypeOK
  BY DEF IInv
<1> QED BY <1>1, InductiveInvariant, PTL

(***************************************************************************)
(* No sequence of operations writes a record that normalizeStorageRecord     *)
(* refuses: every later command can read the record and go on.              *)
(***************************************************************************)
THEOREM RecordStaysReadable == Spec => []RecordIsReadable
<1>1. IInv => RecordIsReadable
  BY DEF IInv
<1> QED BY <1>1, InductiveInvariant, PTL

(***************************************************************************)
(* Whatever fails and is repeated, the rollback candidate, the source of a   *)
(* change and the active release have each been active before.              *)
(***************************************************************************)
THEOREM KeptReleasesAreProven == Spec => []OnlyProvenReleasesAreKept
<1>1. IInv => OnlyProvenReleasesAreKept
  BY DEF IInv
<1> QED BY <1>1, InductiveInvariant, PTL
-----------------------------------------------------------------------------
(***************************************************************************)
(* The commands under systemd.  The inductive invariant says, beside what     *)
(* the record claims, what the command knows at each step between two writes  *)
(* of the record: which runs its inspection has passed, that the service it   *)
(* stopped stays down, and what the unit is wired to.                         *)
(***************************************************************************)
Fence == [release : Releases \cup {None}, record : Record]

HostTypeOK ==
    /\ wired \in Releases \cup {None}
    /\ running \in Releases \cup {None}
    /\ runs \in [Runs -> Run]
    /\ fences \in [Runs -> Fence]
    /\ step \in Steps
    /\ unread \subseteq Runs
    /\ blocked \in BOOLEAN
    /\ crashes \in 0..MaxCrashes

Live(i) == runs[i] # NoRun /\ ~runs[i].ended

\* A live run the first install makes current; no other survives a change.
Survives(i) == FirstInstall /\ runs[i].release = record.desired

\* The record and the runs.
WorkInv ==
    /\ record.phase = "ACTIVE" =>
          \A i \in Runs : Live(i) => runs[i].release = record.selected
    /\ record.phase = "QUIESCING" /\ ~FirstInstall =>
          \A i \in Runs : Live(i) => /\ ~RestoresSource
                                     /\ runs[i].release = record.selected
    /\ record.phase \in {"QUIESCENT", "SELECTED", "ACTIVATING"} =>
          \A i \in Runs : Live(i) => Survives(i)
    /\ \A i \in Runs : AdmitsRun(fences[i].record, fences[i].release)

\* The record and the host.
ServiceInv ==
    /\ ServiceFollowsSelection
    /\ record.phase = "ABSENT" => wired = None

\* The step of the command, with the record as the command read it.
CommandInv ==
    /\ step \in {"before", "after", "retain"} =>
          record.phase = "QUIESCING" /\ ~RestoresSource
    /\ step = "after" /\ ~blocked =>
          \A i \in Runs \ unread : Live(i) => Survives(i)
    /\ step = "quiesce" =>
          record.phase = "QUIESCING" /\ \A i \in Runs : Live(i) => Survives(i)
    /\ step = "stopped" /\ record.phase = "QUIESCENT" => running = None
    /\ step = "select" => /\ record.phase = "QUIESCENT"
                          /\ running = None
                          /\ wired = record.desired
    /\ step = "abort" => wired = record.selected

HostInv == IInv /\ HostTypeOK /\ WorkInv /\ ServiceInv /\ CommandInv
-----------------------------------------------------------------------------

LEMMA NoRecordIsRecord == NoRecord \in Record
BY SafeIsPositive DEF NoRecord, Record

LEMMA NextIsARecordStep ==
    ASSUME IInv, [NextAll]_vars
    PROVE  IInv' /\ [Next]_activationVars
<1>0. SUFFICES [Next]_activationVars
  BY StepPreserves
<1> USE DEF activationVars
<1>1. CASE \E t \in Releases : Install(t) \/ Update(t)
  BY <1>1 DEF Install, Update, Next, Changes
<1>2. CASE Rollback
  <2>1. record.rollback \in Releases
    BY <1>2 DEF Rollback, IInv, TypeOK, Record
  <2> QED BY <1>2, <2>1 DEF Rollback, Next, Changes
<1>3. CASE Recover \/ Die
  BY <1>3 DEF Recover, Die
<1>4. CASE Quiesce \/ Select \/ Activating \/ Complete \/ Restore \/ Abort
  BY <1>4 DEF Quiesce, Select, Activating, Complete, Restore, Abort, Next
<1>5. CASE Converge \/ ListRun \/ Inspected \/ Stop \/ InspectAfterStop
  BY <1>5 DEF Converge, ListRun, Inspected, Stop, InspectAfterStop
<1>6. CASE Wire \/ Healthy \/ Unhealthy \/ RetainPending \/ RetainHealthy \/ RetainUnhealthy
  BY <1>6 DEF Wire, Healthy, Unhealthy, RetainPending, RetainHealthy, RetainUnhealthy
<1>7. CASE Environment
  BY <1>7 DEF Environment, ServiceStarts, ServiceStops, AdmitRun, CreateRun, EndRun
<1>8. CASE UNCHANGED vars
  BY <1>8 DEF vars
<1> QED BY <1>1, <1>2, <1>3, <1>4, <1>5, <1>6, <1>7, <1>8 DEF NextAll, Drive

LEMMA HostTypeStep ==
    ASSUME IInv, HostTypeOK, [NextAll]_vars
    PROVE  HostTypeOK'
<1> USE DEF HostTypeOK, Steps
<1>0. /\ record.desired \in Releases \cup {None} /\ Source \in Releases \cup {None}
      /\ record \in Record
  BY DEF IInv, TypeOK, Record, Transition, NoTransition, Source
<1>1. CASE \E t \in Releases : Install(t) \/ Update(t)
  BY <1>1 DEF Install, Update, Goto, host, work
<1>2. CASE Rollback \/ Recover
  BY <1>2 DEF Rollback, Recover, Goto, host, work
<1>3. CASE Die
  <2>1. crashes' \in 0..MaxCrashes
    BY <1>3, BoundsAreNatural DEF Die
  <2> QED BY <1>3, <2>1 DEF Die, host, work
<1>4. CASE Quiesce \/ Select \/ Activating \/ Complete \/ Restore \/ Abort
  BY <1>4 DEF Quiesce, Select, Activating, Complete, Restore, Abort, Goto, host, work
<1>5. CASE Converge \/ ListRun \/ Inspected
  BY <1>5 DEF Converge, ListRun, Inspected, Inspect, Goto, Blocks, host, work
<1>6. CASE Stop \/ InspectAfterStop \/ Unhealthy \/ RetainPending \/ RetainUnhealthy
  BY <1>6 DEF Stop, InspectAfterStop, Unhealthy, RetainPending, RetainUnhealthy, Inspect,
              Goto, host, work
<1>7. CASE Wire \/ Healthy \/ RetainHealthy
  BY <1>0, <1>7 DEF Wire, Healthy, RetainHealthy, Goto, work
<1>8. CASE ServiceStarts \/ ServiceStops
  BY <1>8 DEF ServiceStarts, ServiceStops, work, command
<1>9. ASSUME NEW i \in Runs, NEW t \in Releases, AdmitRun(i, t) PROVE HostTypeOK'
  <2>1. [release |-> t, record |-> record] \in Fence
    BY <1>0 DEF Fence
  <2> QED BY <1>9, <2>1 DEF AdmitRun, host, command
<1>10. ASSUME NEW i \in Runs, CreateRun(i) PROVE HostTypeOK'
  <2>1. fences[i].release \in Releases \cup {None} /\ NoFence \in Fence
    BY <1>0, NoRecordIsRecord DEF Fence, NoFence
  <2>2. [release |-> fences[i].release, ended |-> FALSE] \in Run
    BY <2>1 DEF Run
  <2> QED BY <1>10, <2>1, <2>2 DEF CreateRun, host, command
<1>11. ASSUME NEW i \in Runs, EndRun(i) PROVE HostTypeOK'
  BY <1>11 DEF EndRun, Run, host, command
<1>12. CASE UNCHANGED vars
  BY <1>12 DEF vars, host, work, command
<1> QED BY <1>1, <1>2, <1>3, <1>4, <1>5, <1>6, <1>7, <1>8, <1>9, <1>10, <1>11, <1>12
        DEF NextAll, Drive, Environment


\* The lock makes the command the only writer: a step that leaves the record
\* and the runs alone, and only removes the running service or starts the
\* selected one.
LEMMA RecordKeptWork ==
    ASSUME WorkInv, UNCHANGED <<record, runs, fences>>
    PROVE  WorkInv'
BY DEF WorkInv, Live, Survives, FirstInstall, RestoresSource, Source, AdmitsRun

LEMMA WorkStep ==
    ASSUME HostInv, [NextAll]_vars
    PROVE  WorkInv'
<1> USE DEF Live, Survives, FirstInstall, RestoresSource, Source
<1>0. record \in Record /\ record' \in Record
  BY NextIsARecordStep DEF HostInv, IInv, TypeOK
<1>1. ASSUME NEW t \in Releases, BeginInstall(t) \/ ReplaceInstall(t), UNCHANGED <<runs, fences>>
      PROVE  WorkInv'
  <2>1. Write(Begun("install", None, t))
    BY <1>1 DEF BeginInstall, ReplaceInstall
  <2>2. record'.phase = "QUIESCING" /\ record'.transition.source = None
    BY <1>0, <2>1 DEF Write, Begun, Record
  <2> QED BY <1>1, <2>2 DEF HostInv, WorkInv
<1>2. ASSUME NEW t \in Releases, NEW a \in Changes, BeginChange(a, t),
             UNCHANGED <<runs, fences>>
      PROVE  WorkInv'
  <2>1. /\ record.phase = "ACTIVE" /\ record.selected # t
        /\ record'.phase = "QUIESCING" /\ record'.desired = t
        /\ record'.selected = record.selected
        /\ record'.transition.source = record.selected
    BY <1>0, <1>2 DEF BeginChange, Write, Begun, Record
  <2> QED BY <1>2, <2>1 DEF HostInv, WorkInv
<1>3. CASE Quiesce
  <2>1. /\ record'.phase = "QUIESCENT" /\ record'.desired = record.desired
        /\ record'.transition = record.transition /\ UNCHANGED <<runs, fences>>
    BY <1>0, <1>3 DEF Quiesce, MarkQuiescent, Write, Record, work
  <2>2. \A i \in Runs : Live(i) => Survives(i)
    BY <1>3 DEF Quiesce, HostInv, CommandInv
  <2> QED BY <2>1, <2>2 DEF HostInv, WorkInv
<1>4. CASE Select
  <2>1. /\ record.phase = "QUIESCENT" /\ record'.phase = "SELECTED"
        /\ record'.desired = record.desired
        /\ record'.transition = record.transition /\ UNCHANGED <<runs, fences>>
    BY <1>0, <1>4 DEF Select, MarkSelected, Write, Selected, Record, work
  <2> QED BY <2>1 DEF HostInv, WorkInv
<1>5. CASE Activating
  <2>1. /\ record.phase = "SELECTED" /\ record'.phase = "ACTIVATING"
        /\ record'.desired = record.desired
        /\ record'.transition = record.transition /\ UNCHANGED <<runs, fences>>
    BY <1>0, <1>5 DEF Activating, MarkActivating, Write, Record, work
  <2> QED BY <2>1 DEF HostInv, WorkInv
<1>6. CASE Restore
  <2>1. /\ record.phase = "ACTIVATING" /\ record.transition.source # None
        /\ record'.phase = "QUIESCING" /\ UNCHANGED <<runs, fences>>
    BY <1>0, <1>6 DEF Restore, BeginSourceRestore, Write, Record, work
  <2>2. \A i \in Runs : ~Live(i)
    BY <2>1 DEF HostInv, WorkInv
  <2> QED BY <2>1, <2>2 DEF HostInv, WorkInv
<1>7. CASE Abort
  <2>1. /\ record.phase = "QUIESCING" /\ record'.phase = "ACTIVE"
        /\ record.transition.action \in Changes
        /\ record'.selected = record.selected /\ UNCHANGED <<runs, fences>>
    BY <1>0, <1>7 DEF Abort, AbortChange, Write, Settled, Record, work
  <2>2. record.transition.source # None
    BY <2>1 DEF HostInv, IInv, RecordIsReadable, ValidInFlight, ValidChange, Changes, InFlight
  <2> QED BY <2>1, <2>2 DEF HostInv, WorkInv
<1>8. CASE CompleteActivation /\ UNCHANGED <<runs, fences>>
  <2>1. /\ record.phase = "ACTIVATING" /\ record.selected = record.desired
        /\ record'.phase = "ACTIVE" /\ record'.selected = record.selected
    BY <1>0, <1>8 DEF CompleteActivation, Settled, Record
  <2> QED BY <1>8, <2>1 DEF HostInv, WorkInv
<1>9. ASSUME NEW i \in Runs, NEW t \in Releases, AdmitRun(i, t) PROVE WorkInv'
  <2>1. /\ record' = record /\ runs' = runs /\ AdmitsRun(record, t)
        /\ fences' = [fences EXCEPT ![i] = [release |-> t, record |-> record]]
    BY <1>9 DEF AdmitRun, activationVars
  <2>2. \A j \in Runs : AdmitsRun(fences'[j].record, fences'[j].release)
    BY <2>1 DEF HostInv, HostTypeOK, WorkInv
  <2> QED BY <2>1, <2>2 DEF HostInv, WorkInv
<1>10. ASSUME NEW i \in Runs, CreateRun(i) PROVE WorkInv'
  <2>1. /\ record' = record /\ fences' = [fences EXCEPT ![i] = NoFence]
        /\ AdmitsRun(fences[i].record, fences[i].release)
    BY <1>10 DEF CreateRun, activationVars, HostInv, WorkInv
  <2>2. \A j \in Runs : AdmitsRun(fences'[j].record, fences'[j].release)
    BY <2>1 DEF HostInv, HostTypeOK, WorkInv, NoFence, NoRecord, AdmitsRun
  <2>3. CASE runs' = runs
    BY <2>1, <2>2, <2>3 DEF HostInv, WorkInv
  <2>4. CASE /\ FenceHolds(i)
             /\ runs' = [runs EXCEPT ![i] = [release |-> fences[i].release, ended |-> FALSE]]
    <3>1. \/ record.phase = "ABSENT"
          \/ record.phase = "ACTIVE" /\ record.selected = fences[i].release
      BY <2>1, <2>4 DEF FenceHolds, AdmitsRun
    <3> QED BY <2>1, <2>2, <2>4, <3>1 DEF HostInv, HostTypeOK, WorkInv
  <2> QED BY <1>10, <2>3, <2>4 DEF CreateRun
<1>11. ASSUME NEW i \in Runs, EndRun(i) PROVE WorkInv'
  <2>1. UNCHANGED <<record, fences>> /\ runs' = [runs EXCEPT ![i].ended = TRUE]
    BY <1>11 DEF EndRun, activationVars
  <2>2. \A j \in Runs : Live(j)' => Live(j) /\ runs'[j].release = runs[j].release
    BY <2>1 DEF HostInv, HostTypeOK, Run, NoRun
  <2> QED BY <2>1, <2>2 DEF HostInv, WorkInv
<1>12. CASE \/ Recover \/ Die \/ Converge \/ ListRun \/ Inspected \/ Stop \/ InspectAfterStop
            \/ Wire \/ Healthy \/ Unhealthy \/ RetainPending \/ RetainHealthy
            \/ RetainUnhealthy \/ ServiceStarts \/ ServiceStops \/ UNCHANGED vars
  <2>1. UNCHANGED <<record, runs, fences>>
    BY <1>12 DEF Recover, Die, Converge, ListRun, Inspected, Stop, InspectAfterStop, Wire,
                 Healthy, Unhealthy, RetainPending, RetainHealthy, RetainUnhealthy,
                 ServiceStarts, ServiceStops, vars, activationVars, work
  <2> QED BY <2>1, RecordKeptWork DEF HostInv
<1>13. CASE Complete
  <2>1. CASE UNCHANGED activationVars
    BY <1>13, <2>1, RecordKeptWork DEF Complete, activationVars, work, HostInv
  <2> QED BY <1>8, <1>13, <2>1 DEF Complete, work
<1>14. CASE \E t \in Releases : Install(t) \/ Update(t)
  BY <1>1, <1>2, <1>14 DEF Install, Update, work, Changes
<1>15. CASE Rollback
  <2>1. record.rollback \in Releases
    BY <1>0, <1>15 DEF Rollback, Record
  <2> QED BY <1>2, <1>15, <2>1 DEF Rollback, work, Changes
<1> QED BY <1>3, <1>4, <1>5, <1>6, <1>7, <1>9, <1>10, <1>11, <1>12, <1>13, <1>14, <1>15
        DEF NextAll, Drive, Environment


\* The draining source is what the change in flight has selected.
LEMMA SourceIsSelected ==
    ASSUME IInv, record.phase = "QUIESCING", ~RestoresSource, ~FirstInstall
    PROVE  record.selected = Source
<1>1. record.phase \in BeforeSelection
  BY DEF BeforeSelection
<1> QED BY <1>1 DEF IInv, RecordIsReadable, ValidInFlight, ValidInstall, ValidChange, InFlight,
                RestoresSource, FirstInstall, Source

LEMMA ServiceStep ==
    ASSUME HostInv, [NextAll]_vars
    PROVE  ServiceInv'
<1> USE DEF ServiceInv, ServiceFollowsSelection
<1>0. record \in Record /\ record' \in Record
  BY NextIsARecordStep DEF HostInv, IInv, TypeOK
<1>1. ASSUME NEW t \in Releases, UNCHANGED host,
             BeginInstall(t) \/ ReplaceInstall(t) \/ \E a \in Changes : BeginChange(a, t)
      PROVE  ServiceInv'
  <2>1. PICK a \in Changes \cup {"install"}, s \in {None, record.selected} :
           Write(Begun(a, s, t))
    BY <1>1 DEF BeginInstall, ReplaceInstall, BeginChange
  <2>2. record'.phase = "QUIESCING" /\ record'.selected = record.selected
    BY <1>0, <2>1 DEF Write, Begun, Record
  <2> QED BY <1>1, <2>2 DEF HostInv, host
<1>2. CASE Quiesce \/ Restore
  <2>1. /\ record'.phase \in {"QUIESCING", "QUIESCENT"}
        /\ record'.selected = record.selected /\ UNCHANGED <<wired, running>>
    BY <1>0, <1>2 DEF Quiesce, MarkQuiescent, Restore, BeginSourceRestore, Write, Record, host
  <2> QED BY <2>1 DEF HostInv
<1>3. CASE Select
  <2>1. /\ record'.phase = "SELECTED" /\ record'.selected = record.desired
        /\ UNCHANGED <<wired, running>>
    BY <1>0, <1>3 DEF Select, MarkSelected, Write, Selected, Record, host
  <2>2. running = None /\ wired = record.desired
    BY <1>3 DEF Select, HostInv, CommandInv
  <2> QED BY <2>1, <2>2
<1>4. CASE Activating
  <2>1. /\ record.phase = "SELECTED" /\ record'.phase = "ACTIVATING"
        /\ record'.selected = record.selected /\ UNCHANGED <<wired, running>>
    BY <1>0, <1>4 DEF Activating, MarkActivating, Write, Record, host
  <2> QED BY <2>1 DEF HostInv
<1>5. CASE Abort
  <2>1. /\ record'.phase = "ACTIVE" /\ record'.selected = record.selected
        /\ wired = record.selected /\ UNCHANGED <<wired, running>>
    BY <1>0, <1>5 DEF Abort, AbortChange, Write, Settled, Record, host, HostInv, CommandInv
  <2> QED BY <2>1 DEF HostInv
<1>6. CASE CompleteActivation /\ UNCHANGED host
  <2>1. /\ record.phase = "ACTIVATING" /\ record'.phase = "ACTIVE"
        /\ record'.selected = record.selected
    BY <1>0, <1>6 DEF CompleteActivation, Settled, Record
  <2> QED BY <1>6, <2>1 DEF HostInv, host
<1>7. CASE Wire
  <2>1. record' = record /\ record.phase = "QUIESCENT" /\ running' = running
    BY <1>7 DEF Wire, activationVars
  <2> QED BY <2>1 DEF HostInv
<1>8. CASE Healthy
  <2>1. /\ record' = record /\ record.phase = "ACTIVATING" /\ wired' = wired
        /\ running' = record.desired
    BY <1>8 DEF Healthy, activationVars
  <2>2. record.selected = record.desired
    BY <2>1 DEF HostInv, IInv, RecordIsReadable, ValidInFlight, InFlight
  <2> QED BY <2>1, <2>2 DEF HostInv
<1>9. CASE RetainHealthy
  <2>1. /\ record' = record /\ record.phase = "QUIESCING" /\ wired' = wired
        /\ running' = Source /\ ~RestoresSource /\ ~FirstInstall
    BY <1>9 DEF RetainHealthy, activationVars, HostInv, CommandInv
  <2>2. record.selected = Source
    BY <2>1, SourceIsSelected DEF HostInv
  <2> QED BY <2>1, <2>2 DEF HostInv
<1>10. CASE ServiceStarts
  <2>1. record' = record /\ wired' = wired /\ running' = wired /\ wired # None
    BY <1>10 DEF ServiceStarts, activationVars
  <2>2. record.selected = wired /\ record.phase # "SELECTED"
    BY <1>10, <2>1 DEF ServiceStarts, MayStart, AdmitsService, DrainingSource, HostInv
  <2> QED BY <2>1, <2>2 DEF HostInv
<1>11. CASE Stop \/ ServiceStops
  <2>1. record' = record /\ wired' = wired /\ running' = None
    BY <1>11 DEF Stop, ServiceStops, activationVars
  <2> QED BY <2>1 DEF HostInv
<1>12. ASSUME UNCHANGED <<record, host>> PROVE ServiceInv'
  BY <1>12 DEF HostInv, host
<1>13. CASE \/ Recover \/ Die \/ Converge \/ ListRun \/ Inspected \/ InspectAfterStop
            \/ Unhealthy \/ RetainPending \/ RetainUnhealthy \/ UNCHANGED vars
  BY <1>12, <1>13 DEF Recover, Die, Converge, ListRun, Inspected, InspectAfterStop,
                Unhealthy, RetainPending, RetainUnhealthy, vars, activationVars
<1>14. CASE \E i \in Runs : CreateRun(i) \/ EndRun(i) \/ \E t \in Releases : AdmitRun(i, t)
  BY <1>12, <1>14 DEF AdmitRun, CreateRun, EndRun, activationVars
<1>15. CASE Complete
  BY <1>6, <1>12, <1>15 DEF Complete, activationVars
<1>16. CASE \E t \in Releases : Install(t) \/ Update(t)
  BY <1>1, <1>16 DEF Install, Update, Changes
<1>17. CASE Rollback
  <2>1. record.rollback \in Releases
    BY <1>0, <1>17 DEF Rollback, Record
  <2> QED BY <1>1, <1>17, <2>1 DEF Rollback, Changes
<1> QED BY <1>2, <1>3, <1>4, <1>5, <1>7, <1>8, <1>9, <1>10, <1>11, <1>13, <1>14, <1>15,
           <1>16, <1>17 DEF NextAll, Drive, Environment

LEMMA CommandStep ==
    ASSUME HostInv, [NextAll]_vars
    PROVE  CommandInv'
<1> USE DEF CommandInv
<1> DEFINE Passed == \A i \in Runs : Live(i) => Survives(i)
<1>0. record \in Record /\ record' \in Record
  BY NextIsARecordStep DEF HostInv, IInv, TypeOK
\* Steps that put no obligation on the state they lead to.
<1>1. ASSUME step' \in {"idle", "converge", "stop", "complete", "restore"} PROVE CommandInv'
  BY <1>1
<1>2. CASE \/ \E t \in Releases : Install(t) \/ Update(t)
           \/ Rollback \/ Recover \/ Die \/ Quiesce \/ Select \/ Activating \/ Complete
           \/ Restore \/ Abort \/ Healthy \/ Unhealthy \/ RetainPending \/ RetainUnhealthy
  BY <1>1, <1>2 DEF Install, Update, Rollback, Recover, Die, Quiesce, Select, Activating,
                    Complete, Restore, Abort, Healthy, Unhealthy, RetainPending,
                    RetainUnhealthy, Goto
<1>3. CASE Converge
  <2>1. CASE step' \in {"idle", "stop"}
    BY <1>1, <2>1
  <2>2. CASE step' = "before"
    BY <1>3, <2>2 DEF Converge, Inspect, Goto, activationVars, RestoresSource, Source
  <2>3. CASE step' = "stopped"
    BY <1>3, <2>3 DEF Converge, Inspect, Goto, activationVars
  <2> QED BY <1>3, <2>1, <2>2, <2>3 DEF Converge, Inspect, Goto
<1>4. CASE ListRun
  <2>1. PICK i \in unread : /\ unread' = unread \ {i}
                            /\ blocked' = (blocked \/ Blocks(i))
    BY <1>4 DEF ListRun
  <2>2. /\ step \in {"before", "after"} /\ UNCHANGED <<record, runs, step>>
        /\ record.phase = "QUIESCING" /\ ~RestoresSource
    BY <1>4 DEF ListRun, activationVars, work, HostInv
  <2>3. step = "after" /\ ~Blocks(i) /\ i \in Runs => (Live(i) => Survives(i))
    BY DEF Blocks, Live, Survives
  <2>4. step = "after" /\ ~blocked' => \A j \in Runs \ unread' : Live(j) => Survives(j)
    BY <2>1, <2>3 DEF HostInv
  <2> QED BY <2>2, <2>4 DEF Live, Survives, FirstInstall, RestoresSource, Source
<1>5. CASE Inspected
  <2>1. /\ step \in {"before", "after"} /\ UNCHANGED <<record, runs>>
        /\ record.phase = "QUIESCING" /\ ~RestoresSource
        /\ step' = IF blocked THEN "retain"
                   ELSE IF step = "before" THEN "stop" ELSE "quiesce"
    BY <1>5 DEF Inspected, activationVars, work, HostInv
  <2>2. step = "after" /\ ~blocked => Passed
    BY <1>5 DEF Inspected, HostInv
  <2> QED BY <2>1, <2>2 DEF Live, Survives, FirstInstall, RestoresSource, Source
<1>6. CASE Stop
  <2>1. step' = "stopped" /\ running' = None
    BY <1>6 DEF Stop, Goto
  <2> QED BY <2>1
<1>7. CASE InspectAfterStop
  <2>1. record' = record /\ runs' = runs /\ record.phase = "QUIESCING"
    BY <1>7 DEF InspectAfterStop, activationVars, work
  <2>2. CASE RestoresSource
    <3>1. step' = "quiesce"
      BY <1>7, <2>2 DEF InspectAfterStop, Goto
    <3>2. ~FirstInstall
      BY <2>1, <2>2, NoneIsNoRelease
      DEF FirstInstall, RestoresSource, Source, HostInv, IInv, RecordIsReadable, ValidInFlight,
          ValidInstall, ValidChange, InFlight, ChangeChanges, Transition
    <3>3. Passed
      BY <2>1, <2>2, <3>2 DEF HostInv, WorkInv
    <3> QED BY <2>1, <3>1, <3>3 DEF Live, Survives, FirstInstall, Source
  <2>3. CASE ~RestoresSource
    <3>1. step' = "after" /\ unread' = Runs
      BY <1>7, <2>3 DEF InspectAfterStop, Inspect
    <3> QED BY <2>1, <2>3, <3>1 DEF RestoresSource, Source
  <2> QED BY <2>2, <2>3
<1>8. CASE Wire
  <2>1. /\ record' = record /\ record.phase = "QUIESCENT" /\ step' = "select"
        /\ wired' = record.desired /\ running' = running /\ step = "stopped"
    BY <1>8 DEF Wire, Goto, activationVars
  <2> QED BY <2>1 DEF HostInv
<1>9. CASE RetainHealthy
  <2>1. /\ step' = "abort" /\ record' = record /\ wired' = Source
        /\ record.phase = "QUIESCING" /\ ~RestoresSource /\ ~FirstInstall
    BY <1>9 DEF RetainHealthy, Goto, activationVars, HostInv
  <2>2. record.selected = Source
    BY <2>1, SourceIsSelected DEF HostInv
  <2> QED BY <2>1, <2>2
<1>10. CASE ServiceStarts
  <2>1. UNCHANGED <<record, wired, runs, step, unread, blocked>>
    BY <1>10 DEF ServiceStarts, activationVars, work, command
  <2>2. record.phase # "QUIESCENT"
    BY <1>10 DEF ServiceStarts, MayStart, AdmitsService, DrainingSource
  <2> QED BY <2>1, <2>2 DEF HostInv, Live, Survives, FirstInstall, RestoresSource, Source
<1>11. CASE ServiceStops
  <2>1. UNCHANGED <<record, wired, runs, step, unread, blocked>> /\ running' = None
    BY <1>11 DEF ServiceStops, activationVars, work, command
  <2> QED BY <2>1 DEF HostInv, Live, Survives, FirstInstall, RestoresSource, Source
\* Nothing but the service and the runs moves: runs end, and one that is
\* created now is created under a record that is not in flight.
<1>12. ASSUME UNCHANGED <<record, host, command>>,
              \A i \in Runs : Live(i)' => \/ Live(i) /\ runs'[i].release = runs[i].release
                                          \/ record.phase \in {"ABSENT", "ACTIVE"}
       PROVE  CommandInv'
  <2>1. UNCHANGED <<record, wired, running, step, unread, blocked>>
    BY <1>12 DEF host, command
  <2> QED BY <1>12, <2>1 DEF HostInv, Survives, FirstInstall, RestoresSource, Source
<1>13. ASSUME NEW i \in Runs, CreateRun(i) PROVE CommandInv'
  <2>1. /\ UNCHANGED <<record, host, command>>
        /\ AdmitsRun(fences[i].record, fences[i].release)
    BY <1>13 DEF CreateRun, activationVars, HostInv, WorkInv
  <2>2. CASE runs' = runs
    BY <1>12, <2>1, <2>2 DEF Live
  <2>3. CASE FenceHolds(i)
    <3>1. record.phase \in {"ABSENT", "ACTIVE"}
      BY <2>1, <2>3 DEF FenceHolds, AdmitsRun
    <3> QED BY <1>12, <2>1, <3>1
  <2> QED BY <1>13, <2>2, <2>3 DEF CreateRun
<1>14. ASSUME NEW i \in Runs, EndRun(i) PROVE CommandInv'
  <2>1. UNCHANGED <<record, host, command>> /\ runs' = [runs EXCEPT ![i].ended = TRUE]
    BY <1>14 DEF EndRun, activationVars
  <2>2. \A j \in Runs : Live(j)' => Live(j) /\ runs'[j].release = runs[j].release
    BY <2>1 DEF Live, HostInv, HostTypeOK, Run, NoRun
  <2> QED BY <1>12, <2>1, <2>2
<1>15. CASE \/ \E i \in Runs, t \in Releases : AdmitRun(i, t)
            \/ UNCHANGED vars
  <2>1. UNCHANGED <<record, host, command, runs>>
    BY <1>15 DEF AdmitRun, vars, activationVars, work
  <2> QED BY <1>12, <2>1 DEF Live
<1> QED BY <1>2, <1>3, <1>4, <1>5, <1>6, <1>7, <1>8, <1>9, <1>10, <1>11, <1>13, <1>14, <1>15
        DEF NextAll, Drive, Environment

LEMMA HostInit == InitAll => HostInv
<1> SUFFICES ASSUME InitAll PROVE HostInv
  OBVIOUS
<1>1. IInv /\ record = NoRecord
  BY InitIsGood DEF InitAll, Init
<1>2. HostTypeOK
  <2>1. NoFence \in Fence
    BY NoRecordIsRecord DEF NoFence, Fence
  <2>2. NoRun \in Run
    BY DEF NoRun, Run
  <2>3. [release : Releases, ended : {FALSE}] \subseteq Run
    BY DEF Run
  <2>4. runs \in [Runs -> Run]
    BY <2>2, <2>3 DEF InitAll
  <2>5. fences \in [Runs -> Fence]
    BY <2>1 DEF InitAll
  <2>6. /\ wired = None /\ running = None /\ step = "idle"
        /\ unread = {} /\ blocked = FALSE /\ crashes = 0
    BY DEF InitAll
  <2>7. crashes \in 0..MaxCrashes
    BY <2>6, BoundsAreNatural
  <2>8. /\ wired \in Releases \cup {None} /\ running \in Releases \cup {None}
        /\ step \in Steps /\ unread \subseteq Runs /\ blocked \in BOOLEAN
    BY <2>6 DEF Steps
  <2> QED BY <2>4, <2>5, <2>7, <2>8 DEF HostTypeOK
<1>3. WorkInv /\ ServiceInv /\ CommandInv
  BY <1>1 DEF InitAll, NoFence, NoRecord, WorkInv, AdmitsRun, ServiceInv,
              ServiceFollowsSelection, CommandInv
<1> QED BY <1>1, <1>2, <1>3 DEF HostInv

LEMMA HostInductive == SpecAll => []HostInv
<1>1. HostInv /\ [NextAll]_vars => HostInv'
  BY NextIsARecordStep, HostTypeStep, WorkStep, ServiceStep, CommandStep DEF HostInv
<1> QED BY <1>1, HostInit, PTL DEF SpecAll

(***************************************************************************)
(* The commands are a schedule of the record's operations: whatever is         *)
(* interrupted, repeated or retained, the record moves as                     *)
(* LocalApplicationActivation says and by nothing else, so that what is        *)
(* proved of the record holds on the host.                                  *)
(***************************************************************************)
THEOREM CommandsDriveTheRecord == SpecAll => Spec /\ []HostTypeOK
<1>1. InitAll => Init
  BY DEF InitAll
<1>2. HostInv /\ [NextAll]_vars => [Next]_activationVars
  BY NextIsARecordStep DEF HostInv
<1>3. HostInv => HostTypeOK
  BY DEF HostInv
<1> QED BY <1>1, <1>2, <1>3, HostInductive, PTL DEF SpecAll, Spec

(***************************************************************************)
(* NoRunIsLeftBehind: the inspection with the service inactive, which lists    *)
(* the runs one page after another, and the fence a run's creator read are     *)
(* together enough, for any number of runs: a creation that was admitted       *)
(* before the change finds another record version when it commits.            *)
(***************************************************************************)
THEOREM WorkIsDrained == SpecAll => []NoRunIsLeftBehind
<1>1. ASSUME HostInv PROVE NoRunIsLeftBehind
  <2>1. CASE record.phase = "ACTIVE"
    BY <1>1, <2>1 DEF HostInv, WorkInv, Live, NoRunIsLeftBehind, Nonterminal
  <2>2. CASE record.phase \in {"QUIESCENT", "SELECTED", "ACTIVATING"}
    <3>1. \A i \in Nonterminal : FirstInstall /\ runs[i].release = record.desired
      BY <1>1, <2>2 DEF HostInv, WorkInv, Live, Survives, Nonterminal
    <3>2. ~FirstInstall => Nonterminal = {}
      BY <3>1
    <3> QED BY <2>2, <3>1, <3>2 DEF NoRunIsLeftBehind
  <2> QED BY <2>1, <2>2 DEF NoRunIsLeftBehind
<1> QED BY <1>1, HostInductive, PTL

(***************************************************************************)
(* ServiceFollowsSelection: systemd may start the wired unit at any time, and  *)
(* a command die between wiring, selecting and activating; the start fence     *)
(* still lets no other release run than the selected one.                    *)
(***************************************************************************)
THEOREM ServiceIsSelected == SpecAll => []ServiceFollowsSelection
<1>1. HostInv => ServiceFollowsSelection
  BY DEF HostInv, ServiceInv
<1> QED BY <1>1, HostInductive, PTL
=============================================================================
