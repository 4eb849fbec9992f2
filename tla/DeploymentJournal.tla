------------------------- MODULE DeploymentJournal -------------------------
(***************************************************************************)
(* The journal of one single-node deployment on Hetzner                      *)
(* (src/core/runtime/single-node-deployment-journal.js): an append-only      *)
(* chain of records on the operator's machine, one file per generation, of    *)
(* which the last is the authority for every effect on the provider.         *)
(*                                                                         *)
(* A commit names the record it replaces and fails if the next file exists.   *)
(* The commands hold the operation lock, so an operation of the journal and   *)
(* its commit are one step.  A commit that would repeat what is recorded      *)
(* writes nothing.  Releases stand for their desired state, artifact and      *)
(* activation evidence; the rollback slot decides nothing here and is left    *)
(* out.                                                                    *)
(***************************************************************************)
EXTENDS Naturals, FiniteSets

CONSTANTS
    Releases,   \* releases the deployment may be asked to run
    None,       \* no release, no provider identity
    MaxRecords, \* SINGLE_NODE_DEPLOYMENT_JOURNAL_MAX_RECORDS
    Reserve     \* SINGLE_NODE_DEPLOYMENT_JOURNAL_RECOVERY_RECORD_RESERVE

VARIABLE journal
-----------------------------------------------------------------------------
Roles == {"firewall", "primaryIp", "server"}

Addressed == {"primaryIp", "server"}

NextPhases == [planned      |-> {"provisioning", "destroying"},
               provisioning |-> {"provisioned", "destroying"},
               provisioned  |-> {"activating", "destroying"},
               activating   |-> {"active", "destroying"},
               active       |-> {"destroying"},
               destroying   |-> {"destroyed"},
               destroyed    |-> {}]

Phases == DOMAIN NextPhases

\* A role is prepared while only its create fence is recorded; its succeeded
\* attempt and its resource are recorded together, a deletion with the absence.
Resource == [state : {"none", "prepared"}, id : {None}]
                \cup [state : {"present", "absent"}, id : Nat]

Journal == [phase      : Phases,
            generation : 0..(MaxRecords - 1),
            resource   : [Roles -> Resource],
            addressed  : SUBSET Addressed,
            fenced     : SUBSET Roles,
            pinned     : BOOLEAN,
            current    : Releases \cup {None},
            target     : Releases \cup {None},
            proven     : BOOLEAN]

\* read() finds no record.
NoJournal == [phase |-> "none", generation |-> 0]

NoResource == [state |-> "none", id |-> None]

State(r) == journal.resource[r].state

Id(r) == journal.resource[r].id

Prepared == {r \in Roles : State(r) = "prepared"}

\* The release transition is an install until a release is current.
Updating == journal.target # None /\ journal.current # None

Effective == IF journal.target # None THEN journal.target ELSE journal.current

Initialize(t) ==
    /\ journal = NoJournal
    /\ journal' = [phase      |-> "planned",
                   generation |-> 0,
                   resource   |-> [r \in Roles |-> NoResource],
                   addressed  |-> {},
                   fenced     |-> {},
                   pinned     |-> FALSE,
                   current    |-> None,
                   target     |-> t,
                   proven     |-> FALSE]
-----------------------------------------------------------------------------
(***************************************************************************)
(* The checks that every record passes when it is made and when it is read.  *)
(***************************************************************************)
\* The server goes before its address and both before the firewall; a create
\* that is only prepared does not count.
InDestructionOrder(resource, r) ==
    LET gone(s) == resource[s].state # "present" IN
    /\ r = "primaryIp" => gone("server")
    /\ r = "firewall" => gone("server") /\ gone("primaryIp")

Coherent(j) ==
    LET has(r) == j.resource[r].state \in {"present", "absent"} IN
    /\ j.phase \notin {"destroying", "destroyed"} =>
          j.fenced = {} /\ \A r \in Roles : j.resource[r].state # "absent"
    /\ \A r \in j.fenced : has(r) /\ InDestructionOrder(j.resource, r)
    /\ \A r \in Roles : j.resource[r].state = "absent" => InDestructionOrder(j.resource, r)
    /\ \A r \in j.addressed : has(r)
    /\ j.pinned => "primaryIp" \in j.addressed
    /\ j.proven \/ j.current # None => j.pinned
    /\ j.phase = "planned" =>
          j.current = None /\ \A r \in Roles : j.resource[r] = NoResource
    /\ j.phase = "provisioning" => ~j.pinned /\ j.current = None
    /\ j.phase \in {"provisioned", "activating", "active"} =>
          /\ \A r \in Roles : j.resource[r].state = "present"
          /\ "primaryIp" \in j.addressed
    /\ j.phase = "active" => j.current # None
    /\ j.phase = "destroyed" =>
          \A r \in Roles : j.resource[r].state \in {"none", "absent"}

HasRoom == journal.generation + 1 < MaxRecords

\* Records that can still be written.
Room == (MaxRecords - 1) - journal.generation

Write(next) ==
    /\ HasRoom
    /\ Coherent(next)
    /\ journal' = [next EXCEPT !.generation = journal.generation + 1]
-----------------------------------------------------------------------------
(***************************************************************************)
(* One operation per kind of successor.                                    *)
(***************************************************************************)
Advance(phase) ==
    /\ phase \in NextPhases[journal.phase]
    /\ Write([journal EXCEPT !.phase = phase])

\* The fence of a create, recorded before its request is sent.
PrepareMutation(r) ==
    /\ journal.phase = "provisioning"
    /\ State(r) = "none"
    /\ Write([journal EXCEPT !.resource[r].state = "prepared"])

\* Only a definite refusal of the provider removes the fence.
RejectMutation(r) ==
    /\ journal.phase = "provisioning"
    /\ State(r) = "prepared"
    /\ Write([journal EXCEPT !.resource[r].state = "none"])

CompleteMutation(r, id) ==
    /\ journal.phase \in {"provisioning", "destroying"}
    /\ \/ State(r) = "prepared"
          /\ Write([journal EXCEPT !.resource[r] = [state |-> "present", id |-> id]])
       \/ State(r) = "present" /\ Id(r) = id /\ UNCHANGED journal

RecordAddress(r) ==
    /\ journal.phase = "provisioning"
    /\ State(r) = "present"
    /\ Write([journal EXCEPT !.addressed = @ \cup {r}])

\* The host key of the first use is pinned.
RecordSshHost ==
    /\ journal.phase \in {"provisioned", "activating"}
    /\ ~journal.pinned
    /\ Write([journal EXCEPT !.pinned = TRUE])

PrepareDestruction(r) ==
    /\ journal.phase = "destroying"
    /\ \/ r \in journal.fenced /\ UNCHANGED journal
       \/ /\ r \notin journal.fenced
          /\ State(r) = "present"
          /\ Write([journal EXCEPT !.fenced = @ \cup {r}])

RecordDeletion(r) ==
    /\ journal.phase = "destroying"
    /\ State(r) = "present"
    /\ Write([journal EXCEPT !.resource[r].state = "absent"])

MayRecordActivation ==
    /\ journal.target # None
    /\ journal.phase = IF Updating THEN "active" ELSE "activating"

\* The evidence of an activation is determined by the deployment, the desired
\* release and the pinned host, so a second one is the first again: that it is
\* refused when it differs cannot arise and has no step here.
RecordActivation ==
    /\ MayRecordActivation
    /\ \/ journal.proven /\ UNCHANGED journal
       \/ ~journal.proven /\ Write([journal EXCEPT !.proven = TRUE])

SettleRelease ==
    /\ MayRecordActivation
    /\ journal.proven
    /\ Write([journal EXCEPT !.current = journal.target,
                             !.target = None, !.proven = FALSE])

\* A new update takes three records and leaves the reserve untouched.
KeepsReserve == Room >= 3 + Reserve

PrepareUpdate(t) ==
    /\ journal.phase = "active"
    /\ \/ t \in {journal.current, journal.target}
          /\ (journal.target # None => t = journal.target)
          /\ UNCHANGED journal
       \/ /\ journal.target = None
          /\ t # journal.current
          /\ KeepsReserve
          /\ Write([journal EXCEPT !.target = t])

\* The update target is given up; the current release never changed.
AbandonUpdate ==
    /\ journal.phase = "active"
    /\ Updating
    /\ Write([journal EXCEPT !.target = None, !.proven = FALSE])
-----------------------------------------------------------------------------
(***************************************************************************)
(* Records that a destruction from here writes: the phase, each create that   *)
(* is found, a fence and an absence for each resource, the end.               *)
(***************************************************************************)
DestructionRecords ==
    LET left == {r \in Roles : State(r) \in {"prepared", "present"}} IN
    (IF journal.phase = "destroying" THEN 1 ELSE 2)
        + Cardinality(Prepared) + Cardinality(left) + Cardinality(left \ journal.fenced)

(***************************************************************************)
(* The journal reserves records for recovery and destruction                 *)
(* (docs/guides/operational-soak.md): whatever was recorded, an interrupted    *)
(* destruction can still be finished (prepareSingleNodeDeploymentRelease-      *)
(* Update, commit).                                                         *)
(***************************************************************************)
DestructionFits ==
    journal # NoJournal /\ journal.phase # "destroyed" => Room >= DestructionRecords
=============================================================================
