------------------------- MODULE HetznerDeployment -------------------------
(***************************************************************************)
(* Deploying to one Hetzner server: the commands apply, update, recover and   *)
(* destroy (src/core/runtime/providers/hetzner/single-node-apply.js,          *)
(* -destroy.js, -provisioning.js, -destruction.js and                         *)
(* src/core/runtime/single-node-deployment-update.js) over the journal, a     *)
(* provider whose requests are lost or late and whose lists lag, and the      *)
(* server that runs a release.                                             *)
(*                                                                         *)
(* One command runs at a time, under the operation lock, and may fail or die  *)
(* between any two of its effects; the next one starts from the journal.      *)
(* The provider is external: a request takes effect at most once, reading by  *)
(* identity is exact, and others may remove a resource.  No foreign resource   *)
(* carries the names and labels of the deployment.                          *)
(***************************************************************************)
EXTENDS DeploymentJournal

CONSTANTS
    MaxFailures,   \* bound: commands that die or meet an error
    MaxRejections, \* bound: creates the provider refuses
    MaxRemovals    \* bound: resources removed by others

VARIABLES
    made,     \* role -> number of resources ever created; they are numbered
    existing, \* role -> the resources that exist
    listed,   \* role -> the resources that inventory lists show
    asked,    \* role -> creates that were sent, unanswered, and may take effect
    removing, \* roles of which a removal was sent and may take effect
    removed,  \* roles of which others removed a resource
    host,     \* the release the server runs, or None
    command,  \* the command under way
    spent     \* what happened of each bounded event

provider == <<made, existing, listed, asked, removing, removed>>
vars == <<journal, provider, host, command, spent>>
-----------------------------------------------------------------------------
Steps == {"idle", "start", "inventory", "create", "search", "rejected", "record",
          "addresses", "enroll", "activate", "prove", "settle", "finish",
          "reconcile", "check", "remove", "absence", "end"}

Command == [step : Steps, role : Roles, id : Nat \cup {None},
            goal : Releases \cup {None}]

Idle == [step |-> "idle", role |-> "firewall", id |-> None, goal |-> None]

Init ==
    /\ journal = NoJournal
    /\ made = [r \in Roles |-> 0]
    /\ existing = [r \in Roles |-> {}]
    /\ listed = [r \in Roles |-> {}]
    /\ asked = [r \in Roles |-> 0]
    /\ removing = {}
    /\ removed = {}
    /\ host = None
    /\ command = Idle
    /\ spent = [failures |-> 0, rejections |-> 0, removals |-> 0]

At(s) == command.step = s

Goto(s) == command' = [command EXCEPT !.step = s]

GotoRole(s, r) == command' = [command EXCEPT !.step = s, !.role = r]

\* The command throws, or returns.
End == command' = Idle

\* The operation and its commit, or the error of a full journal.
Commit(operation, next) ==
    \/ operation /\ next
    \/ ~HasRoom /\ End /\ UNCHANGED journal

After == [firewall |-> "primaryIp", primaryIp |-> "server"]

Before == [server |-> "primaryIp", primaryIp |-> "firewall"]
-----------------------------------------------------------------------------
(***************************************************************************)
(* Inventory: the lists by name and by labels, and the held identity.        *)
(***************************************************************************)
Matches(r, held) == listed[r] \cup ({held} \cap existing[r])

Absent(r, held) == Matches(r, held) = {}

\* The match, if it is the only one and the held one where one is held.
Exact(r, held) ==
    {id \in Matches(r, held) : Matches(r, held) = {id} /\ held \in {None, id}}
-----------------------------------------------------------------------------
(***************************************************************************)
(* apply: from the journal, or from none if the provider shows nothing.       *)
(***************************************************************************)
BeginApply ==
    /\ At("idle")
    /\ \/ /\ \A r \in Roles : listed[r] = {}
          /\ \E t \in Releases : Initialize(t)
       \/ /\ journal # NoJournal
          /\ journal.phase \notin {"destroying", "destroyed"}
          /\ ~Updating
          /\ UNCHANGED journal
    /\ Goto("start")
    /\ UNCHANGED <<provider, host, spent>>

Start ==
    /\ At("start")
    /\ IF journal.phase = "planned"
       THEN Commit(Advance("provisioning"), Goto("start"))
       ELSE GotoRole("inventory", "firewall") /\ UNCHANGED journal
    /\ UNCHANGED <<provider, host, spent>>

Found(id) == command' = [command EXCEPT !.step = "record", !.id = id]

\* Mutant of Inventory: a fence without a resource is created again.
InventoryForgetsFence == LET r == command.role IN
    /\ At("inventory")
    /\ IF Exact(r, Id(r)) # {}
       THEN \E id \in Exact(r, Id(r)) : Found(id) /\ UNCHANGED journal
       ELSE IF Absent(r, Id(r)) /\ State(r) = "none" /\ journal.phase = "provisioning"
       THEN Commit(PrepareMutation(r), Goto("create"))
       ELSE IF Absent(r, Id(r)) /\ State(r) = "prepared"
       THEN Goto("create") /\ UNCHANGED journal
       ELSE End /\ UNCHANGED journal
    /\ UNCHANGED <<provider, host, spent>>

\* ensureResource: a fence without a resource needs an operator.
Inventory == LET r == command.role IN
    /\ At("inventory")
    /\ IF Exact(r, Id(r)) # {}
       THEN \E id \in Exact(r, Id(r)) : Found(id) /\ UNCHANGED journal
       ELSE IF Absent(r, Id(r)) /\ State(r) = "none" /\ journal.phase = "provisioning"
       THEN Commit(PrepareMutation(r), Goto("create"))
       ELSE End /\ UNCHANGED journal
    /\ UNCHANGED <<provider, host, spent>>

Make(r) ==
    /\ made' = [made EXCEPT ![r] = @ + 1]
    /\ existing' = [existing EXCEPT ![r] = @ \cup {made[r] + 1}]

CreateAnswered == LET r == command.role IN
    /\ At("create")
    /\ Make(r)
    /\ Found(made[r] + 1)
    /\ UNCHANGED <<journal, listed, asked, removing, removed, host, spent>>

CreateRejected ==
    /\ At("create")
    /\ spent.rejections < MaxRejections
    /\ spent' = [spent EXCEPT !.rejections = @ + 1]
    /\ Goto("rejected")
    /\ UNCHANGED <<journal, provider, host>>

\* No answer, or one that does not tell: the request may still take effect.
CreateUnanswered ==
    /\ At("create")
    /\ asked' = [asked EXCEPT ![command.role] = @ + 1]
    /\ \/ Goto("search") /\ UNCHANGED spent
       \/ /\ spent.failures < MaxFailures
          /\ spent' = [spent EXCEPT !.failures = @ + 1]
          /\ End
    /\ UNCHANGED <<journal, made, existing, listed, removing, removed, host>>

\* The create is looked for; one that was refused and is not there is rejected.
Search == LET r == command.role IN
    /\ At("search") \/ At("rejected")
    /\ IF Exact(r, None) # {}
       THEN \E id \in Exact(r, None) : Found(id) /\ UNCHANGED journal
       ELSE IF Absent(r, None) /\ At("rejected") THEN Commit(RejectMutation(r), End)
       ELSE End /\ UNCHANGED journal
    /\ UNCHANGED <<provider, host, spent>>

NextRole(r) ==
    IF r = "server" THEN Goto("addresses") ELSE GotoRole("inventory", After[r])

\* recordResource, then the exact readback of the resource.
Record == LET r == command.role
              found == command.id \in existing[r]
              move == IF found THEN NextRole(r) ELSE End IN
    /\ At("record")
    /\ IF journal.phase = "provisioning" /\ State(r) # "none"
       THEN Commit(CompleteMutation(r, command.id), move)
       ELSE UNCHANGED journal /\ (IF Id(r) = command.id THEN move ELSE End)
    /\ UNCHANGED <<provider, host, spent>>
-----------------------------------------------------------------------------
(***************************************************************************)
(* From the provisioned server to the active release.                      *)
(***************************************************************************)
Addresses ==
    /\ At("addresses")
    /\ \/ /\ journal.phase = "provisioning" /\ journal.addressed = Addressed
          /\ Commit(Advance("provisioned"), Goto("enroll"))
       \/ /\ journal.phase = "provisioning" /\ journal.addressed # Addressed
          /\ LET r == IF "primaryIp" \in journal.addressed THEN "server" ELSE "primaryIp" IN
             Commit(RecordAddress(r), Goto("addresses"))
       \/ journal.phase # "provisioning" /\ Goto("enroll") /\ UNCHANGED journal
    /\ UNCHANGED <<provider, host, spent>>

Enroll ==
    /\ At("enroll")
    /\ \/ ~journal.pinned /\ Commit(RecordSshHost, Goto("enroll"))
       \/ /\ journal.pinned /\ journal.phase = "provisioned"
          /\ Commit(Advance("activating"), Goto("enroll"))
       \/ /\ journal.pinned /\ journal.phase # "provisioned"
          /\ command' = [command EXCEPT !.step = "activate", !.goal = Effective]
          /\ UNCHANGED journal
    /\ UNCHANGED <<provider, host, spent>>

\* The server installs and starts the release, or cannot be reached.
Activate ==
    /\ At("activate")
    /\ IF Id("server") \in existing["server"]
       THEN host' = command.goal /\ Goto("prove")
       ELSE End /\ UNCHANGED host
    /\ UNCHANGED <<journal, provider, spent>>

\* The evidence is recorded for a transition and compared where there is none;
\* a recovery that reactivated the current release gives up the target.
Prove ==
    /\ At("prove")
    /\ \/ journal.target = command.goal /\ Commit(RecordActivation, Goto("settle"))
       \/ journal.target = None /\ Goto("finish") /\ UNCHANGED journal
       \/ journal.target \notin {None, command.goal} /\ Commit(AbandonUpdate, Goto("finish"))
    /\ UNCHANGED <<provider, host, spent>>

Settle ==
    /\ At("settle")
    /\ Commit(SettleRelease, Goto("finish"))
    /\ UNCHANGED <<provider, host, spent>>

Finish ==
    /\ At("finish")
    /\ IF journal.phase = "activating" THEN Commit(Advance("active"), End)
       ELSE End /\ UNCHANGED journal
    /\ UNCHANGED <<provider, host, spent>>
-----------------------------------------------------------------------------
(***************************************************************************)
(* update and recover: over the pinned server, without the provider.         *)
(***************************************************************************)
BeginUpdate(t) ==
    /\ At("idle")
    /\ journal.phase = "active"
    /\ PrepareUpdate(t)
    /\ command' = [command EXCEPT !.step = "activate", !.goal = t]
    /\ UNCHANGED <<provider, host, spent>>

\* Mutant of BeginRestore: the target is given up before current is restored.
BeginRestoreAbandonsFirst ==
    /\ At("idle")
    /\ journal.phase = "active"
    /\ AbandonUpdate
    /\ command' = [command EXCEPT !.step = "activate", !.goal = journal.current]
    /\ UNCHANGED <<provider, host, spent>>

\* recover with the current release while an update is pending.
BeginRestore ==
    /\ At("idle")
    /\ journal.phase = "active"
    /\ Updating
    /\ command' = [command EXCEPT !.step = "activate", !.goal = journal.current]
    /\ UNCHANGED <<journal, provider, host, spent>>
-----------------------------------------------------------------------------
(***************************************************************************)
(* destroy.                                                                *)
(***************************************************************************)
BeginDestroy ==
    /\ At("idle")
    /\ journal # NoJournal
    /\ journal.phase # "destroyed"
    /\ IF journal.phase = "destroying" THEN Goto("reconcile") /\ UNCHANGED journal
       ELSE Commit(Advance("destroying"), Goto("reconcile"))
    /\ UNCHANGED <<provider, host, spent>>

\* Each prepared create is found, or the command ends: it may yet appear.
Reconcile ==
    /\ At("reconcile")
    /\ IF Prepared = {} THEN GotoRole("check", "server") /\ UNCHANGED journal
       ELSE \E r \in Prepared :
          IF Exact(r, None) = {} THEN End /\ UNCHANGED journal
          ELSE \E id \in Exact(r, None) :
                  Commit(CompleteMutation(r, id), Goto("reconcile"))
    /\ UNCHANGED <<provider, host, spent>>

PriorRole(r) ==
    IF r = "firewall" THEN Goto("end") ELSE GotoRole("check", Before[r])

\* Mutant of Check: only a removal of this command counts as a deletion.
CheckNeedsResource == LET r == command.role IN
    /\ At("check")
    /\ IF State(r) # "present" /\ Absent(r, Id(r)) THEN PriorRole(r) /\ UNCHANGED journal
       ELSE IF State(r) = "present" /\ Exact(r, Id(r)) # {}
       THEN Commit(PrepareDestruction(r), Goto("remove"))
       ELSE End /\ UNCHANGED journal
    /\ UNCHANGED <<provider, host, spent>>

\* destroyResource: the removal is fenced, or the absence recorded as it is.
Check == LET r == command.role IN
    /\ At("check")
    /\ IF State(r) = "present" /\ Absent(r, Id(r))
       THEN Commit(RecordDeletion(r), PriorRole(r))
       ELSE IF Absent(r, Id(r)) THEN PriorRole(r) /\ UNCHANGED journal
       ELSE IF State(r) = "present" /\ Exact(r, Id(r)) # {}
       THEN Commit(PrepareDestruction(r), Goto("remove"))
       ELSE End /\ UNCHANGED journal
    /\ UNCHANGED <<provider, host, spent>>

Remove(r) == existing' = [existing EXCEPT ![r] = @ \ {Id(r)}]

RemoveAnswered ==
    /\ At("remove")
    /\ Remove(command.role)
    /\ Goto("absence")
    /\ UNCHANGED <<journal, made, listed, asked, removing, removed, host, spent>>

RemoveUnanswered ==
    /\ At("remove")
    /\ removing' = removing \cup {command.role}
    /\ Goto("absence")
    /\ UNCHANGED <<journal, made, existing, listed, asked, removed, host, spent>>

\* establishAbsence: seen to be absent, or given up after some looks.
Absence == LET r == command.role IN
    /\ At("absence")
    /\ IF Absent(r, Id(r)) THEN Commit(RecordDeletion(r), PriorRole(r))
       ELSE End /\ UNCHANGED journal
    /\ UNCHANGED <<provider, host, spent>>

EndDestroy ==
    /\ At("end")
    /\ Commit(Advance("destroyed"), End)
    /\ UNCHANGED <<provider, host, spent>>
-----------------------------------------------------------------------------
(***************************************************************************)
(* The world around the command.                                           *)
(***************************************************************************)
\* The process dies, loses the lock, or a call it makes throws.
Fail ==
    /\ ~At("idle")
    /\ spent.failures < MaxFailures
    /\ spent' = [spent EXCEPT !.failures = @ + 1]
    /\ End
    /\ UNCHANGED <<journal, provider, host>>

\* A create nobody waits for takes effect, or never does.
CreateLands(r) ==
    /\ asked[r] > 0
    /\ asked' = [asked EXCEPT ![r] = @ - 1]
    /\ Make(r) \/ UNCHANGED <<made, existing>>
    /\ UNCHANGED <<journal, listed, removing, removed, host, command, spent>>

RemovalLands(r) ==
    /\ r \in removing
    /\ removing' = removing \ {r}
    /\ Remove(r) \/ UNCHANGED existing
    /\ UNCHANGED <<journal, made, listed, asked, removed, host, command, spent>>

ListsCatchUp(r) ==
    /\ listed[r] # existing[r]
    /\ listed' = [listed EXCEPT ![r] = existing[r]]
    /\ UNCHANGED <<journal, made, existing, asked, removing, removed, host, command, spent>>

RemovedByOthers(r) ==
    /\ spent.removals < MaxRemovals
    /\ existing[r] # {}
    /\ existing' = [existing EXCEPT ![r] = {}]
    /\ removed' = removed \cup {r}
    /\ spent' = [spent EXCEPT !.removals = @ + 1]
    /\ UNCHANGED <<journal, made, listed, asked, removing, host, command>>

Apply ==
    \/ Start \/ Inventory \/ CreateAnswered \/ CreateRejected \/ CreateUnanswered
    \/ Search \/ Record \/ Addresses \/ Enroll

Converge == Activate \/ Prove \/ Settle \/ Finish

Destroy ==
    \/ Reconcile \/ Check \/ RemoveAnswered \/ RemoveUnanswered
    \/ Absence \/ EndDestroy

Environment == \E r \in Roles :
    CreateLands(r) \/ RemovalLands(r) \/ ListsCatchUp(r) \/ RemovedByOthers(r)

Next ==
    \/ BeginApply \/ BeginRestore \/ BeginDestroy
    \/ \E t \in Releases : BeginUpdate(t)
    \/ Apply \/ Converge \/ Destroy
    \/ Fail
    \/ Environment

Spec == Init /\ [][Next]_vars

(***************************************************************************)
(* Someone runs destroy until it is through; the lists catch up, requests     *)
(* take effect or never do, and a removal sent again and again is answered.   *)
(***************************************************************************)
Fairness ==
    /\ WF_vars(BeginDestroy)
    /\ WF_vars(Destroy)
    /\ SF_vars(RemoveAnswered)
    /\ \A r \in Roles : WF_vars(CreateLands(r)) /\ WF_vars(ListsCatchUp(r))

FairSpec == Spec /\ Fairness
-----------------------------------------------------------------------------
MayExist(r) == existing[r] # {} \/ asked[r] > 0

(***************************************************************************)
(* Nothing is created twice and nothing is lost sight of: a role is created   *)
(* at most once in the life of a deployment, whatever answers are lost, what  *)
(* exists or may come to exist is fenced or named in the journal, and a       *)
(* destroyed deployment leaves nothing behind (ensureResource,               *)
(* reconcileExactHetznerSingleNodeMutationsForDestroy, establishAbsence).     *)
(***************************************************************************)
ResourcesAreAccountedFor ==
    \A r \in Roles :
        /\ made[r] + asked[r] <= 1
        /\ MayExist(r) =>
              /\ journal # NoJournal
              /\ \/ State(r) = "prepared"
                 \/ State(r) = "present" /\ asked[r] = 0 /\ existing[r] = {Id(r)}

(***************************************************************************)
(* The server is never without its firewall and its address, from the order   *)
(* of creation and through a destruction that is interrupted, unless others   *)
(* take one away (HETZNER_SINGLE_NODE_ROLES, the order of destruction).       *)
(***************************************************************************)
ServerIsNeverBare ==
    MayExist("server") =>
        \A r \in {"firewall", "primaryIp"} : existing[r] # {} \/ r \in removed

\* Both, of what the provider holds.
ProviderIsInHand == ResourcesAreAccountedFor /\ ServerIsNeverBare

(***************************************************************************)
(* Whatever dies between the activation of a release and the record of it,    *)
(* the server runs a release the journal names, and no other than the         *)
(* current one once no transition is open (settleSingleNodeDeploymentRelease, *)
(* abandonSingleNodeDeploymentReleaseUpdate).                               *)
(***************************************************************************)
HostRunsKnownRelease ==
    journal # NoJournal =>
        /\ host \in {None, journal.current, journal.target}
        /\ journal.current # None /\ journal.target = None => host = journal.current

(***************************************************************************)
(* destroy that is repeated ends with nothing left, unless a create was sent  *)
(* and lost, which the code cannot tell from one that is late                *)
(* (reconcileExactHetznerSingleNodeMutationsForDestroy).                     *)
(***************************************************************************)
CreateIsLost == \E r \in Prepared : ~MayExist(r)

DestroySettles ==
    (journal.phase = "destroying") ~>
        (journal.phase = "destroyed" \/ (journal # NoJournal /\ CreateIsLost))
=============================================================================
