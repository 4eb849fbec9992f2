----------------------- MODULE HetznerDeploymentProofs -----------------------
(***************************************************************************)
(* Proofs about the deployment of a host, for any releases, journal sizes and  *)
(* bounds: nothing is created twice or lost sight of, the server is never      *)
(* without its firewall and its address, and it runs a release that the        *)
(* journal names.  The deployment is stated where the runs check it, in        *)
(* HostReleases, so its operators are Hetzner!Next and so on.                 *)
(***************************************************************************)
EXTENDS HostReleases, TLAPS

\* What is assumed of the constants.
Assumptions ==
    /\ None \notin Releases
    /\ None \notin Nat
    /\ MaxRecords \in Nat \ {0}
    /\ Reserve \in Nat
    /\ MaxFailures \in Nat /\ MaxRejections \in Nat /\ MaxRemovals \in Nat

LEMMA Assumed == Assumptions
BY NoneIsNoRelease, NoneIsNoIdentity, JournalHoldsReserve, DeploymentBounds DEF Assumptions

Typed ==
    /\ journal \in Hetzner!Journal \cup {Hetzner!NoJournal}
    /\ made \in [Hetzner!Roles -> Nat]
    /\ existing \in [Hetzner!Roles -> SUBSET Nat]
    /\ listed \in [Hetzner!Roles -> SUBSET Nat]
    /\ asked \in [Hetzner!Roles -> Nat]
    /\ removing \subseteq Hetzner!Roles
    /\ removed \subseteq Hetzner!Roles
    /\ serverRelease \in Releases \cup {None}
    /\ operation \in Hetzner!Command
    /\ spent \in [failures : Nat, rejections : Nat, removals : Nat]

\* A resource is the first and only one of its role, and its state in the
\* journal follows what was asked for and what exists.
Accounted(r) ==
    /\ made[r] + asked[r] <= 1
    /\ \A id \in existing[r] \cup listed[r] : id = 1 /\ made[r] = 1
    /\ Hetzner!State(r) = "none" => made[r] = 0 /\ asked[r] = 0
    /\ Hetzner!State(r) = "present" => Hetzner!Id(r) = 1 /\ made[r] = 1
    /\ Hetzner!State(r) = "absent" => made[r] = 1 /\ existing[r] = {}

\* Where the command stands, its role is what it was found to be.
Positioned ==
    LET r == operation.role IN
    /\ Hetzner!At("create") \/ Hetzner!At("rejected") =>
          Hetzner!State(r) = "prepared" /\ made[r] = 0 /\ asked[r] = 0
    /\ Hetzner!At("record") => operation.id = 1 /\ made[r] = 1

Accounting ==
    IF journal = Hetzner!NoJournal
    THEN /\ Hetzner!At("idle") /\ removing = {}
         /\ \A r \in Hetzner!Roles :
               made[r] = 0 /\ asked[r] = 0 /\ existing[r] = {} /\ listed[r] = {}
    ELSE Positioned /\ \A r \in Hetzner!Roles : Accounted(r)

\* The release that is being activated is one the journal names, and the
\* server runs it before the journal says so.
Running ==
    IF journal = Hetzner!NoJournal THEN serverRelease = None
    ELSE /\ serverRelease \in {None, journal.current, journal.target}
         /\ journal.current # None /\ journal.target = None => serverRelease = journal.current
         /\ journal.target # journal.current
         /\ Hetzner!At("activate") =>
               operation.goal \in {journal.current, journal.target} \ {None}
         /\ Hetzner!At("prove") =>
               /\ operation.goal \in {journal.current, journal.target} \ {None}
               /\ serverRelease = operation.goal
         /\ Hetzner!At("settle") => journal.target # None /\ serverRelease = journal.target

IInv == Typed /\ Accounting /\ Running
-----------------------------------------------------------------------------
(***************************************************************************)
(* What each operation does to the journal.                                *)
(***************************************************************************)
Keeps == 
    /\ journal \in Hetzner!Journal
    /\ journal' \in Hetzner!Journal
    /\ journal'.current = journal.current
    /\ journal'.target = journal.target

KeepsAll == Keeps /\ journal'.resource = journal.resource

Sets(r, resource) ==
    Keeps /\ journal'.resource = [journal.resource EXCEPT ![r] = resource]

\* A record of the journal is none of the missing one.
LEMMA JournalIsThere ==
    ASSUME NEW j \in Hetzner!Journal
    PROVE  j # Hetzner!NoJournal
BY DEF Hetzner!Journal, Hetzner!NoJournal, Hetzner!Phases, Hetzner!NextPhases

LEMMA WriteTyped ==
    ASSUME Assumptions, journal \in Hetzner!Journal, NEW next \in Hetzner!Journal,
           Hetzner!Write(next)
    PROVE  /\ journal' \in Hetzner!Journal
           /\ journal' = [next EXCEPT !.generation = journal.generation + 1]
BY DEF Assumptions, Hetzner!Write, Hetzner!HasRoom, Hetzner!Journal

LEMMA AdvanceKeeps ==
    ASSUME Assumptions, journal \in Hetzner!Journal, NEW p, Hetzner!Advance(p)
    PROVE  KeepsAll
<1> DEFINE next == [journal EXCEPT !.phase = p]
<1>1. p \in Hetzner!Phases
    BY DEF Hetzner!Advance, Hetzner!Journal, Hetzner!Phases, Hetzner!NextPhases
<1>2. next \in Hetzner!Journal
    BY <1>1 DEF Hetzner!Journal
<1>3. Hetzner!Write(next)
    BY DEF Hetzner!Advance
<1> QED BY <1>2, <1>3, WriteTyped DEF KeepsAll, Keeps, Hetzner!Journal

LEMMA PrepareMutationSets ==
    ASSUME Assumptions, journal \in Hetzner!Journal, NEW r \in Hetzner!Roles,
           Hetzner!PrepareMutation(r)
    PROVE  /\ Hetzner!State(r) = "none"
           /\ Sets(r, [state |-> "prepared", id |-> None])
<1> DEFINE next == [journal EXCEPT !.resource[r].state = "prepared"]
<1>1. Hetzner!State(r) = "none" /\ Hetzner!Write(next)
    BY DEF Hetzner!PrepareMutation
<1>2. journal.resource[r] = Hetzner!NoResource
    BY <1>1 DEF Hetzner!State, Hetzner!Journal, Hetzner!Resource, Hetzner!NoResource
<1>3. next = [journal EXCEPT !.resource[r] = [state |-> "prepared", id |-> None]]
    BY <1>2 DEF Hetzner!NoResource, Hetzner!Journal
<1>4. next \in Hetzner!Journal
    BY <1>3 DEF Hetzner!Journal, Hetzner!Resource
<1> QED BY <1>1, <1>3, <1>4, WriteTyped DEF Sets, Keeps, Hetzner!Journal

LEMMA RejectMutationSets ==
    ASSUME Assumptions, journal \in Hetzner!Journal, NEW r \in Hetzner!Roles,
           Hetzner!RejectMutation(r)
    PROVE  Sets(r, Hetzner!NoResource)
<1> DEFINE next == [journal EXCEPT !.resource[r].state = "none"]
<1>1. Hetzner!State(r) = "prepared" /\ Hetzner!Write(next)
    BY DEF Hetzner!RejectMutation
<1>2. journal.resource[r] = [state |-> "prepared", id |-> None]
    BY <1>1 DEF Hetzner!State, Hetzner!Journal, Hetzner!Resource
<1>3. next = [journal EXCEPT !.resource[r] = Hetzner!NoResource]
    BY <1>2 DEF Hetzner!NoResource, Hetzner!Journal
<1>4. next \in Hetzner!Journal
    BY <1>3 DEF Hetzner!Journal, Hetzner!Resource, Hetzner!NoResource
<1> QED BY <1>1, <1>3, <1>4, WriteTyped DEF Sets, Keeps, Hetzner!Journal

LEMMA CompleteMutationSets ==
    ASSUME Assumptions, journal \in Hetzner!Journal, NEW r \in Hetzner!Roles, NEW id \in Nat,
           Hetzner!CompleteMutation(r, id)
    PROVE  Sets(r, [state |-> "present", id |-> id])
<1> DEFINE resource == [state |-> "present", id |-> id]
           next == [journal EXCEPT !.resource[r] = resource]
<1>1. CASE Hetzner!State(r) = "prepared" /\ Hetzner!Write(next)
    <2>1. next \in Hetzner!Journal
        BY DEF Hetzner!Journal, Hetzner!Resource
    <2> QED BY <1>1, <2>1, WriteTyped DEF Sets, Keeps, Hetzner!Journal
<1>2. CASE Hetzner!State(r) = "present" /\ Hetzner!Id(r) = id /\ UNCHANGED journal
    <2>1. journal.resource[r] = resource
        BY <1>2 DEF Hetzner!State, Hetzner!Id, Hetzner!Journal, Hetzner!Resource
    <2>2. journal.resource = [journal.resource EXCEPT ![r] = resource]
        BY <2>1 DEF Hetzner!Journal
    <2> QED BY <1>2, <2>2 DEF Sets, Keeps
<1> QED BY <1>1, <1>2 DEF Hetzner!CompleteMutation

LEMMA RecordDeletionSets ==
    ASSUME Assumptions, journal \in Hetzner!Journal, NEW r \in Hetzner!Roles,
           Hetzner!RecordDeletion(r)
    PROVE  /\ Hetzner!State(r) = "present"
           /\ Sets(r, [state |-> "absent", id |-> Hetzner!Id(r)])
<1> DEFINE resource == [state |-> "absent", id |-> Hetzner!Id(r)]
           next == [journal EXCEPT !.resource[r].state = "absent"]
<1>1. Hetzner!State(r) = "present" /\ Hetzner!Write(next)
    BY DEF Hetzner!RecordDeletion
<1>2. journal.resource[r] = [state |-> "present", id |-> Hetzner!Id(r)] /\ Hetzner!Id(r) \in Nat
    BY <1>1 DEF Hetzner!State, Hetzner!Id, Hetzner!Journal, Hetzner!Resource
<1>3. next = [journal EXCEPT !.resource[r] = resource]
    BY <1>2 DEF Hetzner!Journal
<1>4. next \in Hetzner!Journal
    BY <1>2, <1>3 DEF Hetzner!Journal, Hetzner!Resource
<1> QED BY <1>1, <1>3, <1>4, WriteTyped DEF Sets, Keeps, Hetzner!Journal

LEMMA RecordAddressKeeps ==
    ASSUME Assumptions, journal \in Hetzner!Journal, NEW r \in Hetzner!Addressed,
           Hetzner!RecordAddress(r)
    PROVE  KeepsAll
<1> DEFINE next == [journal EXCEPT !.addressed = @ \cup {r}]
<1>1. next \in Hetzner!Journal
    BY DEF Hetzner!Journal
<1>2. Hetzner!Write(next)
    BY DEF Hetzner!RecordAddress
<1> QED BY <1>1, <1>2, WriteTyped DEF KeepsAll, Keeps, Hetzner!Journal

LEMMA RecordSshHostKeeps ==
    ASSUME Assumptions, journal \in Hetzner!Journal, Hetzner!RecordSshHost
    PROVE  KeepsAll
<1> DEFINE next == [journal EXCEPT !.pinned = TRUE]
<1>1. next \in Hetzner!Journal
    BY DEF Hetzner!Journal
<1>2. Hetzner!Write(next)
    BY DEF Hetzner!RecordSshHost
<1> QED BY <1>1, <1>2, WriteTyped DEF KeepsAll, Keeps, Hetzner!Journal

LEMMA PrepareDestructionKeeps ==
    ASSUME Assumptions, journal \in Hetzner!Journal, NEW r \in Hetzner!Roles,
           Hetzner!PrepareDestruction(r)
    PROVE  KeepsAll
<1> DEFINE next == [journal EXCEPT !.fenced = @ \cup {r}]
<1>1. next \in Hetzner!Journal
    BY DEF Hetzner!Journal
<1>2. CASE Hetzner!Write(next)
    BY <1>1, <1>2, WriteTyped DEF KeepsAll, Keeps, Hetzner!Journal
<1>3. CASE UNCHANGED journal
    BY <1>3 DEF KeepsAll, Keeps
<1> QED BY <1>2, <1>3 DEF Hetzner!PrepareDestruction

LEMMA RecordActivationKeeps ==
    ASSUME Assumptions, journal \in Hetzner!Journal, Hetzner!RecordActivation
    PROVE  KeepsAll
<1> DEFINE next == [journal EXCEPT !.proven = TRUE]
<1>1. next \in Hetzner!Journal
    BY DEF Hetzner!Journal
<1>2. CASE Hetzner!Write(next)
    BY <1>1, <1>2, WriteTyped DEF KeepsAll, Keeps, Hetzner!Journal
<1>3. CASE UNCHANGED journal
    BY <1>3 DEF KeepsAll, Keeps
<1> QED BY <1>2, <1>3 DEF Hetzner!RecordActivation

\* The three operations that move the release slots.
Moves(current, target) ==
    /\ journal \in Hetzner!Journal
    /\ journal' \in Hetzner!Journal
    /\ journal'.resource = journal.resource
    /\ journal'.current = current
    /\ journal'.target = target

LEMMA SettleReleaseMoves ==
    ASSUME Assumptions, journal \in Hetzner!Journal, Hetzner!SettleRelease
    PROVE  journal.target # None /\ Moves(journal.target, None)
<1> DEFINE next == [journal EXCEPT !.current = journal.target,
                                   !.target = None, !.proven = FALSE]
<1>1. next \in Hetzner!Journal
    BY DEF Hetzner!Journal
<1>2. Hetzner!Write(next) /\ journal.target # None
    BY DEF Hetzner!SettleRelease, Hetzner!MayRecordActivation
<1> QED BY <1>1, <1>2, WriteTyped DEF Moves, Hetzner!Journal

LEMMA PrepareUpdateMoves ==
    ASSUME Assumptions, journal \in Hetzner!Journal, NEW t \in Releases, Hetzner!PrepareUpdate(t)
    PROVE  \/ UNCHANGED journal /\ t \in {journal.current, journal.target}
           \/ journal.target = None /\ t # journal.current /\ Moves(journal.current, t)
<1> DEFINE next == [journal EXCEPT !.target = t]
<1>1. next \in Hetzner!Journal
    BY DEF Hetzner!Journal
<1>2. CASE t \in {journal.current, journal.target} /\ UNCHANGED journal
    BY <1>2
<1>3. CASE journal.target = None /\ t # journal.current /\ Hetzner!Write(next)
    BY <1>1, <1>3, WriteTyped DEF Moves, Hetzner!Journal
<1> QED BY <1>2, <1>3 DEF Hetzner!PrepareUpdate

LEMMA AbandonUpdateMoves ==
    ASSUME Assumptions, journal \in Hetzner!Journal, Hetzner!AbandonUpdate
    PROVE  Moves(journal.current, None)
<1> DEFINE next == [journal EXCEPT !.target = None, !.proven = FALSE]
<1>1. next \in Hetzner!Journal
    BY DEF Hetzner!Journal
<1>2. Hetzner!Write(next)
    BY DEF Hetzner!AbandonUpdate
<1> QED BY <1>1, <1>2, WriteTyped DEF Moves, Hetzner!Journal
-----------------------------------------------------------------------------
(***************************************************************************)
(* Where the command goes.                                                 *)
(***************************************************************************)
LEMMA GotoTyped ==
    ASSUME operation \in Hetzner!Command, NEW s \in Hetzner!Steps, Hetzner!Goto(s)
    PROVE  operation' \in Hetzner!Command /\ operation'.step = s
BY DEF Hetzner!Goto, Hetzner!Command

LEMMA GotoRoleTyped ==
    ASSUME operation \in Hetzner!Command, NEW s \in Hetzner!Steps, NEW r \in Hetzner!Roles,
           Hetzner!GotoRole(s, r)
    PROVE  operation' \in Hetzner!Command /\ operation'.step = s
BY DEF Hetzner!GotoRole, Hetzner!Command

LEMMA EndTyped ==
    ASSUME Hetzner!End
    PROVE  operation' \in Hetzner!Command /\ operation'.step = "idle"
BY DEF Hetzner!End, Hetzner!Idle, Hetzner!Command, Hetzner!Steps, Hetzner!Roles

LEMMA FoundTyped ==
    ASSUME operation \in Hetzner!Command, NEW id \in Nat, Hetzner!Found(id)
    PROVE  /\ operation' \in Hetzner!Command
           /\ operation'.step = "record" /\ operation'.id = id /\ operation'.role = operation.role
BY DEF Hetzner!Found, Hetzner!Command, Hetzner!Steps

LEMMA NextRoleTyped ==
    ASSUME operation \in Hetzner!Command, NEW r \in Hetzner!Roles, Hetzner!NextRole(r)
    PROVE  operation' \in Hetzner!Command /\ operation'.step \in {"addresses", "inventory"}
<1>1. r # "server" => Hetzner!After[r] \in Hetzner!Roles
    BY DEF Hetzner!After, Hetzner!Roles
<1> QED BY <1>1, GotoTyped, GotoRoleTyped DEF Hetzner!NextRole, Hetzner!Steps

LEMMA PriorRoleTyped ==
    ASSUME operation \in Hetzner!Command, NEW r \in Hetzner!Roles, Hetzner!PriorRole(r)
    PROVE  operation' \in Hetzner!Command /\ operation'.step \in {"end", "check"}
<1>1. r # "firewall" => Hetzner!Before[r] \in Hetzner!Roles
    BY DEF Hetzner!Before, Hetzner!Roles
<1> QED BY <1>1, GotoTyped, GotoRoleTyped DEF Hetzner!PriorRole, Hetzner!Steps

\* A command under way has a journal.
LEMMA CommandHasJournal ==
    ASSUME IInv, ~Hetzner!At("idle")
    PROVE  /\ journal \in Hetzner!Journal
           /\ operation \in Hetzner!Command /\ operation.role \in Hetzner!Roles
           /\ Positioned /\ \A r \in Hetzner!Roles : Accounted(r)
BY DEF IInv, Typed, Accounting, Hetzner!Command

\* The steps at which something is said about the command.
Telling == {"create", "rejected", "record", "activate", "prove", "settle"}

(***************************************************************************)
(* Steps that leave the provider and the host as they are and end at a step   *)
(* of which nothing is said: the resources are kept, or one of them is set.    *)
(***************************************************************************)
LEMMA AccountingKept ==
    ASSUME Accounting, journal \in Hetzner!Journal, journal' \in Hetzner!Journal,
           journal'.resource = journal.resource, UNCHANGED Hetzner!provider, Positioned'
    PROVE  Accounting'
<1>1. journal # Hetzner!NoJournal /\ journal' # Hetzner!NoJournal
    BY JournalIsThere
<1>2. \A r \in Hetzner!Roles : Accounted(r)'
    BY <1>1 DEF Accounting, Accounted, Hetzner!provider, Hetzner!State, Hetzner!Id
<1> QED BY <1>1, <1>2 DEF Accounting

LEMMA AccountingSets ==
    ASSUME Accounting, NEW r \in Hetzner!Roles, NEW resource, Sets(r, resource),
           UNCHANGED Hetzner!provider, Accounted(r)', Positioned'
    PROVE  Accounting'
<1>1. journal # Hetzner!NoJournal /\ journal' # Hetzner!NoJournal
    BY JournalIsThere DEF Sets, Keeps
<1>2. ASSUME NEW s \in Hetzner!Roles, s # r PROVE Accounted(s)'
    <2>1. journal'.resource[s] = journal.resource[s]
        BY <1>2 DEF Sets, Keeps, Hetzner!Journal
    <2> QED BY <2>1, <1>1 DEF Accounting, Accounted, Hetzner!provider, Hetzner!State, Hetzner!Id
<1> QED BY <1>1, <1>2 DEF Accounting

LEMMA RunningKept ==
    ASSUME Running, Keeps, UNCHANGED serverRelease,
           operation'.step \notin {"activate", "prove", "settle"}
    PROVE  Running'
BY JournalIsThere DEF Running, Keeps, Hetzner!At

LEMMA QuietStep ==
    ASSUME IInv, KeepsAll \/ (journal \in Hetzner!Journal /\ UNCHANGED journal),
           UNCHANGED <<Hetzner!provider, serverRelease, spent>>,
           operation' \in Hetzner!Command, operation'.step \notin Telling
    PROVE  IInv'
<1>1. Keeps /\ journal'.resource = journal.resource
    BY DEF KeepsAll, Keeps
<1>2. Positioned'
    BY DEF Positioned, Hetzner!At, Telling
<1>3. Typed'
    BY <1>1 DEF IInv, Typed, Hetzner!provider, Keeps
<1>4. Accounting'
    BY <1>1, <1>2, AccountingKept DEF IInv, Keeps
<1>5. Running'
    BY <1>1, RunningKept DEF IInv, Telling
<1> QED BY <1>3, <1>4, <1>5 DEF IInv

LEMMA SetStep ==
    ASSUME IInv, NEW r \in Hetzner!Roles, NEW resource, Sets(r, resource), Accounted(r)',
           UNCHANGED <<Hetzner!provider, serverRelease, spent>>,
           operation' \in Hetzner!Command, operation'.step \notin Telling
    PROVE  IInv'
<1>1. Keeps
    BY DEF Sets
<1>2. Positioned'
    BY DEF Positioned, Hetzner!At, Telling
<1>3. Typed'
    BY <1>1 DEF IInv, Typed, Hetzner!provider, Keeps
<1>4. Accounting'
    BY <1>2, AccountingSets DEF IInv
<1>5. Running'
    BY <1>1, RunningKept DEF IInv, Telling
<1> QED BY <1>3, <1>4, <1>5 DEF IInv

\* A command that ends with nothing recorded.
LEMMA EndStep ==
    ASSUME IInv, journal \in Hetzner!Journal, Hetzner!End,
           UNCHANGED <<journal, Hetzner!provider, serverRelease, spent>>
    PROVE  IInv'
BY EndTyped, QuietStep DEF Telling
-----------------------------------------------------------------------------
(***************************************************************************)
(* apply.                                                                  *)
(***************************************************************************)
LEMMA InitInv == Assumptions /\ Hetzner!Init => IInv
<1> SUFFICES ASSUME Assumptions, Hetzner!Init PROVE IInv
    OBVIOUS
<1>1. Hetzner!Idle \in Hetzner!Command
    BY DEF Hetzner!Idle, Hetzner!Command, Hetzner!Steps, Hetzner!Roles
<1>2. Typed
    BY <1>1 DEF Hetzner!Init, Typed
<1>3. Accounting
    BY DEF Hetzner!Init, Accounting, Hetzner!At, Hetzner!Idle
<1>4. Running
    BY DEF Hetzner!Init, Running
<1> QED BY <1>2, <1>3, <1>4 DEF IInv

LEMMA BeginApplyStep ==
    ASSUME Assumptions, IInv, Hetzner!BeginApply
    PROVE  IInv'
<1>0. /\ UNCHANGED <<Hetzner!provider, serverRelease, spent>> /\ Hetzner!Goto("start")
      /\ operation \in Hetzner!Command
    BY DEF Hetzner!BeginApply, IInv, Typed
<1>1. operation' \in Hetzner!Command /\ operation'.step = "start"
    BY <1>0, GotoTyped DEF Hetzner!Steps
<1>2. CASE journal # Hetzner!NoJournal /\ UNCHANGED journal
    <2>1. journal \in Hetzner!Journal
        BY <1>2 DEF IInv, Typed
    <2> QED BY <1>0, <1>1, <1>2, <2>1, QuietStep DEF Telling
<1>3. ASSUME NEW t \in Releases, Hetzner!Initialize(t) PROVE IInv'
    <2>1. journal' \in Hetzner!Journal
        BY <1>3
        DEF Hetzner!Initialize, Assumptions, Hetzner!Journal, Hetzner!Phases, Hetzner!NextPhases,
            Hetzner!Resource, Hetzner!NoResource
    <2>2. /\ journal = Hetzner!NoJournal
          /\ journal'.resource = [r \in Hetzner!Roles |-> Hetzner!NoResource]
          /\ journal'.current = None /\ journal'.target = t
        BY <1>3 DEF Hetzner!Initialize
    <2>3. Typed'
        BY <1>0, <1>1, <2>1 DEF IInv, Typed, Hetzner!provider
    <2>4. journal' # Hetzner!NoJournal
        BY <2>1, JournalIsThere
    <2>5. \A r \in Hetzner!Roles : Accounted(r)'
        BY <1>0, <2>2
        DEF IInv, Accounting, Accounted, Hetzner!provider, Hetzner!State, Hetzner!Id,
            Hetzner!NoResource
    <2>6. Positioned'
        BY <1>1 DEF Positioned, Hetzner!At
    <2>7. Accounting'
        BY <2>4, <2>5, <2>6 DEF Accounting
    <2>8. Running'
        BY <1>0, <1>1, <2>2, <2>4 DEF IInv, Running, Hetzner!At, Assumptions
    <2> QED BY <2>3, <2>7, <2>8 DEF IInv
<1> QED BY <1>2, <1>3 DEF Hetzner!BeginApply

\* The operations of the journal that a quiet step commits.
LEMMA StartStep ==
    ASSUME Assumptions, IInv, Hetzner!Start
    PROVE  IInv'
<1>0. /\ UNCHANGED <<Hetzner!provider, serverRelease, spent>> /\ ~Hetzner!At("idle")
      /\ journal \in Hetzner!Journal /\ operation \in Hetzner!Command
    BY CommandHasJournal DEF Hetzner!Start, Hetzner!At
<1>1. CASE Hetzner!Advance("provisioning") /\ Hetzner!Goto("start")
    BY <1>0, <1>1, AdvanceKeeps, GotoTyped, QuietStep DEF Hetzner!Steps, Telling
<1>2. CASE Hetzner!End /\ UNCHANGED journal
    BY <1>0, <1>2, EndStep
<1>3. CASE Hetzner!GotoRole("inventory", "firewall") /\ UNCHANGED journal
    BY <1>0, <1>3, GotoRoleTyped, QuietStep DEF Hetzner!Steps, Telling, Hetzner!Roles
<1> QED BY <1>1, <1>2, <1>3 DEF Hetzner!Start, Hetzner!Commit

\* What an inventory shows is the one resource of the role.
LEMMA ExactIsFirst ==
    ASSUME NEW r \in Hetzner!Roles, Accounted(r), NEW held, NEW id \in Hetzner!Exact(r, held)
    PROVE  id = 1 /\ made[r] = 1
BY DEF Hetzner!Exact, Hetzner!Matches, Accounted

\* A resource that was made but is not in sight may still be there, except
\* where its identity is held.
LEMMA AbsentIsGone ==
    ASSUME NEW r \in Hetzner!Roles, Accounted(r), Hetzner!State(r) = "present",
           Hetzner!Absent(r, Hetzner!Id(r))
    PROVE  existing[r] = {}
BY DEF Accounted, Hetzner!Absent, Hetzner!Matches

\* The step at which a resource was found.
LEMMA FoundStep ==
    ASSUME IInv, journal \in Hetzner!Journal,
           UNCHANGED <<journal, Hetzner!provider, serverRelease, spent>>,
           Hetzner!Found(1), made[operation.role] = 1
    PROVE  IInv'
<1>0. operation \in Hetzner!Command /\ operation.role \in Hetzner!Roles
    BY DEF IInv, Typed, Hetzner!Command
<1>1. operation' \in Hetzner!Command /\ operation'.step = "record"
      /\ operation'.id = 1 /\ operation'.role = operation.role
    BY <1>0, FoundTyped
<1>2. Positioned'
    BY <1>0, <1>1 DEF Positioned, Hetzner!At, Hetzner!provider
<1>3. Typed'
    BY <1>1 DEF IInv, Typed, Hetzner!provider
<1>4. Accounting'
    BY <1>2, AccountingKept DEF IInv
<1>5. Running'
    BY <1>1, RunningKept DEF IInv, Keeps
<1> QED BY <1>3, <1>4, <1>5 DEF IInv

LEMMA InventoryStep ==
    ASSUME Assumptions, IInv, Hetzner!Inventory
    PROVE  IInv'
<1>r. PICK r \in Hetzner!Roles : r = operation.role
    BY CommandHasJournal DEF Hetzner!Inventory, Hetzner!At
<1>0. /\ UNCHANGED <<Hetzner!provider, serverRelease, spent>> /\ ~Hetzner!At("idle")
      /\ journal \in Hetzner!Journal /\ operation \in Hetzner!Command /\ r = operation.role
      /\ Positioned /\ Accounted(r)
    BY <1>r, CommandHasJournal DEF Hetzner!Inventory, Hetzner!At
<1>1. ASSUME NEW id \in Hetzner!Exact(r, Hetzner!Id(r)), Hetzner!Found(id), UNCHANGED journal
      PROVE  IInv'
    BY <1>0, <1>1, ExactIsFirst, FoundStep
<1>2. CASE Hetzner!PrepareMutation(r) /\ Hetzner!Goto("create")
    <2>1. Hetzner!State(r) = "none" /\ Sets(r, [state |-> "prepared", id |-> None])
        BY <1>0, <1>2, PrepareMutationSets
    <2>2. operation' \in Hetzner!Command /\ operation'.step = "create" /\ operation'.role = r
        BY <1>0, <1>2 DEF Hetzner!Goto, Hetzner!Command, Hetzner!Steps
    <2>3. made[r] = 0 /\ asked[r] = 0
        BY <1>0, <2>1 DEF Accounted
    <2>4. journal'.resource[r] = [state |-> "prepared", id |-> None]
        BY <1>0, <2>1 DEF Sets, Keeps, Hetzner!Journal
    <2>5. Accounted(r)'
        BY <1>0, <2>3, <2>4 DEF Accounted, Hetzner!State, Hetzner!provider
    <2>6. Positioned'
        BY <1>0, <2>2, <2>3, <2>4 DEF Positioned, Hetzner!At, Hetzner!State, Hetzner!provider
    <2>7. Typed'
        BY <1>0, <2>1, <2>2 DEF IInv, Typed, Hetzner!provider, Sets, Keeps
    <2>8. Accounting'
        BY <1>0, <2>1, <2>5, <2>6, AccountingSets DEF IInv
    <2>9. Running'
        BY <1>0, <2>1, <2>2, RunningKept DEF IInv, Sets
    <2> QED BY <2>7, <2>8, <2>9 DEF IInv
<1>3. CASE Hetzner!End /\ UNCHANGED journal
    BY <1>0, <1>3, EndStep
<1> QED BY <1>0, <1>1, <1>2, <1>3 DEF Hetzner!Inventory, Hetzner!Commit

LEMMA SearchStep ==
    ASSUME Assumptions, IInv, Hetzner!Search
    PROVE  IInv'
<1>r. PICK r \in Hetzner!Roles : r = operation.role
    BY CommandHasJournal DEF Hetzner!Search, Hetzner!At
<1>0. /\ UNCHANGED <<Hetzner!provider, serverRelease, spent>> /\ ~Hetzner!At("idle")
      /\ journal \in Hetzner!Journal /\ operation \in Hetzner!Command /\ r = operation.role
      /\ Positioned /\ Accounted(r)
    BY <1>r, CommandHasJournal DEF Hetzner!Search, Hetzner!At
<1>1. ASSUME NEW id \in Hetzner!Exact(r, None), Hetzner!Found(id), UNCHANGED journal
      PROVE  IInv'
    BY <1>0, <1>1, ExactIsFirst, FoundStep
<1>2. CASE Hetzner!At("rejected") /\ Hetzner!RejectMutation(r) /\ Hetzner!End
    <2>1. Sets(r, Hetzner!NoResource)
        BY <1>0, <1>2, RejectMutationSets
    <2>2. made[r] = 0 /\ asked[r] = 0
        BY <1>0, <1>2 DEF Positioned
    <2>3. journal'.resource[r] = Hetzner!NoResource
        BY <1>0, <2>1 DEF Sets, Keeps, Hetzner!Journal
    <2>4. Accounted(r)'
        BY <1>0, <2>2, <2>3 DEF Accounted, Hetzner!State, Hetzner!provider, Hetzner!NoResource
    <2> QED BY <1>0, <1>2, <2>1, <2>4, EndTyped, SetStep DEF Telling
<1>3. CASE Hetzner!End /\ UNCHANGED journal
    BY <1>0, <1>3, EndStep
<1> QED BY <1>0, <1>1, <1>2, <1>3 DEF Hetzner!Search, Hetzner!Commit

\* A create that is found is recorded as the resource it is.
LEMMA CompleteStep ==
    ASSUME Assumptions, IInv, journal \in Hetzner!Journal, NEW r \in Hetzner!Roles, made[r] = 1,
           Hetzner!CompleteMutation(r, 1), UNCHANGED <<Hetzner!provider, serverRelease, spent>>,
           operation' \in Hetzner!Command, operation'.step \notin Telling
    PROVE  IInv'
<1>1. Sets(r, [state |-> "present", id |-> 1])
    BY CompleteMutationSets
<1>2. journal'.resource[r] = [state |-> "present", id |-> 1]
    BY <1>1 DEF Sets, Keeps, Hetzner!Journal
<1>3. Accounted(r)
    BY JournalIsThere DEF IInv, Accounting
<1>4. Accounted(r)'
    BY <1>2, <1>3 DEF Accounted, Hetzner!State, Hetzner!Id, Hetzner!provider
<1> QED BY <1>1, <1>4, SetStep

LEMMA RecordStep ==
    ASSUME Assumptions, IInv, Hetzner!Record
    PROVE  IInv'
<1> DEFINE r == operation.role
           move == IF operation.id \in existing[r] THEN Hetzner!NextRole(r) ELSE Hetzner!End
<1>0. /\ UNCHANGED <<Hetzner!provider, serverRelease, spent>> /\ ~Hetzner!At("idle")
      /\ journal \in Hetzner!Journal /\ operation \in Hetzner!Command /\ r \in Hetzner!Roles
      /\ operation.id = 1 /\ made[r] = 1
    BY CommandHasJournal DEF Hetzner!Record, Hetzner!At, Positioned
<1>1. move \/ Hetzner!End => operation' \in Hetzner!Command /\ operation'.step \notin Telling
    BY <1>0, NextRoleTyped, EndTyped DEF Telling
<1>2. CASE Hetzner!CompleteMutation(r, operation.id) /\ move
    BY <1>0, <1>1, <1>2, CompleteStep
<1>3. CASE (move \/ Hetzner!End) /\ UNCHANGED journal
    BY <1>0, <1>1, <1>3, QuietStep
<1> QED BY <1>2, <1>3 DEF Hetzner!Record, Hetzner!Commit

LEMMA AddressesStep ==
    ASSUME Assumptions, IInv, Hetzner!Addresses
    PROVE  IInv'
<1>0. /\ UNCHANGED <<Hetzner!provider, serverRelease, spent>> /\ ~Hetzner!At("idle")
      /\ journal \in Hetzner!Journal /\ operation \in Hetzner!Command
    BY CommandHasJournal DEF Hetzner!Addresses, Hetzner!At
<1>1. CASE Hetzner!Advance("provisioned") /\ Hetzner!Goto("enroll")
    BY <1>0, <1>1, AdvanceKeeps, GotoTyped, QuietStep DEF Hetzner!Steps, Telling
<1>2. ASSUME NEW r \in Hetzner!Addressed, Hetzner!RecordAddress(r), Hetzner!Goto("addresses")
      PROVE  IInv'
    BY <1>0, <1>2, RecordAddressKeeps, GotoTyped, QuietStep DEF Hetzner!Steps, Telling
<1>3. CASE Hetzner!Goto("enroll") /\ UNCHANGED journal
    BY <1>0, <1>3, GotoTyped, QuietStep DEF Hetzner!Steps, Telling
<1>4. CASE Hetzner!End /\ UNCHANGED journal
    BY <1>0, <1>4, EndStep
<1> QED BY <1>1, <1>2, <1>3, <1>4 DEF Hetzner!Addresses, Hetzner!Commit, Hetzner!Addressed

\* A command goes on to activate a release that the journal names.
LEMMA ActivatingStep ==
    ASSUME IInv, journal \in Hetzner!Journal, journal' \in Hetzner!Journal,
           journal'.resource = journal.resource, Running',
           UNCHANGED <<Hetzner!provider, serverRelease, spent>>,
           operation' \in Hetzner!Command, operation'.step = "activate"
    PROVE  IInv'
<1>1. Positioned'
    BY DEF Positioned, Hetzner!At
<1>2. Typed'
    BY DEF IInv, Typed, Hetzner!provider
<1>3. Accounting'
    BY <1>1, AccountingKept DEF IInv
<1> QED BY <1>2, <1>3 DEF IInv

LEMMA EnrollStep ==
    ASSUME Assumptions, IInv, Hetzner!Enroll
    PROVE  IInv'
<1>0. /\ UNCHANGED <<Hetzner!provider, serverRelease, spent>> /\ ~Hetzner!At("idle")
      /\ journal \in Hetzner!Journal /\ operation \in Hetzner!Command
    BY CommandHasJournal DEF Hetzner!Enroll, Hetzner!At
<1>1. CASE (Hetzner!RecordSshHost \/ Hetzner!Advance("activating")) /\ Hetzner!Goto("enroll")
    BY <1>0, <1>1, RecordSshHostKeeps, AdvanceKeeps, GotoTyped, QuietStep
    DEF Hetzner!Steps, Telling
<1>2. CASE Hetzner!End /\ UNCHANGED journal
    BY <1>0, <1>2, EndStep
<1>3. CASE /\ operation' = [operation EXCEPT !.step = "activate", !.goal = Hetzner!Effective]
           /\ UNCHANGED journal
    <2>1. Hetzner!Effective \in {journal.current, journal.target} \ {None}
        BY <1>0, JournalIsThere DEF Hetzner!Effective, IInv, Running
    <2>2. Hetzner!Effective \in Releases
        BY <1>0, <2>1 DEF Hetzner!Journal
    <2>3. /\ operation' \in Hetzner!Command /\ operation'.step = "activate"
          /\ operation'.goal = Hetzner!Effective
        BY <1>0, <1>3, <2>2 DEF Hetzner!Command, Hetzner!Steps
    <2>4. Running'
        BY <1>0, <1>3, <2>1, <2>3, JournalIsThere DEF IInv, Running, Hetzner!At
    <2> QED BY <1>0, <1>3, <2>3, <2>4, ActivatingStep
<1> QED BY <1>1, <1>2, <1>3 DEF Hetzner!Enroll, Hetzner!Commit
-----------------------------------------------------------------------------
(***************************************************************************)
(* The release on the server.                                              *)
(***************************************************************************)
\* The steps from the activation on, which leave the resources as they are.
LEMMA ReleaseStep ==
    ASSUME IInv, journal \in Hetzner!Journal, journal' \in Hetzner!Journal,
           journal'.resource = journal.resource, Running',
           UNCHANGED <<Hetzner!provider, spent>>, serverRelease' \in Releases \cup {None},
           operation' \in Hetzner!Command, operation'.step \in {"idle", "prove", "settle", "finish"}
    PROVE  IInv'
<1>1. Positioned'
    BY DEF Positioned, Hetzner!At
<1>2. Typed'
    BY DEF IInv, Typed, Hetzner!provider
<1>3. Accounting'
    BY <1>1, AccountingKept DEF IInv
<1> QED BY <1>2, <1>3 DEF IInv

LEMMA ActivateStep ==
    ASSUME Assumptions, IInv, Hetzner!Activate
    PROVE  IInv'
<1>0. /\ UNCHANGED <<journal, Hetzner!provider, spent>> /\ Hetzner!At("activate")
      /\ journal \in Hetzner!Journal /\ operation \in Hetzner!Command
      /\ Running
    BY CommandHasJournal DEF Hetzner!Activate, Hetzner!At, IInv
<1>1. CASE serverRelease' = operation.goal /\ Hetzner!Goto("prove")
    <2>1. /\ operation' \in Hetzner!Command /\ operation'.step = "prove"
          /\ operation'.goal = operation.goal
        BY <1>0, <1>1 DEF Hetzner!Goto, Hetzner!Command, Hetzner!Steps
    <2>2. serverRelease' \in Releases
        BY <1>0, <1>1, JournalIsThere DEF Running, Hetzner!Journal
    <2>3. Running'
        BY <1>0, <1>1, <2>1, JournalIsThere DEF Running, Hetzner!At
    <2> QED BY <1>0, <2>1, <2>2, <2>3, ReleaseStep
<1>2. CASE Hetzner!End /\ UNCHANGED serverRelease
    BY <1>0, <1>2, EndStep
<1> QED BY <1>1, <1>2 DEF Hetzner!Activate

LEMMA ProveStep ==
    ASSUME Assumptions, IInv, Hetzner!Prove
    PROVE  IInv'
<1>0. /\ UNCHANGED <<Hetzner!provider, serverRelease, spent>> /\ Hetzner!At("prove")
      /\ journal \in Hetzner!Journal /\ operation \in Hetzner!Command
      /\ Running /\ serverRelease' \in Releases \cup {None}
      /\ journal # Hetzner!NoJournal
    BY CommandHasJournal, JournalIsThere DEF Hetzner!Prove, Hetzner!At, IInv, Typed
<1>1. CASE journal.target = operation.goal /\ Hetzner!RecordActivation /\ Hetzner!Goto("settle")
    <2>1. operation' \in Hetzner!Command /\ operation'.step = "settle"
        BY <1>0, <1>1, GotoTyped DEF Hetzner!Steps
    <2>2. KeepsAll
        BY <1>0, <1>1, RecordActivationKeeps
    <2>3. Running'
        BY <1>0, <1>1, <2>1, <2>2, JournalIsThere DEF Running, Hetzner!At, KeepsAll, Keeps
    <2> QED BY <1>0, <2>1, <2>2, <2>3, ReleaseStep DEF KeepsAll, Keeps
<1>2. CASE journal.target = None /\ Hetzner!Goto("finish") /\ UNCHANGED journal
    BY <1>0, <1>2, GotoTyped, QuietStep DEF Hetzner!Steps, Telling
<1>3. CASE /\ journal.target \notin {None, operation.goal} /\ Hetzner!AbandonUpdate
           /\ Hetzner!Goto("finish")
    <2>1. operation' \in Hetzner!Command /\ operation'.step = "finish"
        BY <1>0, <1>3, GotoTyped DEF Hetzner!Steps
    <2>2. Moves(journal.current, None)
        BY <1>0, <1>3, AbandonUpdateMoves
    <2>3. serverRelease = journal.current /\ serverRelease # None
        BY <1>0, <1>3 DEF Running
    <2>4. Running'
        BY <1>0, <2>1, <2>2, <2>3, JournalIsThere DEF Running, Hetzner!At, Moves
    <2> QED BY <1>0, <2>1, <2>2, <2>4, ReleaseStep DEF Moves
<1>4. CASE Hetzner!End /\ UNCHANGED journal
    BY <1>0, <1>4, EndStep
<1> QED BY <1>1, <1>2, <1>3, <1>4 DEF Hetzner!Prove, Hetzner!Commit

LEMMA SettleStep ==
    ASSUME Assumptions, IInv, Hetzner!Settle
    PROVE  IInv'
<1>0. /\ UNCHANGED <<Hetzner!provider, serverRelease, spent>> /\ Hetzner!At("settle")
      /\ journal \in Hetzner!Journal /\ operation \in Hetzner!Command
      /\ Running /\ serverRelease' \in Releases \cup {None}
      /\ journal # Hetzner!NoJournal
    BY CommandHasJournal, JournalIsThere DEF Hetzner!Settle, Hetzner!At, IInv, Typed
<1>1. CASE Hetzner!SettleRelease /\ Hetzner!Goto("finish")
    <2>1. operation' \in Hetzner!Command /\ operation'.step = "finish"
        BY <1>0, <1>1, GotoTyped DEF Hetzner!Steps
    <2>2. Moves(journal.target, None)
        BY <1>0, <1>1, SettleReleaseMoves
    <2>3. Running'
        BY <1>0, <2>1, <2>2, JournalIsThere DEF Running, Hetzner!At, Moves
    <2> QED BY <1>0, <2>1, <2>2, <2>3, ReleaseStep DEF Moves
<1>2. CASE Hetzner!End /\ UNCHANGED journal
    BY <1>0, <1>2, EndStep
<1> QED BY <1>1, <1>2 DEF Hetzner!Settle, Hetzner!Commit

LEMMA FinishStep ==
    ASSUME Assumptions, IInv, Hetzner!Finish
    PROVE  IInv'
<1>0. /\ UNCHANGED <<Hetzner!provider, serverRelease, spent>>
      /\ journal \in Hetzner!Journal /\ operation \in Hetzner!Command
    BY CommandHasJournal DEF Hetzner!Finish, Hetzner!At
<1>1. CASE Hetzner!Advance("active") /\ Hetzner!End
    BY <1>0, <1>1, AdvanceKeeps, EndTyped, QuietStep DEF Telling
<1>2. CASE Hetzner!End /\ UNCHANGED journal
    BY <1>0, <1>2, EndStep
<1> QED BY <1>1, <1>2 DEF Hetzner!Finish, Hetzner!Commit

\* A journal that has a phase is there.
LEMMA ActiveIsThere ==
    ASSUME IInv, journal.phase = "active"
    PROVE  /\ journal \in Hetzner!Journal /\ journal # Hetzner!NoJournal
           /\ operation \in Hetzner!Command
BY DEF IInv, Typed, Hetzner!NoJournal

LEMMA BeginUpdateStep ==
    ASSUME Assumptions, IInv, NEW t \in Releases, Hetzner!BeginUpdate(t)
    PROVE  IInv'
<1>0. /\ UNCHANGED <<Hetzner!provider, serverRelease, spent>> /\ Hetzner!PrepareUpdate(t)
      /\ journal \in Hetzner!Journal /\ journal # Hetzner!NoJournal
      /\ operation \in Hetzner!Command /\ Running
    BY ActiveIsThere DEF Hetzner!BeginUpdate, IInv
<1>1. operation' \in Hetzner!Command /\ operation'.step = "activate" /\ operation'.goal = t
    BY <1>0 DEF Hetzner!BeginUpdate, Hetzner!Command, Hetzner!Steps
<1>2. t # None
    BY DEF Assumptions
<1>3. CASE UNCHANGED journal /\ t \in {journal.current, journal.target}
    <2>1. Running'
        BY <1>0, <1>1, <1>2, <1>3 DEF Running, Hetzner!At
    <2> QED BY <1>0, <1>1, <1>3, <2>1, ActivatingStep
<1>4. CASE journal.target = None /\ t # journal.current /\ Moves(journal.current, t)
    <2>1. Running'
        BY <1>0, <1>1, <1>2, <1>4, JournalIsThere DEF Running, Hetzner!At, Moves
    <2> QED BY <1>0, <1>1, <1>4, <2>1, ActivatingStep DEF Moves
<1> QED BY <1>0, <1>3, <1>4, PrepareUpdateMoves

LEMMA BeginRestoreStep ==
    ASSUME Assumptions, IInv, Hetzner!BeginRestore
    PROVE  IInv'
<1>0. /\ UNCHANGED <<journal, Hetzner!provider, serverRelease, spent>> /\ journal.current # None
      /\ journal \in Hetzner!Journal /\ journal # Hetzner!NoJournal
      /\ operation \in Hetzner!Command /\ Running
    BY ActiveIsThere DEF Hetzner!BeginRestore, Hetzner!Updating, IInv
<1>1. journal.current \in Releases
    BY <1>0 DEF Hetzner!Journal
<1>2. /\ operation' \in Hetzner!Command /\ operation'.step = "activate"
      /\ operation'.goal = journal.current
    BY <1>0, <1>1 DEF Hetzner!BeginRestore, Hetzner!Command, Hetzner!Steps
<1>3. Running'
    BY <1>0, <1>2 DEF Running, Hetzner!At
<1> QED BY <1>0, <1>2, <1>3, ActivatingStep
-----------------------------------------------------------------------------
(***************************************************************************)
(* destroy.                                                                *)
(***************************************************************************)
LEMMA BeginDestroyStep ==
    ASSUME Assumptions, IInv, Hetzner!BeginDestroy
    PROVE  IInv'
<1>0. /\ UNCHANGED <<Hetzner!provider, serverRelease, spent>>
      /\ journal \in Hetzner!Journal /\ operation \in Hetzner!Command
    BY DEF Hetzner!BeginDestroy, IInv, Typed
<1>1. CASE (Hetzner!Advance("destroying") \/ UNCHANGED journal) /\ Hetzner!Goto("reconcile")
    BY <1>0, <1>1, AdvanceKeeps, GotoTyped, QuietStep DEF Hetzner!Steps, Telling
<1>2. CASE Hetzner!End /\ UNCHANGED journal
    BY <1>0, <1>2, EndStep
<1> QED BY <1>1, <1>2 DEF Hetzner!BeginDestroy, Hetzner!Commit

LEMMA ReconcileStep ==
    ASSUME Assumptions, IInv, Hetzner!Reconcile
    PROVE  IInv'
<1>0. /\ UNCHANGED <<Hetzner!provider, serverRelease, spent>> /\ ~Hetzner!At("idle")
      /\ journal \in Hetzner!Journal /\ operation \in Hetzner!Command
      /\ \A r \in Hetzner!Roles : Accounted(r)
    BY CommandHasJournal DEF Hetzner!Reconcile, Hetzner!At
<1>1. CASE Hetzner!GotoRole("check", "server") /\ UNCHANGED journal
    BY <1>0, <1>1, GotoRoleTyped, QuietStep DEF Hetzner!Steps, Telling, Hetzner!Roles
<1>2. CASE Hetzner!End /\ UNCHANGED journal
    BY <1>0, <1>2, EndStep
<1>3. ASSUME NEW r \in Hetzner!Prepared, NEW id \in Hetzner!Exact(r, None),
             Hetzner!CompleteMutation(r, id), Hetzner!Goto("reconcile")
      PROVE  IInv'
    <2>1. r \in Hetzner!Roles
        BY DEF Hetzner!Prepared
    <2>2. id = 1 /\ made[r] = 1
        BY <1>0, <2>1, ExactIsFirst
    <2>3. operation' \in Hetzner!Command /\ operation'.step = "reconcile"
        BY <1>0, <1>3, GotoTyped DEF Hetzner!Steps
    <2> QED BY <1>0, <1>3, <2>1, <2>2, <2>3, CompleteStep DEF Telling
<1> QED BY <1>1, <1>2, <1>3 DEF Hetzner!Reconcile, Hetzner!Commit

\* What is absent from every inventory is recorded as deleted.
LEMMA DeletionStep ==
    ASSUME Assumptions, IInv, journal \in Hetzner!Journal, NEW r \in Hetzner!Roles,
           Hetzner!Absent(r, Hetzner!Id(r)), Hetzner!RecordDeletion(r),
           UNCHANGED <<Hetzner!provider, serverRelease, spent>>,
           operation' \in Hetzner!Command, operation'.step \notin Telling
    PROVE  IInv'
<1>1. Hetzner!State(r) = "present" /\ Sets(r, [state |-> "absent", id |-> Hetzner!Id(r)])
    BY RecordDeletionSets
<1>2. Accounted(r)
    BY JournalIsThere DEF IInv, Accounting
<1>3. journal'.resource[r] = [state |-> "absent", id |-> Hetzner!Id(r)]
    BY <1>1 DEF Sets, Keeps, Hetzner!Journal
<1>4. existing[r] = {} /\ made[r] = 1
    BY <1>1, <1>2, AbsentIsGone DEF Accounted
<1>5. Accounted(r)'
    BY <1>2, <1>3, <1>4 DEF Accounted, Hetzner!State, Hetzner!provider
<1> QED BY <1>1, <1>5, SetStep

LEMMA CheckStep ==
    ASSUME Assumptions, IInv, Hetzner!Check
    PROVE  IInv'
<1>r. PICK r \in Hetzner!Roles : r = operation.role
    BY CommandHasJournal DEF Hetzner!Check, Hetzner!At
<1>0. /\ UNCHANGED <<Hetzner!provider, serverRelease, spent>>
      /\ journal \in Hetzner!Journal /\ operation \in Hetzner!Command
    BY CommandHasJournal DEF Hetzner!Check, Hetzner!At
<1>1. CASE Hetzner!Absent(r, Hetzner!Id(r)) /\ Hetzner!RecordDeletion(r) /\ Hetzner!PriorRole(r)
    BY <1>0, <1>1, PriorRoleTyped, DeletionStep DEF Telling
<1>2. CASE Hetzner!PriorRole(r) /\ UNCHANGED journal
    BY <1>0, <1>2, PriorRoleTyped, QuietStep DEF Telling
<1>3. CASE Hetzner!PrepareDestruction(r) /\ Hetzner!Goto("remove")
    BY <1>0, <1>3, PrepareDestructionKeeps, GotoTyped, QuietStep DEF Hetzner!Steps, Telling
<1>4. CASE Hetzner!End /\ UNCHANGED journal
    BY <1>0, <1>4, EndStep
<1> QED BY <1>r, <1>1, <1>2, <1>3, <1>4 DEF Hetzner!Check, Hetzner!Commit

LEMMA AbsenceStep ==
    ASSUME Assumptions, IInv, Hetzner!Absence
    PROVE  IInv'
<1>r. PICK r \in Hetzner!Roles : r = operation.role
    BY CommandHasJournal DEF Hetzner!Absence, Hetzner!At
<1>0. /\ UNCHANGED <<Hetzner!provider, serverRelease, spent>>
      /\ journal \in Hetzner!Journal /\ operation \in Hetzner!Command
    BY CommandHasJournal DEF Hetzner!Absence, Hetzner!At
<1>1. CASE Hetzner!Absent(r, Hetzner!Id(r)) /\ Hetzner!RecordDeletion(r) /\ Hetzner!PriorRole(r)
    BY <1>0, <1>1, PriorRoleTyped, DeletionStep DEF Telling
<1>2. CASE Hetzner!End /\ UNCHANGED journal
    BY <1>0, <1>2, EndStep
<1> QED BY <1>r, <1>1, <1>2 DEF Hetzner!Absence, Hetzner!Commit

LEMMA EndDestroyStep ==
    ASSUME Assumptions, IInv, Hetzner!EndDestroy
    PROVE  IInv'
<1>0. /\ UNCHANGED <<Hetzner!provider, serverRelease, spent>>
      /\ journal \in Hetzner!Journal /\ operation \in Hetzner!Command
    BY CommandHasJournal DEF Hetzner!EndDestroy, Hetzner!At
<1>1. CASE Hetzner!Advance("destroyed") /\ Hetzner!End
    BY <1>0, <1>1, AdvanceKeeps, EndTyped, QuietStep DEF Telling
<1>2. CASE Hetzner!End /\ UNCHANGED journal
    BY <1>0, <1>2, EndStep
<1> QED BY <1>1, <1>2 DEF Hetzner!EndDestroy, Hetzner!Commit
-----------------------------------------------------------------------------
(***************************************************************************)
(* The provider and the failures.                                          *)
(***************************************************************************)
\* Steps of the provider, which the journal does not see.
LEMMA ProviderStep ==
    ASSUME IInv, journal \in Hetzner!Journal, Typed', UNCHANGED <<journal, serverRelease>>,
           Positioned', \A r \in Hetzner!Roles : Accounted(r)',
           operation' = operation \/ operation'.step \notin {"activate", "prove", "settle"}
    PROVE  IInv'
<1>1. journal # Hetzner!NoJournal /\ journal' # Hetzner!NoJournal
    BY JournalIsThere
<1>2. Accounting'
    BY <1>1 DEF Accounting
<1>3. Running'
    BY <1>1 DEF IInv, Running, Hetzner!At
<1> QED BY <1>2, <1>3 DEF IInv

LEMMA CreateAnsweredStep ==
    ASSUME Assumptions, IInv, Hetzner!CreateAnswered
    PROVE  IInv'
<1>r. PICK r \in Hetzner!Roles : r = operation.role
    BY CommandHasJournal DEF Hetzner!CreateAnswered, Hetzner!At
<1>0. /\ UNCHANGED <<journal, listed, asked, removing, removed, serverRelease, spent>>
      /\ journal \in Hetzner!Journal /\ operation \in Hetzner!Command /\ Typed
      /\ \A s \in Hetzner!Roles : Accounted(s)
    BY CommandHasJournal DEF Hetzner!CreateAnswered, Hetzner!At, IInv
<1>1. Hetzner!State(r) = "prepared" /\ made[r] = 0 /\ asked[r] = 0
    BY <1>r, CommandHasJournal DEF Hetzner!CreateAnswered, Hetzner!At, Positioned
<1>2. /\ made' = [made EXCEPT ![r] = 1]
      /\ existing' = [existing EXCEPT ![r] = @ \cup {1}]
      /\ Hetzner!Found(1)
    BY <1>r, <1>1 DEF Hetzner!CreateAnswered, Hetzner!Make
<1>3. /\ operation' \in Hetzner!Command /\ operation'.step = "record"
      /\ operation'.id = 1 /\ operation'.role = r
    BY <1>r, <1>0, <1>2, FoundTyped
<1>4. Typed'
    BY <1>0, <1>2, <1>3 DEF Typed
<1>5. ASSUME NEW s \in Hetzner!Roles PROVE Accounted(s)'
    <2>1. CASE s = r
        BY <1>0, <1>1, <1>2, <2>1 DEF Accounted, Hetzner!State, Hetzner!Id, Typed
    <2>2. CASE s # r
        BY <1>0, <1>2, <2>2 DEF Accounted, Hetzner!State, Hetzner!Id, Typed
    <2> QED BY <2>1, <2>2
<1>6. Positioned'
    BY <1>0, <1>2, <1>3 DEF Positioned, Hetzner!At, Typed
<1> QED BY <1>0, <1>3, <1>4, <1>5, <1>6, ProviderStep

LEMMA CreateRejectedStep ==
    ASSUME Assumptions, IInv, Hetzner!CreateRejected
    PROVE  IInv'
<1>0. /\ UNCHANGED <<journal, Hetzner!provider, serverRelease>> /\ Hetzner!Goto("rejected")
      /\ spent' = [spent EXCEPT !.rejections = @ + 1]
      /\ journal \in Hetzner!Journal /\ operation \in Hetzner!Command /\ Typed
      /\ Hetzner!At("create")
      /\ Positioned /\ \A s \in Hetzner!Roles : Accounted(s)
    BY CommandHasJournal DEF Hetzner!CreateRejected, Hetzner!At, IInv
<1>1. /\ operation' \in Hetzner!Command /\ operation'.step = "rejected"
      /\ operation'.role = operation.role
    BY <1>0 DEF Hetzner!Goto, Hetzner!Command, Hetzner!Steps
<1>2. Typed'
    BY <1>0, <1>1 DEF Typed, Hetzner!provider
<1>3. \A s \in Hetzner!Roles : Accounted(s)'
    BY <1>0 DEF Accounted, Hetzner!State, Hetzner!Id, Hetzner!provider
<1>4. Positioned'
    BY <1>0, <1>1 DEF Positioned, Hetzner!At, Hetzner!State, Hetzner!provider
<1> QED BY <1>0, <1>1, <1>2, <1>3, <1>4, ProviderStep

LEMMA CreateUnansweredStep ==
    ASSUME Assumptions, IInv, Hetzner!CreateUnanswered
    PROVE  IInv'
<1>r. PICK r \in Hetzner!Roles : r = operation.role
    BY CommandHasJournal DEF Hetzner!CreateUnanswered, Hetzner!At
<1>0. /\ UNCHANGED <<journal, made, existing, listed, removing, removed, serverRelease>>
      /\ asked' = [asked EXCEPT ![r] = @ + 1]
      /\ journal \in Hetzner!Journal /\ operation \in Hetzner!Command /\ Typed
      /\ \A s \in Hetzner!Roles : Accounted(s)
    BY <1>r, CommandHasJournal DEF Hetzner!CreateUnanswered, Hetzner!At, IInv
<1>1. Hetzner!State(r) = "prepared" /\ made[r] = 0 /\ asked[r] = 0
    BY <1>r, CommandHasJournal DEF Hetzner!CreateUnanswered, Hetzner!At, Positioned
<1>2. /\ operation' \in Hetzner!Command /\ operation'.step \in {"search", "idle"}
      /\ spent' \in [failures : Nat, rejections : Nat, removals : Nat]
    BY <1>0, GotoTyped, EndTyped DEF Hetzner!CreateUnanswered, Hetzner!Steps, Typed
<1>3. Typed'
    BY <1>0, <1>2 DEF Typed
<1>4. ASSUME NEW s \in Hetzner!Roles PROVE Accounted(s)'
    <2>1. CASE s = r
        BY <1>0, <1>1, <2>1 DEF Accounted, Hetzner!State, Hetzner!Id, Typed
    <2>2. CASE s # r
        BY <1>0, <2>2 DEF Accounted, Hetzner!State, Hetzner!Id, Typed
    <2> QED BY <2>1, <2>2
<1>5. Positioned'
    BY <1>2 DEF Positioned, Hetzner!At
<1> QED BY <1>0, <1>2, <1>3, <1>4, <1>5, ProviderStep

LEMMA RemoveAnsweredStep ==
    ASSUME Assumptions, IInv, Hetzner!RemoveAnswered
    PROVE  IInv'
<1>r. PICK r \in Hetzner!Roles : r = operation.role
    BY CommandHasJournal DEF Hetzner!RemoveAnswered, Hetzner!At
<1>0. /\ UNCHANGED <<journal, made, listed, asked, removing, removed, serverRelease, spent>>
      /\ existing' = [existing EXCEPT ![r] = @ \ {Hetzner!Id(r)}]
      /\ journal \in Hetzner!Journal /\ operation \in Hetzner!Command /\ Typed
      /\ \A s \in Hetzner!Roles : Accounted(s)
    BY <1>r, CommandHasJournal DEF Hetzner!RemoveAnswered, Hetzner!Remove, Hetzner!At, IInv
<1>1. operation' \in Hetzner!Command /\ operation'.step = "absence"
    BY <1>0, GotoTyped DEF Hetzner!RemoveAnswered, Hetzner!Steps
<1>2. Typed'
    BY <1>0, <1>1 DEF Typed
<1>3. \A s \in Hetzner!Roles : Accounted(s)'
    BY <1>0 DEF Accounted, Hetzner!State, Hetzner!Id, Typed
<1>4. Positioned'
    BY <1>1 DEF Positioned, Hetzner!At
<1> QED BY <1>0, <1>1, <1>2, <1>3, <1>4, ProviderStep

LEMMA RemoveUnansweredStep ==
    ASSUME Assumptions, IInv, Hetzner!RemoveUnanswered
    PROVE  IInv'
<1>0. /\ UNCHANGED <<journal, made, existing, listed, asked, removed, serverRelease, spent>>
      /\ removing' = removing \cup {operation.role}
      /\ journal \in Hetzner!Journal /\ operation \in Hetzner!Command
      /\ operation.role \in Hetzner!Roles /\ Typed
      /\ \A s \in Hetzner!Roles : Accounted(s)
    BY CommandHasJournal DEF Hetzner!RemoveUnanswered, Hetzner!At, IInv
<1>1. operation' \in Hetzner!Command /\ operation'.step = "absence"
    BY <1>0, GotoTyped DEF Hetzner!RemoveUnanswered, Hetzner!Steps
<1>2. Typed'
    BY <1>0, <1>1 DEF Typed
<1>3. \A s \in Hetzner!Roles : Accounted(s)'
    BY <1>0 DEF Accounted, Hetzner!State, Hetzner!Id
<1>4. Positioned'
    BY <1>1 DEF Positioned, Hetzner!At
<1> QED BY <1>0, <1>1, <1>2, <1>3, <1>4, ProviderStep

LEMMA FailStep ==
    ASSUME Assumptions, IInv, Hetzner!Fail
    PROVE  IInv'
<1>0. /\ UNCHANGED <<journal, Hetzner!provider, serverRelease>> /\ Hetzner!End
      /\ spent' = [spent EXCEPT !.failures = @ + 1]
      /\ journal \in Hetzner!Journal /\ Typed /\ \A s \in Hetzner!Roles : Accounted(s)
    BY CommandHasJournal DEF Hetzner!Fail, IInv
<1>1. operation' \in Hetzner!Command /\ operation'.step = "idle"
    BY <1>0, EndTyped
<1>2. Typed'
    BY <1>0, <1>1 DEF Typed, Hetzner!provider
<1>3. \A s \in Hetzner!Roles : Accounted(s)'
    BY <1>0 DEF Accounted, Hetzner!State, Hetzner!Id, Hetzner!provider
<1>4. Positioned'
    BY <1>1 DEF Positioned, Hetzner!At
<1> QED BY <1>0, <1>1, <1>2, <1>3, <1>4, ProviderStep

\* The provider moves only once something was asked of it.
LEMMA WorldHasJournal ==
    ASSUME IInv, NEW r \in Hetzner!Roles,
           asked[r] > 0 \/ r \in removing \/ existing[r] # {} \/ listed[r] # {}
    PROVE  /\ journal \in Hetzner!Journal /\ Typed /\ Positioned
           /\ operation.role \in Hetzner!Roles /\ \A s \in Hetzner!Roles : Accounted(s)
BY DEF IInv, Typed, Accounting, Hetzner!Command

LEMMA CreateLandsStep ==
    ASSUME Assumptions, IInv, NEW r \in Hetzner!Roles, Hetzner!CreateLands(r)
    PROVE  IInv'
<1>0. /\ UNCHANGED <<journal, listed, removing, removed, serverRelease, operation, spent>>
      /\ asked[r] > 0 /\ asked' = [asked EXCEPT ![r] = @ - 1]
      /\ journal \in Hetzner!Journal /\ Typed /\ Positioned /\ operation.role \in Hetzner!Roles
      /\ \A s \in Hetzner!Roles : Accounted(s)
    BY WorldHasJournal DEF Hetzner!CreateLands
<1>1. made[r] = 0 /\ asked[r] = 1 /\ Hetzner!State(r) \notin {"none", "present", "absent"}
    BY <1>0 DEF Accounted, Typed
<1>2. CASE UNCHANGED <<made, existing>>
    <2>1. Typed'
        BY <1>0, <1>1, <1>2 DEF Typed
    <2>2. \A s \in Hetzner!Roles : Accounted(s)'
        BY <1>0, <1>1, <1>2 DEF Accounted, Hetzner!State, Hetzner!Id, Typed
    <2>3. Positioned'
        BY <1>0, <1>1, <1>2 DEF Positioned, Hetzner!At, Hetzner!State, Typed
    <2> QED BY <1>0, <2>1, <2>2, <2>3, ProviderStep
<1>3. CASE Hetzner!Make(r)
    <2>0. /\ made' = [made EXCEPT ![r] = 1]
          /\ existing' = [existing EXCEPT ![r] = @ \cup {1}]
        BY <1>1, <1>3 DEF Hetzner!Make
    <2>1. Typed'
        BY <1>0, <1>1, <2>0 DEF Typed
    <2>2. ASSUME NEW s \in Hetzner!Roles PROVE Accounted(s)'
        <3>1. CASE s = r
            BY <1>0, <1>1, <2>0, <3>1 DEF Accounted, Hetzner!State, Hetzner!Id, Typed
        <3>2. CASE s # r
            BY <1>0, <2>0, <3>2 DEF Accounted, Hetzner!State, Hetzner!Id, Typed
        <3> QED BY <3>1, <3>2
    <2>3. Positioned'
        BY <1>0, <1>1, <2>0 DEF Positioned, Hetzner!At, Hetzner!State, Typed
    <2> QED BY <1>0, <2>1, <2>2, <2>3, ProviderStep
<1> QED BY <1>2, <1>3 DEF Hetzner!CreateLands

\* Steps that only take resources away, or show them.
LEMMA ShrinkingStep ==
    ASSUME IInv, journal \in Hetzner!Journal, Typed', Positioned, operation.role \in Hetzner!Roles,
           \A s \in Hetzner!Roles : Accounted(s),
           UNCHANGED <<journal, made, asked, serverRelease, operation>>,
           \A s \in Hetzner!Roles : /\ existing'[s] \subseteq existing[s]
                             /\ listed'[s] \subseteq existing[s] \cup listed[s]
    PROVE  IInv'
<1>1. \A s \in Hetzner!Roles : Accounted(s)'
    BY DEF Accounted, Hetzner!State, Hetzner!Id
<1>2. Positioned'
    BY DEF Positioned, Hetzner!At, Hetzner!State
<1> QED BY <1>1, <1>2, ProviderStep

LEMMA RemovalLandsStep ==
    ASSUME Assumptions, IInv, NEW r \in Hetzner!Roles, Hetzner!RemovalLands(r)
    PROVE  IInv'
<1>0. /\ UNCHANGED <<journal, made, listed, asked, removed, serverRelease, operation, spent>>
      /\ removing' = removing \ {r}
      /\ journal \in Hetzner!Journal /\ Typed /\ Positioned /\ operation.role \in Hetzner!Roles
      /\ \A s \in Hetzner!Roles : Accounted(s)
    BY WorldHasJournal DEF Hetzner!RemovalLands
<1>1. \/ existing' = [existing EXCEPT ![r] = @ \ {Hetzner!Id(r)}]
      \/ existing' = existing
    BY DEF Hetzner!RemovalLands, Hetzner!Remove
<1>2. Typed'
    BY <1>0, <1>1 DEF Typed
<1>3. \A s \in Hetzner!Roles : existing'[s] \subseteq existing[s]
    BY <1>0, <1>1 DEF Typed
<1> QED BY <1>0, <1>2, <1>3, ShrinkingStep

LEMMA ListsCatchUpStep ==
    ASSUME Assumptions, IInv, NEW r \in Hetzner!Roles, Hetzner!ListsCatchUp(r)
    PROVE  IInv'
<1>0. /\ UNCHANGED <<journal, made, existing, asked, removing, removed, serverRelease,
                      operation, spent>>
      /\ listed' = [listed EXCEPT ![r] = existing[r]]
      /\ journal \in Hetzner!Journal /\ Typed /\ Positioned /\ operation.role \in Hetzner!Roles
      /\ \A s \in Hetzner!Roles : Accounted(s)
    BY WorldHasJournal DEF Hetzner!ListsCatchUp
<1>1. Typed'
    BY <1>0 DEF Typed
<1>2. \A s \in Hetzner!Roles : listed'[s] \subseteq existing[s] \cup listed[s]
    BY <1>0 DEF Typed
<1> QED BY <1>0, <1>1, <1>2, ShrinkingStep

LEMMA RemovedByOthersStep ==
    ASSUME Assumptions, IInv, NEW r \in Hetzner!Roles, Hetzner!RemovedByOthers(r)
    PROVE  IInv'
<1>0. /\ UNCHANGED <<journal, made, listed, asked, removing, serverRelease, operation>>
      /\ existing' = [existing EXCEPT ![r] = {}]
      /\ removed' = removed \cup {r}
      /\ spent' = [spent EXCEPT !.removals = @ + 1]
      /\ journal \in Hetzner!Journal /\ Typed /\ Positioned /\ operation.role \in Hetzner!Roles
      /\ \A s \in Hetzner!Roles : Accounted(s)
    BY WorldHasJournal DEF Hetzner!RemovedByOthers
<1>1. Typed'
    BY <1>0 DEF Typed
<1>2. \A s \in Hetzner!Roles : existing'[s] \subseteq existing[s]
    BY <1>0 DEF Typed
<1> QED BY <1>0, <1>1, <1>2, ShrinkingStep
-----------------------------------------------------------------------------
LEMMA StutterStep ==
    ASSUME IInv, UNCHANGED Hetzner!vars
    PROVE  IInv'
<1>1. Typed'
    BY DEF IInv, Typed, Hetzner!vars, Hetzner!provider
<1>2. Accounting'
    BY DEF IInv, Accounting, Positioned, Accounted, Hetzner!At, Hetzner!State, Hetzner!Id,
           Hetzner!vars, Hetzner!provider
<1>3. Running'
    BY DEF IInv, Running, Hetzner!At, Hetzner!vars
<1> QED BY <1>1, <1>2, <1>3 DEF IInv

LEMMA InductiveStep ==
    ASSUME Assumptions, IInv, [Hetzner!Next]_Hetzner!vars
    PROVE  IInv'
<1>1. CASE \/ Hetzner!BeginApply \/ Hetzner!BeginRestore \/ Hetzner!BeginDestroy
           \/ \E t \in Releases : Hetzner!BeginUpdate(t)
    BY <1>1, BeginApplyStep, BeginRestoreStep, BeginDestroyStep, BeginUpdateStep
<1>2. CASE Hetzner!Apply
    BY <1>2, StartStep, InventoryStep, CreateAnsweredStep, CreateRejectedStep,
       CreateUnansweredStep, SearchStep, RecordStep, AddressesStep, EnrollStep DEF Hetzner!Apply
<1>3. CASE Hetzner!Converge
    BY <1>3, ActivateStep, ProveStep, SettleStep, FinishStep DEF Hetzner!Converge
<1>4. CASE Hetzner!Destroy
    BY <1>4, ReconcileStep, CheckStep, RemoveAnsweredStep, RemoveUnansweredStep,
       AbsenceStep, EndDestroyStep DEF Hetzner!Destroy
<1>5. CASE Hetzner!Fail
    BY <1>5, FailStep
<1>6. CASE Hetzner!Environment
    BY <1>6, CreateLandsStep, RemovalLandsStep, ListsCatchUpStep, RemovedByOthersStep
    DEF Hetzner!Environment
<1>7. CASE UNCHANGED Hetzner!vars
    BY <1>7, StutterStep
<1> QED BY <1>1, <1>2, <1>3, <1>4, <1>5, <1>6, <1>7 DEF Hetzner!Next

LEMMA Inductive == Hetzner!Spec => []IInv
<1> USE Assumed
<1>1. Hetzner!Init => IInv
    BY InitInv
<1>2. IInv /\ [Hetzner!Next]_Hetzner!vars => IInv'
    BY InductiveStep
<1> QED BY <1>1, <1>2, PTL DEF Hetzner!Spec

(***************************************************************************)
(* Every state of a deployment is well typed.                               *)
(***************************************************************************)
THEOREM TypeCorrect == Hetzner!Spec => []Typed
<1> USE Assumed
<1>1. IInv => Typed
    BY DEF IInv
<1>2. Hetzner!Spec => []IInv
    BY Inductive
<1> QED BY <1>1, <1>2, PTL

(***************************************************************************)
(* Nothing is created twice and nothing is lost sight of, whatever answers    *)
(* are lost, however late requests take effect and however the lists lag.     *)
(***************************************************************************)
THEOREM AccountingCorrect == Hetzner!Spec => []Hetzner!ResourcesAreAccountedFor
<1> USE Assumed
<1>1. IInv => Hetzner!ResourcesAreAccountedFor
    <2> SUFFICES ASSUME IInv, NEW r \in Hetzner!Roles
                 PROVE  /\ made[r] + asked[r] <= 1
                        /\ Hetzner!MayExist(r) =>
                              /\ journal # Hetzner!NoJournal
                              /\ \/ Hetzner!State(r) = "prepared"
                                 \/ /\ Hetzner!State(r) = "present" /\ asked[r] = 0
                                    /\ existing[r] = {Hetzner!Id(r)}
        BY DEF Hetzner!ResourcesAreAccountedFor
    <2>1. CASE journal = Hetzner!NoJournal
        BY <2>1 DEF IInv, Accounting, Hetzner!MayExist
    <2>2. CASE journal # Hetzner!NoJournal
        <3>1. journal \in Hetzner!Journal /\ Accounted(r) /\ Typed
            BY <2>2 DEF IInv, Typed, Accounting
        <3>2. Hetzner!State(r) \in {"none", "prepared", "present", "absent"}
            BY <3>1 DEF Hetzner!State, Hetzner!Journal, Hetzner!Resource
        <3> QED BY <2>2, <3>1, <3>2 DEF Accounted, Hetzner!MayExist, Typed
    <2> QED BY <2>1, <2>2
<1>2. Hetzner!Spec => []IInv
    BY Inductive
<1> QED BY <1>1, <1>2, PTL

(***************************************************************************)
(* Whatever dies between the activation of a release and its record, the      *)
(* server runs a release that the journal names, and the current one when no  *)
(* transition is open.                                                      *)
(***************************************************************************)
THEOREM HostCorrect == Hetzner!Spec => []HostRunsKnownRelease
<1> USE Assumed
<1>1. IInv => HostRunsKnownRelease
    BY DEF IInv, Running, HostRunsKnownRelease, Hetzner!HostRunsKnownRelease
<1>2. Hetzner!Spec => []IInv
    BY Inductive
<1> QED BY <1>1, <1>2, PTL
-----------------------------------------------------------------------------
(***************************************************************************)
(* The order of creation and destruction.  A role is created below the roles  *)
(* it needs; a fence of destruction says that every role above is gone, which  *)
(* no create that is only prepared may be left to undo.                      *)
(***************************************************************************)
Held(r) == existing[r] # {} \/ r \in removed

Below == [firewall |-> {}, primaryIp |-> {"firewall"}, server |-> {"firewall", "primaryIp"}]

Creating == {"inventory", "create", "search", "rejected", "record"}

Destroying == {"check", "remove", "absence"}

\* Where the command stands, in either order.
Placed ==
    /\ Hetzner!At("remove") => operation.role \in journal.fenced
    /\ operation.step \in Destroying => Hetzner!Prepared = {}
    /\ operation.step \in Creating \cup {"start"} =>
          journal.phase \notin {"destroying", "destroyed"}
    /\ operation.step \in Creating => \A s \in Below[operation.role] : Held(s)

Fenced ==
    /\ Hetzner!Coherent(journal)
    /\ journal.fenced # {} => Hetzner!Prepared = {}
    /\ removing \subseteq journal.fenced

Protected == Hetzner!MayExist("server") => \A s \in Below["server"] : Held(s)

Ordered == journal # Hetzner!NoJournal => Fenced /\ Placed /\ Protected

OInv == IInv /\ Ordered

\* What an operation of the journal keeps, and those that keep the resources.
Progress ==
    /\ journal' \in Hetzner!Journal /\ Hetzner!Coherent(journal)'
    /\ journal.fenced \subseteq journal'.fenced
    /\ journal'.fenced # {} => Hetzner!Prepared' = {}

LEMMA WriteCoheres ==
    ASSUME journal \in Hetzner!Journal, NEW next, DOMAIN next = DOMAIN journal, Hetzner!Write(next)
    PROVE  /\ Hetzner!Coherent(journal)'
           /\ journal'.phase = next.phase /\ journal'.fenced = next.fenced
           /\ journal'.resource = next.resource
<1>1. /\ journal' = [next EXCEPT !.generation = journal.generation + 1] /\ Hetzner!Coherent(next)
    BY DEF Hetzner!Write
<1>2. /\ journal'.phase = next.phase /\ journal'.fenced = next.fenced
      /\ journal'.resource = next.resource /\ journal'.addressed = next.addressed
      /\ journal'.pinned = next.pinned /\ journal'.proven = next.proven
      /\ journal'.current = next.current
    BY <1>1 DEF Hetzner!Journal
<1>3. Hetzner!Coherent(journal)'
    BY <1>1, <1>2 DEF Hetzner!Coherent
<1> QED BY <1>2, <1>3

LEMMA AdvanceProgress ==
    ASSUME Assumptions, journal \in Hetzner!Journal, Fenced, NEW p, Hetzner!Advance(p)
    PROVE  Progress /\ journal'.phase = p
<1> DEFINE next == [journal EXCEPT !.phase = p]
<1>1. Hetzner!Write(next) /\ DOMAIN next = DOMAIN journal
    BY DEF Hetzner!Advance
<1>2. /\ next.phase = p /\ next.fenced = journal.fenced /\ next.resource = journal.resource
    BY DEF Hetzner!Journal
<1>3. journal' \in Hetzner!Journal
    BY AdvanceKeeps DEF KeepsAll, Keeps
<1> QED BY <1>1, <1>2, <1>3, WriteCoheres DEF Progress, Fenced, Hetzner!Prepared, Hetzner!State

\* The operations on the fences and the states of a role.
LEMMA RoleProgress ==
    ASSUME Assumptions, journal \in Hetzner!Journal, Fenced, NEW r \in Hetzner!Roles,
           NEW id \in Nat,
           \/ Hetzner!PrepareMutation(r) \/ Hetzner!RejectMutation(r)
           \/ Hetzner!CompleteMutation(r, id)
           \/ Hetzner!RecordDeletion(r)
           \/ Hetzner!RecordAddress(r) /\ r \in Hetzner!Addressed
           \/ Hetzner!PrepareDestruction(r) /\ Hetzner!Prepared = {}
    PROVE  Progress /\ journal'.phase = journal.phase
<1>1. CASE Hetzner!PrepareMutation(r)
    <2> DEFINE next == [journal EXCEPT !.resource[r].state = "prepared"]
    <2>1. Hetzner!Write(next) /\ DOMAIN next = DOMAIN journal /\ journal.phase = "provisioning"
        BY <1>1 DEF Hetzner!PrepareMutation
    <2>2. journal.fenced = {} /\ next.fenced = journal.fenced /\ next.phase = journal.phase
        BY <2>1 DEF Fenced, Hetzner!Coherent, Hetzner!Journal
    <2>3. journal' \in Hetzner!Journal
        BY <1>1, PrepareMutationSets DEF Sets, Keeps
    <2> QED BY <2>1, <2>2, <2>3, WriteCoheres DEF Progress
<1>2. CASE Hetzner!RejectMutation(r)
    <2> DEFINE next == [journal EXCEPT !.resource[r].state = "none"]
    <2>1. Hetzner!Write(next) /\ DOMAIN next = DOMAIN journal
        BY <1>2 DEF Hetzner!RejectMutation
    <2>2. next.fenced = journal.fenced /\ next.phase = journal.phase
        BY DEF Hetzner!Journal
    <2>3. /\ journal' \in Hetzner!Journal
          /\ journal'.resource = [journal.resource EXCEPT ![r] = Hetzner!NoResource]
        BY <1>2, RejectMutationSets DEF Sets, Keeps
    <2>4. Hetzner!Prepared' \subseteq Hetzner!Prepared
        BY <2>3 DEF Hetzner!Prepared, Hetzner!State, Hetzner!NoResource, Hetzner!Journal
    <2> QED BY <2>1, <2>2, <2>3, <2>4, WriteCoheres DEF Progress, Fenced
<1>3. CASE Hetzner!CompleteMutation(r, id)
    <2> DEFINE resource == [state |-> "present", id |-> id]
               next == [journal EXCEPT !.resource[r] = resource]
    <2>1. /\ journal' \in Hetzner!Journal
          /\ journal'.resource = [journal.resource EXCEPT ![r] = resource]
        BY <1>3, CompleteMutationSets DEF Sets, Keeps
    <2>2. Hetzner!Prepared' \subseteq Hetzner!Prepared
        BY <2>1 DEF Hetzner!Prepared, Hetzner!State, Hetzner!Journal
    <2>3. CASE Hetzner!Write(next)
        <3>1. next.fenced = journal.fenced /\ next.phase = journal.phase
              /\ DOMAIN next = DOMAIN journal
            BY DEF Hetzner!Journal
        <3> QED BY <2>1, <2>2, <2>3, <3>1, WriteCoheres DEF Progress, Fenced
    <2>4. CASE UNCHANGED journal
        BY <2>1, <2>2, <2>4 DEF Progress, Fenced, Hetzner!Prepared, Hetzner!State
    <2> QED BY <1>3, <2>3, <2>4 DEF Hetzner!CompleteMutation
<1>4. CASE Hetzner!RecordDeletion(r)
    <2> DEFINE next == [journal EXCEPT !.resource[r].state = "absent"]
    <2>1. Hetzner!Write(next) /\ DOMAIN next = DOMAIN journal
        BY <1>4 DEF Hetzner!RecordDeletion
    <2>2. next.fenced = journal.fenced /\ next.phase = journal.phase
        BY DEF Hetzner!Journal
    <2>3. /\ journal' \in Hetzner!Journal
          /\ journal'.resource =
                [journal.resource EXCEPT ![r] = [state |-> "absent", id |-> Hetzner!Id(r)]]
        BY <1>4, RecordDeletionSets DEF Sets, Keeps
    <2>4. Hetzner!Prepared' \subseteq Hetzner!Prepared
        BY <2>3 DEF Hetzner!Prepared, Hetzner!State, Hetzner!Journal
    <2> QED BY <2>1, <2>2, <2>3, <2>4, WriteCoheres DEF Progress, Fenced
<1>5. CASE Hetzner!RecordAddress(r) /\ r \in Hetzner!Addressed
    <2> DEFINE next == [journal EXCEPT !.addressed = @ \cup {r}]
    <2>1. Hetzner!Write(next) /\ DOMAIN next = DOMAIN journal
        BY <1>5 DEF Hetzner!RecordAddress
    <2>2. next.fenced = journal.fenced /\ next.phase = journal.phase
          /\ next.resource = journal.resource
        BY DEF Hetzner!Journal
    <2>3. journal' \in Hetzner!Journal
        BY <1>5, RecordAddressKeeps DEF KeepsAll, Keeps
    <2> QED BY <2>1, <2>2, <2>3, WriteCoheres DEF Progress, Fenced, Hetzner!Prepared, Hetzner!State
<1>6. CASE Hetzner!PrepareDestruction(r) /\ Hetzner!Prepared = {}
    <2> DEFINE next == [journal EXCEPT !.fenced = @ \cup {r}]
    <2>1. journal' \in Hetzner!Journal
        BY <1>6, PrepareDestructionKeeps DEF KeepsAll, Keeps
    <2>2. CASE Hetzner!Write(next)
        <3>1. /\ next.fenced = journal.fenced \cup {r} /\ next.phase = journal.phase
              /\ next.resource = journal.resource /\ DOMAIN next = DOMAIN journal
            BY DEF Hetzner!Journal
        <3> QED BY <1>6, <2>1, <2>2, <3>1, WriteCoheres
                DEF Progress, Hetzner!Prepared, Hetzner!State
    <2>3. CASE UNCHANGED journal
        BY <2>1, <2>3 DEF Progress, Fenced, Hetzner!Prepared, Hetzner!State
    <2> QED BY <1>6, <2>2, <2>3 DEF Hetzner!PrepareDestruction
<1> QED BY <1>1, <1>2, <1>3, <1>4, <1>5, <1>6

\* The operations on the releases and the pinned host.
LEMMA ReleaseProgress ==
    ASSUME Assumptions, journal \in Hetzner!Journal, Fenced,
           \/ Hetzner!RecordSshHost \/ Hetzner!RecordActivation \/ Hetzner!SettleRelease
           \/ Hetzner!AbandonUpdate
           \/ \E t \in Releases : Hetzner!PrepareUpdate(t)
           \/ UNCHANGED journal
    PROVE  Progress /\ journal'.phase = journal.phase
<1>1. CASE UNCHANGED journal
    BY <1>1 DEF Progress, Fenced, Hetzner!Prepared, Hetzner!State
<1>2. CASE Hetzner!RecordSshHost
    <2> DEFINE next == [journal EXCEPT !.pinned = TRUE]
    <2>1. Hetzner!Write(next) /\ DOMAIN next = DOMAIN journal
        BY <1>2 DEF Hetzner!RecordSshHost
    <2>2. next.fenced = journal.fenced /\ next.phase = journal.phase
          /\ next.resource = journal.resource
        BY DEF Hetzner!Journal
    <2>3. journal' \in Hetzner!Journal
        BY <1>2, RecordSshHostKeeps DEF KeepsAll, Keeps
    <2> QED BY <2>1, <2>2, <2>3, WriteCoheres DEF Progress, Fenced, Hetzner!Prepared, Hetzner!State
<1>3. CASE Hetzner!RecordActivation
    <2> DEFINE next == [journal EXCEPT !.proven = TRUE]
    <2>1. CASE Hetzner!Write(next)
        <3>1. next.fenced = journal.fenced /\ next.phase = journal.phase
              /\ next.resource = journal.resource /\ DOMAIN next = DOMAIN journal
            BY DEF Hetzner!Journal
        <3>2. journal' \in Hetzner!Journal
            BY <1>3, RecordActivationKeeps DEF KeepsAll, Keeps
        <3> QED BY <2>1, <3>1, <3>2, WriteCoheres
                DEF Progress, Fenced, Hetzner!Prepared, Hetzner!State
    <2> QED BY <1>1, <1>3, <2>1 DEF Hetzner!RecordActivation
<1>4. CASE Hetzner!SettleRelease
    <2> DEFINE next == [journal EXCEPT !.current = journal.target,
                                       !.target = None, !.proven = FALSE]
    <2>1. Hetzner!Write(next) /\ DOMAIN next = DOMAIN journal
        BY <1>4 DEF Hetzner!SettleRelease
    <2>2. next.fenced = journal.fenced /\ next.phase = journal.phase
          /\ next.resource = journal.resource
        BY DEF Hetzner!Journal
    <2>3. journal' \in Hetzner!Journal
        BY <1>4, SettleReleaseMoves DEF Moves
    <2> QED BY <2>1, <2>2, <2>3, WriteCoheres DEF Progress, Fenced, Hetzner!Prepared, Hetzner!State
<1>5. CASE Hetzner!AbandonUpdate
    <2> DEFINE next == [journal EXCEPT !.target = None, !.proven = FALSE]
    <2>1. Hetzner!Write(next) /\ DOMAIN next = DOMAIN journal
        BY <1>5 DEF Hetzner!AbandonUpdate
    <2>2. next.fenced = journal.fenced /\ next.phase = journal.phase
          /\ next.resource = journal.resource
        BY DEF Hetzner!Journal
    <2>3. journal' \in Hetzner!Journal
        BY <1>5, AbandonUpdateMoves DEF Moves
    <2> QED BY <2>1, <2>2, <2>3, WriteCoheres DEF Progress, Fenced, Hetzner!Prepared, Hetzner!State
<1>6. ASSUME NEW t \in Releases, Hetzner!PrepareUpdate(t)
      PROVE  Progress /\ journal'.phase = journal.phase
    <2> DEFINE next == [journal EXCEPT !.target = t]
    <2>1. CASE Hetzner!Write(next)
        <3>1. next.fenced = journal.fenced /\ next.phase = journal.phase
              /\ next.resource = journal.resource /\ DOMAIN next = DOMAIN journal
            BY DEF Hetzner!Journal
        <3>2. journal' \in Hetzner!Journal
            BY <1>1, <1>6, PrepareUpdateMoves DEF Moves, Progress
        <3> QED BY <2>1, <3>1, <3>2, WriteCoheres
                DEF Progress, Fenced, Hetzner!Prepared, Hetzner!State
    <2> QED BY <1>1, <1>6, <2>1 DEF Hetzner!PrepareUpdate
<1> QED BY <1>1, <1>2, <1>3, <1>4, <1>5, <1>6
-----------------------------------------------------------------------------
LEMMA OrderedHere ==
    ASSUME OInv, journal # Hetzner!NoJournal
    PROVE  /\ journal \in Hetzner!Journal /\ operation \in Hetzner!Command
           /\ operation.role \in Hetzner!Roles
           /\ Fenced /\ Placed /\ Protected
           /\ Typed /\ \A r \in Hetzner!Roles : Accounted(r)
BY DEF OInv, IInv, Ordered, Typed, Accounting, Hetzner!Command

LEMMA OrderedCommand ==
    ASSUME OInv, ~Hetzner!At("idle")
    PROVE  /\ journal \in Hetzner!Journal /\ journal # Hetzner!NoJournal
           /\ operation \in Hetzner!Command /\ operation.role \in Hetzner!Roles
           /\ Fenced /\ Placed /\ Protected
           /\ Typed /\ \A r \in Hetzner!Roles : Accounted(r)
<1>1. journal # Hetzner!NoJournal
    BY DEF OInv, IInv, Accounting
<1> QED BY <1>1, OrderedHere

\* At other steps nothing is said of the order.
LEMMA PlacedElsewhere ==
    ASSUME operation'.step \notin Creating \cup Destroying \cup {"start"}
    PROVE  Placed'
BY DEF Placed, Hetzner!At, Creating, Destroying

\* A step that asks nothing of the provider.
LEMMA OrderKept ==
    ASSUME OInv, journal # Hetzner!NoJournal, Progress, UNCHANGED Hetzner!provider, Placed'
    PROVE  Ordered'
<1>1. Fenced /\ Protected
    BY OrderedHere
<1>2. Fenced'
    BY <1>1 DEF Progress, Fenced, Hetzner!provider
<1>3. Protected'
    BY <1>1 DEF Protected, Hetzner!MayExist, Held, Hetzner!provider
<1> QED BY <1>2, <1>3 DEF Ordered

LEMMA OrderEnds ==
    ASSUME OInv, journal # Hetzner!NoJournal, UNCHANGED <<journal, Hetzner!provider>>, Hetzner!End
    PROVE  Ordered'
<1>1. Placed'
    BY PlacedElsewhere DEF Hetzner!End, Hetzner!Idle, Creating, Destroying
<1>2. Progress
    BY OrderedHere DEF Progress, Fenced, Hetzner!Prepared, Hetzner!State
<1> QED BY <1>1, <1>2, OrderKept

LEMMA OrderGoes ==
    ASSUME OInv, Assumptions, ~Hetzner!At("idle"), UNCHANGED Hetzner!provider,
           Progress \/ UNCHANGED journal,
           \/ Hetzner!End
           \/ \E to \in Hetzner!Steps \ (Creating \cup Destroying \cup {"start"}) : Hetzner!Goto(to)
    PROVE  Ordered'
<1>1. /\ journal \in Hetzner!Journal /\ journal # Hetzner!NoJournal
      /\ operation \in Hetzner!Command /\ Fenced
    BY OrderedCommand
<1>2. operation'.step \notin Creating \cup Destroying \cup {"start"}
    BY <1>1, EndTyped, GotoTyped DEF Creating, Destroying
<1>3. Progress
    BY <1>1, ReleaseProgress
<1> QED BY <1>1, <1>2, <1>3, PlacedElsewhere, OrderKept

LEMMA BeginApplyOrder ==
    ASSUME Assumptions, OInv, Hetzner!BeginApply
    PROVE  Ordered'
<1>0. UNCHANGED Hetzner!provider /\ Hetzner!Goto("start") /\ operation \in Hetzner!Command
    BY DEF Hetzner!BeginApply, OInv, IInv, Typed
<1>1. operation'.step = "start"
    BY <1>0, GotoTyped DEF Hetzner!Steps
<1>2. CASE /\ journal # Hetzner!NoJournal /\ journal.phase \notin {"destroying", "destroyed"}
           /\ UNCHANGED journal
    <2>1. Progress
        BY <1>2, OrderedHere, ReleaseProgress
    <2>2. Placed'
        BY <1>1, <1>2 DEF Placed, Hetzner!At, Creating, Destroying
    <2> QED BY <1>0, <1>2, <2>1, <2>2, OrderKept
<1>3. ASSUME NEW t \in Releases, Hetzner!Initialize(t) PROVE Ordered'
    <2>1. /\ journal = Hetzner!NoJournal /\ journal'.phase = "planned" /\ journal'.fenced = {}
          /\ journal'.resource = [r \in Hetzner!Roles |-> Hetzner!NoResource]
          /\ journal'.addressed = {}
          /\ journal'.pinned = FALSE /\ journal'.current = None /\ journal'.proven = FALSE
        BY <1>3 DEF Hetzner!Initialize
    <2>2. Hetzner!Coherent(journal)'
        BY <2>1 DEF Hetzner!Coherent, Hetzner!NoResource, Hetzner!Roles
    <2>3. removing' = {} /\ ~Hetzner!MayExist("server")'
        BY <1>0, <2>1 DEF OInv, IInv, Accounting, Hetzner!provider, Hetzner!MayExist, Hetzner!Roles
    <2>4. Placed'
        BY <1>1, <2>1 DEF Placed, Hetzner!At, Creating, Destroying
    <2> QED BY <2>1, <2>2, <2>3, <2>4 DEF Ordered, Fenced, Protected
<1> QED BY <1>2, <1>3 DEF Hetzner!BeginApply

LEMMA StartOrder ==
    ASSUME Assumptions, OInv, Hetzner!Start
    PROVE  Ordered'
<1>0. /\ ~Hetzner!At("idle") /\ UNCHANGED Hetzner!provider /\ Hetzner!At("start")
    BY DEF Hetzner!Start, Hetzner!At
<1>1. /\ journal \in Hetzner!Journal /\ journal # Hetzner!NoJournal
      /\ operation \in Hetzner!Command /\ Fenced
      /\ journal.phase \notin {"destroying", "destroyed"}
    BY <1>0, OrderedCommand DEF Placed, Hetzner!At
<1>2. CASE Hetzner!Advance("provisioning") /\ Hetzner!Goto("start")
    <2>1. Progress /\ journal'.phase = "provisioning"
        BY <1>1, <1>2, AdvanceProgress
    <2>2. operation'.step = "start"
        BY <1>1, <1>2, GotoTyped DEF Hetzner!Steps
    <2>3. Placed'
        BY <2>1, <2>2 DEF Placed, Hetzner!At, Creating, Destroying
    <2> QED BY <1>0, <1>1, <2>1, <2>3, OrderKept
<1>3. CASE Hetzner!End /\ UNCHANGED journal
    BY <1>0, <1>3, OrderGoes
<1>4. CASE Hetzner!GotoRole("inventory", "firewall") /\ UNCHANGED journal
    <2>1. operation'.step = "inventory" /\ operation'.role = "firewall"
        BY <1>1, <1>4 DEF Hetzner!GotoRole, Hetzner!Command
    <2>2. Placed'
        BY <1>1, <1>4, <2>1 DEF Placed, Hetzner!At, Creating, Destroying, Below
    <2> QED BY <1>0, <1>1, <1>4, <2>2, ReleaseProgress, OrderKept
<1> QED BY <1>2, <1>3, <1>4 DEF Hetzner!Start, Hetzner!Commit

\* Another step of the creation of the same role.
LEMMA CreatingGoesOn ==
    ASSUME OInv, operation.step \in Creating, journal # Hetzner!NoJournal,
           operation'.step \in Creating, operation'.role = operation.role,
           journal'.phase = journal.phase, Progress, UNCHANGED Hetzner!provider
    PROVE  Ordered'
<1>1. Placed'
    BY OrderedHere DEF Placed, Hetzner!At, Creating, Destroying, Held, Hetzner!provider
<1> QED BY <1>1, OrderKept

LEMMA InventoryOrder ==
    ASSUME Assumptions, OInv, Hetzner!Inventory \/ Hetzner!Search
    PROVE  Ordered'
<1>r. PICK r \in Hetzner!Roles : r = operation.role
    BY OrderedCommand DEF Hetzner!Inventory, Hetzner!Search, Hetzner!At
<1>0. /\ ~Hetzner!At("idle") /\ UNCHANGED Hetzner!provider /\ operation.step \in Creating
    BY DEF Hetzner!Inventory, Hetzner!Search, Hetzner!At, Creating
<1>1. /\ journal \in Hetzner!Journal /\ journal # Hetzner!NoJournal
      /\ operation \in Hetzner!Command /\ Fenced
    BY <1>0, OrderedCommand
<1>2. ASSUME NEW id, Hetzner!Found(id), UNCHANGED journal PROVE Ordered'
    <2>1. operation'.step = "record" /\ operation'.role = operation.role
        BY <1>1, <1>2 DEF Hetzner!Found, Hetzner!Command
    <2> QED BY <1>0, <1>1, <1>2, <2>1, ReleaseProgress, CreatingGoesOn DEF Creating
<1>3. CASE Hetzner!PrepareMutation(r) /\ Hetzner!Goto("create")
    <2>1. operation'.step = "create" /\ operation'.role = operation.role
        BY <1>1, <1>3 DEF Hetzner!Goto, Hetzner!Command
    <2>2. Progress /\ journal'.phase = journal.phase
        BY <1>1, <1>3, RoleProgress, 0 \in Nat
    <2> QED BY <1>0, <1>1, <2>1, <2>2, CreatingGoesOn DEF Creating
<1>4. CASE Hetzner!RejectMutation(r) /\ Hetzner!End
    <2>1. Progress
        BY <1>1, <1>4, RoleProgress, 0 \in Nat
    <2> QED BY <1>0, <1>4, <2>1, OrderGoes
<1>5. CASE Hetzner!End /\ UNCHANGED journal
    BY <1>0, <1>5, OrderGoes
<1> QED BY <1>r, <1>2, <1>3, <1>4, <1>5 DEF Hetzner!Inventory, Hetzner!Search, Hetzner!Commit

LEMMA CreateOrder ==
    ASSUME Assumptions, OInv,
           Hetzner!CreateAnswered \/ Hetzner!CreateRejected \/ Hetzner!CreateUnanswered
    PROVE  Ordered'
<1>r. PICK r \in Hetzner!Roles : r = operation.role
    BY OrderedCommand
    DEF Hetzner!CreateAnswered, Hetzner!CreateRejected, Hetzner!CreateUnanswered, Hetzner!At
<1>0. /\ ~Hetzner!At("idle") /\ Hetzner!At("create") /\ operation.step \in Creating
      /\ UNCHANGED <<journal, listed, removing, removed>>
    BY DEF Hetzner!CreateAnswered, Hetzner!CreateRejected, Hetzner!CreateUnanswered, Hetzner!At,
           Creating, Hetzner!provider
<1>1. /\ journal \in Hetzner!Journal /\ journal # Hetzner!NoJournal
      /\ operation \in Hetzner!Command /\ Fenced
      /\ Placed /\ Protected /\ Typed
    BY <1>0, OrderedCommand
<1>2. /\ journal.phase \notin {"destroying", "destroyed"}
      /\ \A s \in Below[r] : Held(s)
    BY <1>0, <1>1, <1>r DEF Placed
<1>3. \A s \in Hetzner!Roles : existing[s] \subseteq existing'[s]
    <2>1. CASE Hetzner!CreateAnswered
        BY <1>1, <1>r, <2>1 DEF Hetzner!CreateAnswered, Hetzner!Make, Typed
    <2>2. CASE Hetzner!CreateRejected \/ Hetzner!CreateUnanswered
        BY <2>2 DEF Hetzner!CreateRejected, Hetzner!CreateUnanswered, Hetzner!provider
    <2> QED BY <2>1, <2>2
<1>4. \A s \in Hetzner!Roles : Held(s) => Held(s)'
    BY <1>0, <1>3 DEF Held
<1>5. Placed'
    <2>1. \/ /\ operation'.step \in {"record", "rejected", "search"}
             /\ operation'.role = operation.role
          \/ operation'.step = "idle"
        BY <1>1, EndTyped
           DEF Hetzner!CreateAnswered, Hetzner!CreateRejected, Hetzner!CreateUnanswered,
               Hetzner!Found, Hetzner!Goto, Hetzner!Command
    <2>2. Below[r] \subseteq Hetzner!Roles
        BY DEF Below, Hetzner!Roles
    <2> QED BY <1>0, <1>2, <1>4, <1>r, <2>1, <2>2
            DEF Placed, Hetzner!At, Creating, Destroying
<1>6. Hetzner!MayExist("server")' => Hetzner!MayExist("server") \/ r = "server"
    <2>1. CASE Hetzner!CreateAnswered
        BY <1>1, <1>r, <2>1
        DEF Hetzner!CreateAnswered, Hetzner!Make, Hetzner!MayExist, Typed, Hetzner!Roles
    <2>2. CASE Hetzner!CreateRejected
        BY <2>2 DEF Hetzner!CreateRejected, Hetzner!MayExist, Hetzner!provider
    <2>3. CASE Hetzner!CreateUnanswered
        BY <1>1, <1>r, <2>3 DEF Hetzner!CreateUnanswered, Hetzner!MayExist, Typed, Hetzner!Roles
    <2> QED BY <2>1, <2>2, <2>3
<1>7. Protected'
    BY <1>1, <1>2, <1>4, <1>6 DEF Protected, Below, Hetzner!Roles
<1>8. Fenced'
    BY <1>0, <1>1 DEF Fenced, Hetzner!Prepared, Hetzner!State
<1> QED BY <1>5, <1>7, <1>8 DEF Ordered

LEMMA RecordOrder ==
    ASSUME Assumptions, OInv, Hetzner!Record
    PROVE  Ordered'
<1>r. PICK r \in Hetzner!Roles : r = operation.role
    BY OrderedCommand DEF Hetzner!Record, Hetzner!At
<1>0. /\ ~Hetzner!At("idle") /\ UNCHANGED Hetzner!provider /\ operation.step \in Creating
      /\ Hetzner!At("record")
    BY DEF Hetzner!Record, Hetzner!At, Creating
<1>1. /\ journal \in Hetzner!Journal /\ journal # Hetzner!NoJournal
      /\ operation \in Hetzner!Command /\ Fenced
      /\ Placed
    BY <1>0, OrderedCommand
<1>2. operation.id = 1
    BY <1>0, OrderedCommand DEF OInv, IInv, Accounting, Positioned
<1>3. Progress /\ journal'.phase = journal.phase
    <2>1. Hetzner!CompleteMutation(r, 1) \/ UNCHANGED journal
        BY <1>r, <1>2 DEF Hetzner!Record, Hetzner!Commit
    <2> QED BY <1>1, <2>1, RoleProgress, ReleaseProgress, 1 \in Nat
<1>4. Hetzner!End \/ (operation.id \in existing[r] /\ Hetzner!NextRole(r))
    BY <1>r DEF Hetzner!Record, Hetzner!Commit
<1>5. CASE operation.id \in existing[r] /\ Hetzner!NextRole(r)
    <2>1. CASE r = "server"
        BY <1>0, <1>3, <1>5, <2>1, OrderGoes
        DEF Hetzner!NextRole, Hetzner!Steps, Creating, Destroying
    <2>2. CASE r # "server"
        <3>0. operation'.step = "inventory" /\ operation'.role = Hetzner!After[r]
            BY <1>1, <1>5, <2>2 DEF Hetzner!NextRole, Hetzner!GotoRole, Hetzner!Command
        <3>1. Below[Hetzner!After[r]] = Below[r] \cup {r}
            <4>1. CASE r = "firewall"
                BY <4>1 DEF Hetzner!After, Below
            <4>2. CASE r = "primaryIp"
                BY <4>2 DEF Hetzner!After, Below
            <4> QED BY <2>2, <4>1, <4>2 DEF Hetzner!Roles
        <3>2. Held(r)
            BY <1>5 DEF Held
        <3>3. Placed'
            BY <1>0, <1>1, <1>3, <1>r, <3>0, <3>1, <3>2
               DEF Placed, Hetzner!At, Creating, Destroying, Held, Hetzner!provider
        <3> QED BY <1>0, <1>1, <1>3, <3>3, OrderKept
    <2> QED BY <2>1, <2>2
<1>6. CASE Hetzner!End
    BY <1>0, <1>3, <1>6, OrderGoes
<1> QED BY <1>4, <1>5, <1>6

LEMMA ConvergeOrder ==
    ASSUME Assumptions, OInv, Hetzner!Addresses \/ Hetzner!Enroll \/ Hetzner!Converge
    PROVE  Ordered'
<1>0. ~Hetzner!At("idle") /\ UNCHANGED Hetzner!provider
    BY DEF Hetzner!Addresses, Hetzner!Enroll, Hetzner!Converge, Hetzner!Activate, Hetzner!Prove,
           Hetzner!Settle, Hetzner!Finish, Hetzner!At, Hetzner!provider
<1>1. /\ journal \in Hetzner!Journal /\ journal # Hetzner!NoJournal
      /\ operation \in Hetzner!Command /\ Fenced
    BY <1>0, OrderedCommand
<1>2. operation'.step \notin Creating \cup Destroying \cup {"start"}
    <2>1. \/ Hetzner!End
          \/ \E to \in {"enroll", "addresses", "prove", "settle", "finish"} : Hetzner!Goto(to)
          \/ operation' = [operation EXCEPT !.step = "activate", !.goal = Hetzner!Effective]
        BY DEF Hetzner!Addresses, Hetzner!Enroll, Hetzner!Converge, Hetzner!Activate,
               Hetzner!Prove, Hetzner!Settle, Hetzner!Finish, Hetzner!Commit
    <2> QED BY <1>1, <2>1, EndTyped, GotoTyped
            DEF Creating, Destroying, Hetzner!Steps, Hetzner!Command
<1>3. Progress
    <2>1. \/ UNCHANGED journal \/ Hetzner!RecordSshHost \/ Hetzner!RecordActivation
          \/ Hetzner!SettleRelease
          \/ Hetzner!AbandonUpdate
          \/ \E q \in {"provisioned", "activating", "active"} : Hetzner!Advance(q)
          \/ \E r \in Hetzner!Addressed : Hetzner!RecordAddress(r)
        <3>1. CASE Hetzner!Addresses
            BY <3>1 DEF Hetzner!Addresses, Hetzner!Commit, Hetzner!Addressed
        <3>2. CASE Hetzner!Enroll \/ Hetzner!Converge
            BY <3>2
            DEF Hetzner!Enroll, Hetzner!Converge, Hetzner!Activate, Hetzner!Prove, Hetzner!Settle,
                Hetzner!Finish, Hetzner!Commit
        <3> QED BY <3>1, <3>2
    <2>2. Hetzner!Addressed \subseteq Hetzner!Roles /\ 0 \in Nat
        BY DEF Hetzner!Addressed, Hetzner!Roles
    <2> QED BY <1>1, <2>1, <2>2, AdvanceProgress, RoleProgress, ReleaseProgress
<1> QED BY <1>0, <1>1, <1>2, <1>3, PlacedElsewhere, OrderKept

LEMMA BeginOthersOrder ==
    ASSUME Assumptions, OInv,
           \/ Hetzner!BeginRestore \/ Hetzner!BeginDestroy
           \/ \E t \in Releases : Hetzner!BeginUpdate(t)
    PROVE  Ordered'
<1>0. UNCHANGED Hetzner!provider
    BY DEF Hetzner!BeginRestore, Hetzner!BeginDestroy, Hetzner!BeginUpdate
<1>1. journal # Hetzner!NoJournal
    <2>1. Hetzner!NoJournal.phase = "none"
        BY DEF Hetzner!NoJournal
    <2> QED BY <2>1 DEF Hetzner!BeginRestore, Hetzner!BeginDestroy, Hetzner!BeginUpdate
<1>2. journal \in Hetzner!Journal /\ operation \in Hetzner!Command /\ Fenced
    BY <1>1, OrderedHere
<1>3. operation'.step \notin Creating \cup Destroying \cup {"start"}
    <2>1. \/ Hetzner!End \/ Hetzner!Goto("reconcile")
          \/ \E g \in Releases \cup {None} :
                operation' = [operation EXCEPT !.step = "activate", !.goal = g]
        BY <1>2
        DEF Hetzner!BeginRestore, Hetzner!BeginDestroy, Hetzner!BeginUpdate, Hetzner!Commit,
            Hetzner!Journal
    <2> QED BY <1>2, <2>1, EndTyped, GotoTyped
            DEF Creating, Destroying, Hetzner!Steps, Hetzner!Command
<1>4. Progress
    <2>1. \/ UNCHANGED journal \/ Hetzner!Advance("destroying")
          \/ \E t \in Releases : Hetzner!PrepareUpdate(t)
        BY DEF Hetzner!BeginRestore, Hetzner!BeginDestroy, Hetzner!BeginUpdate, Hetzner!Commit
    <2> QED BY <1>2, <2>1, AdvanceProgress, ReleaseProgress
<1> QED BY <1>0, <1>1, <1>3, <1>4, PlacedElsewhere, OrderKept

\* Another step of the destruction, to a role or to the same.
LEMMA DestroyingGoesOn ==
    ASSUME OInv, journal # Hetzner!NoJournal, Hetzner!Prepared = {}, operation \in Hetzner!Command,
           Progress, journal'.fenced = {} => Hetzner!Prepared' = {}, UNCHANGED Hetzner!provider,
           \/ \E r \in Hetzner!Roles : Hetzner!PriorRole(r)
           \/ Hetzner!Goto("absence")
           \/ Hetzner!Goto("remove") /\ operation.role \in journal'.fenced
    PROVE  Ordered'
<1>1. Hetzner!Prepared' = {}
    BY DEF Progress
<1>2. \/ operation'.step \in {"check", "absence", "end"}
      \/ operation'.step = "remove" /\ operation'.role \in journal'.fenced
    BY DEF Hetzner!PriorRole, Hetzner!Goto, Hetzner!GotoRole, Hetzner!Command
<1>3. Placed'
    BY <1>1, <1>2 DEF Placed, Hetzner!At, Creating, Destroying
<1> QED BY <1>3, OrderKept

LEMMA ReconcileOrder ==
    ASSUME Assumptions, OInv, Hetzner!Reconcile
    PROVE  Ordered'
<1>0. ~Hetzner!At("idle") /\ UNCHANGED Hetzner!provider
    BY DEF Hetzner!Reconcile, Hetzner!At
<1>1. /\ journal \in Hetzner!Journal /\ journal # Hetzner!NoJournal
      /\ operation \in Hetzner!Command /\ Fenced
      /\ \A r \in Hetzner!Roles : Accounted(r)
    BY <1>0, OrderedCommand
<1>2. CASE Hetzner!Prepared = {} /\ Hetzner!GotoRole("check", "server") /\ UNCHANGED journal
    <2>1. operation'.step = "check"
        BY <1>1, <1>2 DEF Hetzner!GotoRole, Hetzner!Command
    <2>2. Placed'
        BY <1>2, <2>1 DEF Placed, Hetzner!At, Creating, Destroying, Hetzner!Prepared, Hetzner!State
    <2> QED BY <1>0, <1>1, <1>2, <2>2, ReleaseProgress, OrderKept
<1>3. CASE Hetzner!End /\ UNCHANGED journal
    BY <1>0, <1>3, OrderGoes
<1>4. ASSUME NEW r \in Hetzner!Prepared, NEW id \in Hetzner!Exact(r, None),
             Hetzner!CompleteMutation(r, id),
             Hetzner!Goto("reconcile")
      PROVE  Ordered'
    <2>1. r \in Hetzner!Roles
        BY <1>4 DEF Hetzner!Prepared
    <2>2. id \in Nat
        BY <1>1, <1>4, <2>1, ExactIsFirst
    <2>3. Progress
        BY <1>1, <1>4, <2>1, <2>2, RoleProgress
    <2> QED BY <1>0, <1>4, <2>3, OrderGoes DEF Hetzner!Steps, Creating, Destroying
<1> QED BY <1>2, <1>3, <1>4 DEF Hetzner!Reconcile, Hetzner!Commit

LEMMA CheckOrder ==
    ASSUME Assumptions, OInv, Hetzner!Check \/ Hetzner!Absence
    PROVE  Ordered'
<1>r. PICK r \in Hetzner!Roles : r = operation.role
    BY OrderedCommand DEF Hetzner!Check, Hetzner!Absence, Hetzner!At
<1>0. ~Hetzner!At("idle") /\ UNCHANGED Hetzner!provider /\ operation.step \in Destroying
    BY DEF Hetzner!Check, Hetzner!Absence, Hetzner!At, Destroying
<1>1. /\ journal \in Hetzner!Journal /\ journal # Hetzner!NoJournal
      /\ operation \in Hetzner!Command /\ Fenced
      /\ Hetzner!Prepared = {}
    BY <1>0, OrderedCommand DEF Placed
<1>2. CASE Hetzner!RecordDeletion(r) /\ Hetzner!PriorRole(r)
    <2>1. Progress
        BY <1>1, <1>2, RoleProgress, 0 \in Nat
    <2>2. Hetzner!Prepared' = {}
        <3>1. journal'.resource =
                 [journal.resource EXCEPT ![r] = [state |-> "absent", id |-> Hetzner!Id(r)]]
            BY <1>1, <1>2, RecordDeletionSets DEF Sets
        <3> QED BY <1>1, <3>1 DEF Hetzner!Prepared, Hetzner!State, Hetzner!Journal
    <2> QED BY <1>0, <1>1, <1>2, <2>1, <2>2, DestroyingGoesOn
<1>3. CASE Hetzner!PriorRole(r) /\ UNCHANGED journal
    <2>1. Hetzner!Prepared' = {}
        BY <1>1, <1>3 DEF Hetzner!Prepared, Hetzner!State
    <2> QED BY <1>0, <1>1, <1>3, <2>1, ReleaseProgress, DestroyingGoesOn
<1>4. CASE Hetzner!PrepareDestruction(r) /\ Hetzner!Goto("remove")
    <2>1. Progress
        BY <1>1, <1>4, RoleProgress, 0 \in Nat
    <2>2. r \in journal'.fenced
        <3> DEFINE next == [journal EXCEPT !.fenced = @ \cup {r}]
        <3>1. CASE Hetzner!Write(next)
            <4>1. next.fenced = journal.fenced \cup {r} /\ DOMAIN next = DOMAIN journal
                BY <1>1 DEF Hetzner!Journal
            <4> QED BY <1>1, <3>1, <4>1, WriteCoheres
        <3> QED BY <1>4, <3>1 DEF Hetzner!PrepareDestruction
    <2> QED BY <1>0, <1>1, <1>4, <1>r, <2>1, <2>2, DestroyingGoesOn
<1>5. CASE Hetzner!End /\ UNCHANGED journal
    BY <1>0, <1>5, OrderGoes
<1> QED BY <1>r, <1>2, <1>3, <1>4, <1>5 DEF Hetzner!Check, Hetzner!Absence, Hetzner!Commit

LEMMA EndDestroyOrder ==
    ASSUME Assumptions, OInv, Hetzner!EndDestroy
    PROVE  Ordered'
<1>0. ~Hetzner!At("idle") /\ UNCHANGED Hetzner!provider
    BY DEF Hetzner!EndDestroy, Hetzner!At
<1>1. journal \in Hetzner!Journal /\ Fenced
    BY <1>0, OrderedCommand
<1> QED BY <1>0, <1>1, AdvanceProgress, OrderGoes DEF Hetzner!EndDestroy, Hetzner!Commit

(***************************************************************************)
(* A role whose destruction is fenced is only needed by roles that are gone.  *)
(***************************************************************************)
LEMMA RemovalOrder ==
    ASSUME OInv, journal # Hetzner!NoJournal, NEW r \in journal.fenced, r \in Hetzner!Roles,
           Hetzner!Remove(r) \/ UNCHANGED existing, removing' \subseteq journal.fenced,
           UNCHANGED <<journal, made, asked, removed>>, Placed'
    PROVE  Ordered'
<1>1. /\ journal \in Hetzner!Journal /\ Fenced /\ Protected /\ Typed
      /\ \A s \in Hetzner!Roles : Accounted(s)
    BY OrderedHere
<1>2. Fenced'
    BY <1>1 DEF Fenced, Hetzner!Prepared, Hetzner!State
<1>3. \A s \in Hetzner!Roles : s # r => existing'[s] = existing[s]
    BY <1>1 DEF Hetzner!Remove, Typed
<1>4. existing'["server"] \subseteq existing["server"]
    BY <1>1 DEF Hetzner!Remove, Typed, Hetzner!Roles
<1>5. Hetzner!MayExist("server") => Hetzner!State("server") = "present"
    <2>1. Hetzner!State("server") \in {"none", "prepared", "present", "absent"}
        BY <1>1 DEF Hetzner!State, Hetzner!Journal, Hetzner!Resource, Hetzner!Roles
    <2>2. Hetzner!State("server") # "prepared"
        BY <1>1 DEF Fenced, Hetzner!Prepared, Hetzner!Roles
    <2>3. Accounted("server") /\ existing["server"] \subseteq Nat /\ asked["server"] \in Nat
          /\ made["server"] \in Nat
        BY <1>1 DEF Typed, Hetzner!Roles
    <2> QED BY <2>1, <2>2, <2>3 DEF Accounted, Hetzner!MayExist
<1>6. Hetzner!State("server") = "present" => r = "server"
    <2>1. Hetzner!InDestructionOrder(journal.resource, r)
        BY <1>1 DEF Fenced, Hetzner!Coherent
    <2> QED BY <2>1 DEF Hetzner!InDestructionOrder, Hetzner!State, Hetzner!Roles
<1>7. Protected'
    BY <1>1, <1>3, <1>4, <1>5, <1>6 DEF Protected, Hetzner!MayExist, Held, Below, Hetzner!Roles
<1> QED BY <1>2, <1>7 DEF Ordered

LEMMA RemoveOrder ==
    ASSUME Assumptions, OInv, Hetzner!RemoveAnswered \/ Hetzner!RemoveUnanswered
    PROVE  Ordered'
<1>0. /\ ~Hetzner!At("idle") /\ Hetzner!At("remove") /\ Hetzner!Goto("absence")
      /\ UNCHANGED <<journal, made, asked, removed>>
    BY DEF Hetzner!RemoveAnswered, Hetzner!RemoveUnanswered, Hetzner!At
<1>1. /\ journal \in Hetzner!Journal /\ journal # Hetzner!NoJournal
      /\ operation \in Hetzner!Command /\ Fenced
      /\ operation.role \in Hetzner!Roles /\ operation.role \in journal.fenced
    BY <1>0, OrderedCommand DEF Placed
<1>2. Hetzner!Prepared' = {} /\ operation'.step = "absence"
    BY <1>0, <1>1, GotoTyped DEF Fenced, Hetzner!Prepared, Hetzner!State, Hetzner!Steps
<1>3. Placed'
    BY <1>2 DEF Placed, Hetzner!At, Creating, Destroying
<1>4. removing' \subseteq journal.fenced
    BY <1>1 DEF Fenced, Hetzner!RemoveAnswered, Hetzner!RemoveUnanswered
<1>5. Hetzner!Remove(operation.role) \/ UNCHANGED existing
    BY DEF Hetzner!RemoveAnswered, Hetzner!RemoveUnanswered
<1> QED BY <1>0, <1>1, <1>3, <1>4, <1>5, RemovalOrder

LEMMA RemovalLandsOrder ==
    ASSUME Assumptions, OInv, NEW r \in Hetzner!Roles, Hetzner!RemovalLands(r)
    PROVE  Ordered'
<1>0. /\ journal # Hetzner!NoJournal /\ UNCHANGED <<journal, made, asked, removed, operation>>
    BY DEF Hetzner!RemovalLands, OInv, IInv, Accounting
<1>1. /\ journal \in Hetzner!Journal /\ Fenced /\ Placed /\ r \in journal.fenced
    BY <1>0, OrderedHere DEF Fenced, Hetzner!RemovalLands
<1>2. journal.phase \in {"destroying", "destroyed"}
    BY <1>1 DEF Fenced, Hetzner!Coherent
<1>3. Placed'
    BY <1>0, <1>1, <1>2
    DEF Placed, Hetzner!At, Creating, Destroying, Hetzner!Prepared, Hetzner!State
<1>4. removing' \subseteq journal.fenced
    BY <1>1 DEF Fenced, Hetzner!RemovalLands
<1> QED BY <1>0, <1>1, <1>3, <1>4, RemovalOrder DEF Hetzner!RemovalLands

\* The other steps of the world only add, or say who took a resource away.
LEMMA WorldOrder ==
    ASSUME Assumptions, OInv, NEW r \in Hetzner!Roles,
           Hetzner!CreateLands(r) \/ Hetzner!ListsCatchUp(r) \/ Hetzner!RemovedByOthers(r)
    PROVE  Ordered'
<1>1. CASE journal = Hetzner!NoJournal
    BY <1>1 DEF Hetzner!CreateLands, Hetzner!ListsCatchUp, Hetzner!RemovedByOthers, Ordered
<1>2. CASE journal # Hetzner!NoJournal
    <2>0. /\ journal \in Hetzner!Journal /\ Fenced /\ Placed /\ Protected /\ Typed
          /\ UNCHANGED <<journal, removing, operation>>
        BY <1>2, OrderedHere DEF Hetzner!CreateLands, Hetzner!ListsCatchUp, Hetzner!RemovedByOthers
    <2>1. \A s \in Hetzner!Roles : Held(s) => Held(s)'
        <3>1. CASE Hetzner!CreateLands(r)
            BY <2>0, <3>1 DEF Hetzner!CreateLands, Hetzner!Make, Typed, Held
        <3>2. CASE Hetzner!ListsCatchUp(r)
            BY <3>2 DEF Hetzner!ListsCatchUp, Held
        <3>3. CASE Hetzner!RemovedByOthers(r)
            BY <2>0, <3>3 DEF Hetzner!RemovedByOthers, Typed, Held
        <3> QED BY <3>1, <3>2, <3>3
    <2>2. Hetzner!MayExist("server")' => Hetzner!MayExist("server")
        <3>1. CASE Hetzner!CreateLands(r)
            BY <2>0, <3>1
            DEF Hetzner!CreateLands, Hetzner!Make, Typed, Hetzner!MayExist, Hetzner!Roles
        <3>2. CASE Hetzner!ListsCatchUp(r)
            BY <3>2 DEF Hetzner!ListsCatchUp, Hetzner!MayExist
        <3>3. CASE Hetzner!RemovedByOthers(r)
            BY <2>0, <3>3 DEF Hetzner!RemovedByOthers, Typed, Hetzner!MayExist, Hetzner!Roles
        <3> QED BY <3>1, <3>2, <3>3
    <2>3. Protected'
        BY <2>0, <2>1, <2>2 DEF Protected, Below, Hetzner!Roles
    <2>4. Placed'
        <3>1. operation.role \in Hetzner!Roles
            BY <1>2, OrderedHere
        <3>2. Below[operation.role] \subseteq Hetzner!Roles
            BY <3>1 DEF Below, Hetzner!Roles
        <3> QED BY <2>0, <2>1, <3>2 DEF Placed, Hetzner!At, Hetzner!Prepared, Hetzner!State
    <2>5. Fenced'
        BY <2>0 DEF Fenced, Hetzner!Prepared, Hetzner!State
    <2> QED BY <2>3, <2>4, <2>5 DEF Ordered
<1> QED BY <1>1, <1>2

LEMMA OrderedStep ==
    ASSUME Assumptions, OInv, [Hetzner!Next]_Hetzner!vars
    PROVE  OInv'
<1>1. SUFFICES Ordered'
    BY InductiveStep DEF OInv
<1>2. CASE UNCHANGED Hetzner!vars
    BY <1>2
    DEF Hetzner!vars, Hetzner!provider, OInv, Ordered, Fenced, Placed, Protected, Held, Hetzner!At,
                Hetzner!MayExist, Hetzner!Prepared, Hetzner!State
<1>3. CASE \/ Hetzner!BeginApply \/ Hetzner!BeginRestore \/ Hetzner!BeginDestroy
           \/ \E t \in Releases : Hetzner!BeginUpdate(t)
    BY <1>3, BeginApplyOrder, BeginOthersOrder
<1>4. CASE Hetzner!Apply \/ Hetzner!Converge
    BY <1>4, StartOrder, InventoryOrder, CreateOrder, RecordOrder, ConvergeOrder DEF Hetzner!Apply
<1>5. CASE Hetzner!Destroy
    BY <1>5, ReconcileOrder, CheckOrder, RemoveOrder, EndDestroyOrder DEF Hetzner!Destroy
<1>6. CASE Hetzner!Fail
    <2>1. /\ Hetzner!End /\ UNCHANGED <<journal, Hetzner!provider>> /\ ~Hetzner!At("idle")
        BY <1>6 DEF Hetzner!Fail
    <2> QED BY <2>1, OrderedCommand, OrderEnds
<1>7. CASE Hetzner!Environment
    BY <1>7, WorldOrder, RemovalLandsOrder DEF Hetzner!Environment
<1> QED BY <1>2, <1>3, <1>4, <1>5, <1>6, <1>7 DEF Hetzner!Next

LEMMA OrderedInductive == Hetzner!Spec => []OInv
<1> USE Assumed
<1>1. Hetzner!Init => OInv
    BY InitInv DEF Hetzner!Init, OInv, Ordered
<1>2. OInv /\ [Hetzner!Next]_Hetzner!vars => OInv'
    BY OrderedStep
<1> QED BY <1>1, <1>2, PTL DEF Hetzner!Spec

(***************************************************************************)
(* What exists at the provider is in hand: nothing is created twice or lost   *)
(* sight of, and the server is never without its firewall and its address,     *)
(* whatever is interrupted, unless others take one away.                     *)
(***************************************************************************)
THEOREM ProviderCorrect == Hetzner!Spec => []ProviderIsInHand
<1> USE Assumed
<1>1. OInv => Hetzner!ServerIsNeverBare
    BY DEF OInv, IInv, Accounting, Ordered, Protected, Held, Below, Hetzner!MayExist,
           Hetzner!ServerIsNeverBare, Hetzner!Roles
<1>2. Hetzner!Spec => []Hetzner!ResourcesAreAccountedFor
    BY AccountingCorrect
<1>3. Hetzner!Spec => []OInv
    BY OrderedInductive
<1> QED BY <1>1, <1>2, <1>3, PTL DEF ProviderIsInHand, Hetzner!ProviderIsInHand
=============================================================================
