------------------------- MODULE AuthorityRegister -------------------------
(***************************************************************************)
(* What a coordinator authority table promises its callers: one register   *)
(* per application, granted to one coordinator at a time, whose epoch       *)
(* fences every earlier holder, and in which one request takes effect at    *)
(* most once.  The requests, reads, retries and lost responses by which     *)
(* src/core/lib/db/tables/coordinator-authority.js keeps that promise are   *)
(* in CoordinatorAuthority, which implements this specification.            *)
(***************************************************************************)
EXTENDS Naturals

CONSTANTS
    Coordinators,   \* coordinator identities
    Requests,       \* caller-chosen request identities
    None            \* the identity of nobody and of no request

VARIABLES
    holder,     \* coordinator named by the register, None before the first grant
    epoch,      \* how often the register was granted
    grant,      \* the request that granted the current epoch
    active,     \* whether the current holder still owns the register
    version,    \* how often the register changed
    settled     \* requests that took effect

register == <<holder, epoch, grant, active, version, settled>>

Init ==
    /\ holder = None
    /\ epoch = 0
    /\ grant = None
    /\ active = FALSE
    /\ version = 0
    /\ settled = {}

\* A new epoch: only over an inactive register, unless the caller replaces
\* the active holder explicitly.
Grant(c, r) ==
    /\ r \notin settled
    /\ holder' = c
    /\ epoch' = epoch + 1
    /\ grant' = r
    /\ active' = TRUE
    /\ version' = version + 1
    /\ settled' = settled \cup {r}

Acquire(c, r) == ~active /\ Grant(c, r)

Takeover(c, r) == active /\ Grant(c, r)

\* The holder reports that it is alive, or gives the register up.
Heartbeat(r) ==
    /\ active
    /\ r \notin settled
    /\ version' = version + 1
    /\ settled' = settled \cup {r}
    /\ UNCHANGED <<holder, epoch, grant, active>>

Release(r) ==
    /\ active
    /\ r \notin settled
    /\ active' = FALSE
    /\ version' = version + 1
    /\ settled' = settled \cup {r}
    /\ UNCHANGED <<holder, epoch, grant>>

\* A renewal leaves no receipt: it only advances the version.
Renew ==
    /\ active
    /\ version' = version + 1
    /\ UNCHANGED <<holder, epoch, grant, active, settled>>

Next ==
    \/ \E r \in Requests :
          \/ \E c \in Coordinators : Acquire(c, r) \/ Takeover(c, r)
          \/ Heartbeat(r)
          \/ Release(r)
    \/ Renew

Spec == Init /\ [][Next]_register
=============================================================================
