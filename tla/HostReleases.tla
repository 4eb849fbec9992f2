----------------------------- MODULE HostReleases -----------------------------
(***************************************************************************)
(* The two protocols that bring a release to a host: the activation of a      *)
(* release on the host (SystemdActivation), and the deployment of the host     *)
(* (HetznerDeployment).  They share no state.                                *)
(***************************************************************************)
EXTENDS SystemdActivation

CONSTANTS MaxRecords, Reserve, MaxFailures, MaxRejections, MaxRemovals

ASSUME NoneIsNoIdentity == None \notin Nat
ASSUME JournalHoldsReserve == MaxRecords \in Nat \ {0} /\ Reserve \in Nat
ASSUME DeploymentBounds == {MaxFailures, MaxRejections, MaxRemovals} \subseteq Nat

VARIABLES journal, made, existing, listed, asked, removing, removed,
          serverRelease, operation, spent

Hetzner == INSTANCE HetznerDeployment
              WITH host <- serverRelease, command <- operation

deployment == <<journal, made, existing, listed, asked, removing, removed,
                serverRelease, operation, spent>>

\* The properties of the deployment, stated in HetznerDeployment.
ProviderIsInHand == Hetzner!ProviderIsInHand
HostRunsKnownRelease == Hetzner!HostRunsKnownRelease
DestroySettles == Hetzner!DestroySettles
=============================================================================
