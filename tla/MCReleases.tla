----------------------------- MODULE MCReleases -----------------------------
(***************************************************************************)
(* A behaviour of this instance is the activation of a release or the         *)
(* deployment of a host, chosen at its start.                                *)
(***************************************************************************)
EXTENDS HostReleases

CONSTANT MaxFaults

ASSUME FaultsAreBounded == MaxFaults \in Nat

VARIABLE subject

all == <<subject, vars, deployment>>

InitReleases ==
    /\ InitAll
    /\ Hetzner!Init
    /\ \/ subject = "activation"
       \/ subject = "deployment" /\ runs = [i \in Runs |-> NoRun]

\* Failures, rejections and removals in one deployment, MaxFaults together.
Faults == spent.failures + spent.rejections + spent.removals

\* In the deployment the host is at rest, and the other way round.
NextReleases ==
    /\ UNCHANGED subject
    /\ \/ subject = "activation" /\ NextAll /\ UNCHANGED deployment
       \/ /\ subject = "deployment"
          /\ Hetzner!Next
          /\ Faults' <= MaxFaults
          /\ UNCHANGED vars

FairnessReleases ==
    /\ WF_vars(subject = "activation" /\ Drive)
    /\ WF_vars(subject = "activation" /\ Recover)
    /\ SF_vars(subject = "activation" /\ Healthy)
    /\ SF_vars(subject = "activation" /\ RetainHealthy)
    /\ WF_deployment(subject = "deployment" /\ Hetzner!BeginDestroy)
    /\ WF_deployment(subject = "deployment" /\ Hetzner!Destroy)
    /\ SF_deployment(subject = "deployment" /\ Hetzner!RemoveAnswered)
    /\ \A r \in {"firewall", "primaryIp", "server"} :
          /\ WF_deployment(subject = "deployment" /\ Hetzner!CreateLands(r))
          /\ WF_deployment(subject = "deployment" /\ Hetzner!ListsCatchUp(r))

SpecReleases == InitReleases /\ [][NextReleases]_all /\ FairnessReleases
=============================================================================
