--------------------------- MODULE CloudProviders ---------------------------
(***************************************************************************)
(* The AWS provider's volumes, and the load balancers of AWS, GCE and      *)
(* OpenStack.  They share nothing but the process, so a behaviour is one   *)
(* of the volumes or one of the load balancer of a Service with one of the *)
(* providers.                                                              *)
(***************************************************************************)
EXTENDS AWSVolumes, AWSLoadBalancer, GCELoadBalancer, OpenStackLoadBalancer

VARIABLE part    \* "volumes" or "balancer"

vars == <<diskVars, balancerVars, awsVars, part>>

Init ==
    /\ DiskInit /\ (AWSInit \/ GCEInit \/ OpenStackInit) /\ part \in {"volumes", "balancer"}
    /\ part = "volumes" => provider = "aws" /\ want.spec = CHOOSE s \in Shapes : TRUE
    /\ InstancesInit
    /\ part = "volumes" \/ provider /= "aws" => groupsOf = CHOOSE g \in Groupings : TRUE

Balancer(A) == part = "balancer" /\ A /\ UNCHANGED <<diskVars, part>>
Elsewhere(A) == Balancer(A) /\ UNCHANGED awsVars

Next ==
    \/ part = "volumes" /\ DiskNext /\ UNCHANGED <<balancerVars, awsVars, part>>
    \/ Balancer(AWSNext)
    \/ Elsewhere(GCENext)
    \/ Elsewhere(OpenStackNext)

Spec == Init /\ [][Next]_vars

(***************************************************************************)
(* The service controller repeats a failed call, each step of a call ends, *)
(* and ELB ends its deletions; nothing is assumed of the volumes.          *)
(***************************************************************************)
FairSpec ==
    Spec /\ WF_vars(Balancer(AWSWork)) /\ WF_vars(Elsewhere(GCEWork))
         /\ WF_vars(Elsewhere(OpenStackWork))

(***************************************************************************)
(* The values of the variables of the volumes and of the load balancer.    *)
(***************************************************************************)
TypeOK == /\ DiskTypeOK /\ ServiceTypeOK
          /\ provider = "aws" => AWSTypeOK
          /\ provider = "gce" => GCETypeOK
          /\ provider = "openstack" => OpenStackTypeOK

(***************************************************************************)
(* When the changes of a Service end, repeated calls of EnsureLoadBalancer *)
(* and EnsureLoadBalancerDeleted make its load balancer what it says, or   *)
(* remove it, whatever earlier calls left.                                 *)
(***************************************************************************)
ServiceConverges ==
    <>[](part = "balancer" => CASE provider = "aws"       -> AWSConverged
                                [] provider = "gce"       -> GCEConverged
                                [] provider = "openstack" -> OpenStackConverged)
=============================================================================
