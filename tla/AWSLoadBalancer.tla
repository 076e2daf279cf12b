--------------------------- MODULE AWSLoadBalancer ---------------------------
(***************************************************************************)
(* snapshot/pkg/cloudprovider/providers/aws: the load balancer of one      *)
(* Service.  EnsureLoadBalancer, UpdateLoadBalancer and                    *)
(* EnsureLoadBalancerDeleted are sequences of requests to EC2 and ELB;     *)
(* each request may fail.                                                  *)
(***************************************************************************)
EXTENDS ServiceController

CONSTANTS
    Shapes,          \* what the Service may ask for
    SecurityGroups,
    TaggedGroups,    \* those that have the tag of the cluster
    Groupings        \* the groups each node's instance may have

ASSUME ShapesAssumption ==
    \A s \in Shapes : /\ s.proxy \in BOOLEAN
                      /\ \A k, l \in s.listeners : k.port = l.port => k = l

ASSUME GroupingsAssumption ==
    Groupings \subseteq [BalancerNodes -> SUBSET SecurityGroups] /\ Groupings /= {}

VARIABLES
    up,          \* the nodes whose instance is running
    groupsOf,    \* the security groups of each node's instance, constant
    cache        \* lastNodeNames, and the nodes in lastInstancesByNodeNames

awsVars == <<up, groupsOf, cache>>

NoGroup == [exists |-> FALSE, tagged |-> FALSE, rules |-> {}]
NoLB    == [exists |-> FALSE, listeners |-> {}, proxied |-> {}, subnets |-> {},
            attributes |-> "default", health |-> "default", instances |-> {}]

InstancesInit ==
    /\ up = BalancerNodes
    /\ groupsOf \in Groupings
    /\ cache = [names |-> {}, found |-> {}]

AWSInit ==
    ServiceInit("aws", Shapes, [group |-> NoGroup, lb |-> NoLB, open |-> {}, busy |-> FALSE])

-----------------------------------------------------------------------------
\* The requests of EnsureLoadBalancer, in their order
EnsureSteps ==
    <<"group", "tag", "authorize", "revoke", "describe", "create", "detach", "attach",
      "unlisten", "listen", "policy", "backends", "attributes", "describe_again", "health",
      "groups", "rules", "register", "deregister">>

UpdateSteps == <<"describe", "register", "deregister", "groups", "rules">>

\* Variant: the rules of the nodes are closed at the end.
DeleteSteps_LBFirst == <<"describe", "delete_balancer", "delete_group", "groups", "rules">>

DeleteSteps == <<"describe", "groups", "rules", "delete_balancer", "delete_group">>

ensureSecurityGroup ==
    LET group == cloud.group
    IN  /\ At("group")
        /\ IF group.exists
             THEN RequestIf(~group.tagged, [cloud EXCEPT !.group.tagged = TRUE], call)
             ELSE Request([cloud EXCEPT !.group = [NoGroup EXCEPT !.exists = TRUE]], call)

tagSecurityGroup ==
    At("tag") /\ RequestIf(~cloud.group.tagged, [cloud EXCEPT !.group.tagged = TRUE], call)

\* The rules of the service: each port from each range, and ICMP
permissions(s) ==
    ({k.port : k \in s.listeners} \X s.ranges) \cup {<<"icmp", "0.0.0.0/0">>}

\* "Makes sure the security group ingress is exactly the specified permissions"
setSecurityGroupIngress ==
    LET add    == permissions(call.spec) \ cloud.group.rules
        remove == cloud.group.rules \ permissions(call.spec)
    IN  \/ /\ At("authorize")
           /\ RequestIf(add /= {}, [cloud EXCEPT !.group.rules = @ \cup add], call)
        \/ /\ At("revoke")
           /\ RequestIf(remove /= {}, [cloud EXCEPT !.group.rules = @ \ remove], call)

(***************************************************************************)
(* What is described here is what the rest of the call compares with.      *)
(***************************************************************************)
describeLoadBalancer ==
    /\ At("describe")
    /\ IF cloud.lb.exists \/ call.op = "ensure"
         THEN Read([call EXCEPT !.seen = cloud.lb])
         ELSE /\ NoRequest
              /\ IF call.op = "delete" THEN Succeeds ELSE Fails

createLoadBalancer ==
    /\ At("create")
    /\ RequestIf(~call.seen.exists,
                 [cloud EXCEPT !.lb = [NoLB EXCEPT !.exists = TRUE,
                                                   !.listeners = call.spec.listeners,
                                                   !.subnets = call.spec.subnets]],
                 call)

syncSubnets ==
    LET seen      == call.seen
        additions == call.spec.subnets \ seen.subnets
        removals  == seen.subnets \ call.spec.subnets
    IN  \/ /\ At("detach")
           /\ RequestIf(seen.exists /\ removals /= {},
                        [cloud EXCEPT !.lb.subnets = @ \ removals], call)
        \/ /\ At("attach")
           /\ RequestIf(seen.exists /\ additions /= {},
                        [cloud EXCEPT !.lb.subnets = @ \cup additions], call)

\* ELB takes no second listener for a port.
PortsFree(additions) ==
    \A a \in additions : \A k \in cloud.lb.listeners : a.port /= k.port

syncListeners ==
    LET seen      == call.seen
        additions == call.spec.listeners \ seen.listeners
        removals  == seen.listeners \ call.spec.listeners
    IN  \/ /\ At("unlisten")
           /\ RequestIf(seen.exists /\ removals /= {},
                        [cloud EXCEPT !.lb.listeners = @ \ removals], call)
        \/ /\ At("listen")
           /\ IF seen.exists => PortsFree(additions)
                THEN RequestIf(seen.exists /\ additions /= {},
                               [cloud EXCEPT !.lb.listeners = @ \cup additions], call)
                ELSE Fails /\ NoRequest

\* Variant: policies of ports without a listener are left.
backendPolicies_New(s, seen) ==
    {<<p, s.proxy>> : p \in {k.nodePort : k \in {l \in s.listeners :
                                (l.nodePort \in seen.proxied) /= s.proxy}}}

\* The ports whose policy is to change, and "old policies will stick around"
backendPolicies(s, seen) ==
    LET ports == {k.nodePort : k \in s.listeners}
    IN  {<<p, s.proxy>> : p \in {q \in ports : (q \in seen.proxied) /= s.proxy}}
          \cup {<<p, FALSE>> : p \in seen.proxied \ ports}

createProxyProtocolPolicy ==
    /\ At("policy")
    /\ RequestIf(call.spec.proxy, cloud,
                 [call EXCEPT !.todo = backendPolicies(call.spec, call.seen)])

setBackendPolicies ==
    LET set(e) == [cloud EXCEPT !.lb.proxied = IF e[2] THEN @ \cup {e[1]} ELSE @ \ {e[1]}]
    IN  At("backends") /\ EachOf(call.todo, set)

syncAttributes ==
    /\ At("attributes")
    /\ RequestIf(cloud.lb.attributes /= call.spec.attributes,
                 [cloud EXCEPT !.lb.attributes = call.spec.attributes], call)

describeAgain ==
    /\ At("describe_again")
    /\ IF cloud.lb /= call.seen
         THEN Read([call EXCEPT !.seen = cloud.lb])
         ELSE Proceed(call) /\ NoRequest

ensureLoadBalancerHealthCheck ==
    /\ At("health")
    /\ RequestIf(call.seen.health /= call.spec.health,
                 [cloud EXCEPT !.lb.health = call.spec.health], call)

\* The tagged groups of the instance, else, "for back-compat", the others
candidateGroups(n) ==
    IF groupsOf[n] \cap TaggedGroups /= {} THEN groupsOf[n] \cap TaggedGroups ELSE groupsOf[n]

\* More than one is an error; an instance without group is skipped.
findSecurityGroupFails(n) == \E g, h \in candidateGroups(n) : g /= h

neededGroups(nodes) == UNION {candidateGroups(n) : n \in nodes}

(***************************************************************************)
(* The rules to add and to remove, from what is open now.  Only groups     *)
(* with the tag are listed: a rule in another is not seen, nor removed.    *)
(***************************************************************************)
updateInstanceSecurityGroups ==
    LET needed == neededGroups(call.nodes)
        listed == cloud.open \cap TaggedGroups
    IN  /\ At("groups")
        /\ IF \E n \in call.nodes : findSecurityGroupFails(n)
             THEN Fails /\ NoRequest
             ELSE Read([call EXCEPT !.todo = ((needed \ listed) \X {TRUE})
                                               \cup ((listed \ needed) \X {FALSE})])

changeSecurityGroupIngress ==
    LET change(e) == [cloud EXCEPT !.open = IF e[2] THEN @ \cup {e[1]} ELSE @ \ {e[1]}]
    IN  At("rules") /\ EachOf(call.todo, change)

(***************************************************************************)
(* Registers what is missing, then deregisters what is too much.  Update   *)
(* answers an error of these two with success.                             *)
(***************************************************************************)
ensureLoadBalancerInstances ==
    LET additions == call.nodes \ call.seen.instances
        removals  == call.seen.instances \ call.nodes
        registered   == [cloud EXCEPT !.lb.instances = @ \cup additions]
        deregistered == [cloud EXCEPT !.lb.instances = @ \ removals]
    IN  \/ At("register") /\ RequestIf(additions /= {}, registered, call)
        \/ At("deregister") /\ RequestIf(removals /= {}, deregistered, call)
        \/ /\ call.op = "update" /\ BalancerFault
           /\ \/ At("register") /\ additions /= {} /\ cloud' \in {cloud, registered}
              \/ At("deregister") /\ removals /= {} /\ cloud' \in {cloud, deregistered}
           /\ Succeeds

deleteLoadBalancer ==
    At("delete_balancer") /\ Request([cloud EXCEPT !.lb = NoLB, !.busy = TRUE], call)

(***************************************************************************)
(* EC2 refuses while the load balancer is being deleted in the background, *)
(* or a rule names the group; after ten minutes of that the call ends with *)
(* an error.                                                               *)
(***************************************************************************)
deleteSecurityGroup ==
    /\ At("delete_group")
    /\ \/ ~cloud.busy /\ cloud.open = {} /\ Request([cloud EXCEPT !.group = NoGroup], call)
       \/ cloud.busy /\ BalancerFault /\ Fails /\ UNCHANGED cloud
       \/ cloud.open /= {} /\ Fails /\ NoRequest

BackgroundDeletion ==
    /\ cloud.busy
    /\ cloud' = [cloud EXCEPT !.busy = FALSE]
    /\ UNCHANGED <<synced, call, balancerFaults>>

(***************************************************************************)
(* The instances of the nodes: those of the last time, if there were any   *)
(* and the names are the same, else those that are running.  Nodes without *)
(* are left out.                                                           *)
(***************************************************************************)
getInstancesByNodeNamesCached ==
    IF cache.names = want.nodes /\ cache.found /= {} THEN cache.found ELSE want.nodes \cap up

\* A lookup that fails changes nothing: the call is still to be made.
FindInstances ==
    LET found == getInstancesByNodeNamesCached
    IN  /\ \/ StartServing(found, "ensure", EnsureSteps, <<>>, NoLB)
           \/ StartServing(found, "update", UpdateSteps, <<>>, NoLB)
        /\ cache' = IF found = {} THEN cache ELSE [names |-> want.nodes, found |-> found]
        /\ UNCHANGED <<up, groupsOf>>

AWSSteps ==
    \/ Start("delete", DeleteSteps, <<>>, NoLB)
    \/ ensureSecurityGroup \/ tagSecurityGroup \/ setSecurityGroupIngress
    \/ describeLoadBalancer \/ createLoadBalancer \/ syncSubnets \/ syncListeners
    \/ createProxyProtocolPolicy \/ setBackendPolicies \/ syncAttributes \/ describeAgain
    \/ ensureLoadBalancerHealthCheck \/ updateInstanceSecurityGroups
    \/ changeSecurityGroupIngress \/ ensureLoadBalancerInstances
    \/ deleteLoadBalancer \/ deleteSecurityGroup \/ BackgroundDeletion

AWSWork ==
    /\ provider = "aws"
    /\ FindInstances \/ (AWSSteps /\ UNCHANGED awsVars)
    /\ UNCHANGED <<provider, want, changes>>

\* A node's instance is stopped, or started again.
NodeStopsOrStarts(n) ==
    /\ \/ n \in up /\ up' = up \ {n} /\ changes < MaxChanges /\ changes' = changes + 1
       \/ n \notin up /\ up' = up \cup {n} /\ UNCHANGED changes
    /\ UNCHANGED <<provider, want, synced, cloud, call, balancerFaults, groupsOf, cache>>

AWSNext ==
    \/ AWSWork
    \/ /\ provider = "aws"
       /\ \/ Change(Shapes) /\ UNCHANGED awsVars
          \/ \E n \in BalancerNodes : NodeStopsOrStarts(n)

-----------------------------------------------------------------------------
AWSTypeOK ==
    /\ want.spec \in Shapes /\ synced.spec \in Shapes
    /\ cloud.lb.instances \subseteq BalancerNodes
    /\ cloud.open \subseteq SecurityGroups
    /\ up \subseteq BalancerNodes
    /\ groupsOf \in Groupings
    /\ cache.found \subseteq cache.names /\ cache.names \subseteq BalancerNodes

\* The load balancer, its policies and its group are as the Service says.
Fits(s) ==
    /\ cloud.lb.exists
    /\ cloud.lb.listeners = s.listeners
    /\ cloud.lb.proxied = IF s.proxy THEN {k.nodePort : k \in s.listeners} ELSE {}
    /\ cloud.lb.subnets = s.subnets
    /\ cloud.lb.attributes = s.attributes /\ cloud.lb.health = s.health
    /\ cloud.group.tagged /\ cloud.group.rules = permissions(s)

(***************************************************************************)
(* Once EnsureLoadBalancer has succeeded, whatever failed in the calls     *)
(* before it, everything is as the Service says, nothing of an earlier one *)
(* is left; exactly the instances that were found are registered, all of   *)
(* nodes that were asked for; their groups are open, and no other group    *)
(* that has the tag.                                                       *)
(***************************************************************************)
EnsuredIsExact ==
    provider = "aws" /\ Idle /\ synced.ensured =>
        /\ Fits(synced.spec)
        /\ synced.by = "ensure" =>
             /\ synced.nodes \subseteq synced.asked
             /\ cloud.lb.instances = synced.nodes
             /\ neededGroups(synced.nodes) \subseteq cloud.open
             /\ cloud.open \cap TaggedGroups \subseteq neededGroups(synced.nodes)

(***************************************************************************)
(* A tagged group is open for the load balancer only while there is one: a *)
(* repeated EnsureLoadBalancerDeleted stops when it finds none, and could  *)
(* not close the rule any more.                                            *)
(***************************************************************************)
OpenOnlyForBalancer ==
    provider = "aws" /\ cloud.open \cap TaggedGroups /= {} => cloud.lb.exists

\* The load balancer is as the Service says, or gone with its rules in tagged groups.
AWSConverged ==
    IF want.present THEN Fits(want.spec)
                    ELSE ~cloud.lb.exists /\ cloud.open \cap TaggedGroups = {}
=============================================================================
