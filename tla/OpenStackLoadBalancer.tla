------------------------ MODULE OpenStackLoadBalancer ------------------------
(***************************************************************************)
(* snapshot/pkg/cloudprovider/providers/openstack: the load balancer of    *)
(* one Service with LBaaS v2.  It has a listener for each port, which has  *)
(* a pool with a member for each node and a monitor.  The other objects    *)
(* are a floating address and, if the provider manages them, a security    *)
(* group with rules that open the nodes for it.                            *)
(***************************************************************************)
EXTENDS ServiceController, FiniteSets, SequencesExt

CONSTANTS
    OSShapes,             \* what the Service may ask for: a sequence of ports
    ManageSecurityGroups

\* A Service asks for a port once for each protocol, and here only TCP is supported.
ASSUME OpenStackAssumption ==
    /\ \A s \in OSShapes : /\ s \in Seq([port : Nat \ {0}, nodePort : Nat])
                           /\ \A i, j \in DOMAIN s : s[i].port = s[j].port => i = j
    /\ ManageSecurityGroups \in BOOLEAN

PortNumbers == UNION {{s[i].port : i \in DOMAIN s} : s \in OSShapes}
NodePorts   == UNION {{s[i].nodePort : i \in DOMAIN s} : s \in OSShapes}

NoneYet == [exists |-> FALSE, members |-> {}, monitor |-> FALSE]

\* groups counts the security groups of the name; nodes may be open for the last one.
OpenStackInit ==
    ServiceInit("openstack", OSShapes,
                [lb |-> FALSE, listeners |-> {}, pools |-> [p \in PortNumbers |-> NoneYet],
                 floating |-> FALSE, groups |-> 0, open |-> FALSE])

\* A step is for a port, or for none (0).
On(step) == ~Idle /\ Head(call.steps)[1] = step
port == Head(call.steps)[2]
nodePort == (CHOOSE k \in ToSet(call.spec) : k.port = port).nodePort
\* All steps for the first port, then all for the second, and so on
ForEach(steps, ports) ==
    [i \in 1 .. Len(ports) * Len(steps) |->
        <<steps[1 + ((i - 1) % Len(steps))], ports[1 + ((i - 1) \div Len(steps))]>>]
Once(steps) == ForEach(steps, <<0>>)

Wanted(s) == [i \in DOMAIN s |-> s[i].port]
InTheWay(c) == SetToSeq(c.seen \ ToSet(Wanted(c.spec)))

-----------------------------------------------------------------------------
OSEnsureSteps == Once(<<"balancer", "listeners">>)
OSUpdateSteps == Once(<<"find_pools">>)
OSDeleteSteps == Once(<<"find", "drop_floating", "listeners_to_drop">>)

\* What the lookup before it tells makes a request necessary, or not.
Make(needed, new) == IF needed THEN Request(new, call) ELSE Read(call)

ensureLoadBalancer == On("balancer") /\ Make(~cloud.lb, [cloud EXCEPT !.lb = TRUE])

PortSteps     == <<"listener", "pool", "members", "member", "monitor">>
ObsoleteSteps == <<"drop_monitor", "drop_members", "drop_pool", "drop_listener">>

\* Variant: the obsolete listeners stay.
ensurePlan_NoObsolete(c) ==
    ForEach(PortSteps, Wanted(c.spec)) \o Once(<<"floating">>)
      \o IF ManageSecurityGroups THEN Once(<<"group", "rules", "port">>) ELSE <<>>

\* All ports, one after the other, then the listeners that are obsolete
ensurePlan(c) ==
    ForEach(PortSteps, Wanted(c.spec)) \o ForEach(ObsoleteSteps, InTheWay(c))
      \o Once(<<"floating">>)
      \o IF ManageSecurityGroups THEN Once(<<"group", "rules", "port">>) ELSE <<>>

getListeners ==
    LET c == [call EXCEPT !.seen = cloud.listeners]
    IN  On("listeners") /\ Read([c EXCEPT !.steps = @ \o ensurePlan(c)])

ensureListener ==
    On("listener")
      /\ Make(port \notin call.seen, [cloud EXCEPT !.listeners = @ \cup {port}])

ensurePool ==
    On("pool") /\ Make(~cloud.pools[port].exists, [cloud EXCEPT !.pools[port].exists = TRUE])

(***************************************************************************)
(* Members are missing, for which there is a request each, and then those  *)
(* that are obsolete are deleted.                                          *)
(***************************************************************************)
getMembers ==
    LET members == call.nodes \X {nodePort}
        is      == cloud.pools[port].members
    IN  /\ On("members")
        /\ Read([call EXCEPT !.todo = ((members \ is) \X {"create"}) \cup ((is \ members) \X {"delete"})])

ensureMembers ==
    LET creations == {e \in call.todo : e[2] = "create"}
        apply(e) == [cloud EXCEPT !.pools[port].members =
                        IF e[2] = "create" THEN @ \cup {e[1]} ELSE @ \ {e[1]}]
    IN  On("member") /\ EachOf(IF creations /= {} THEN creations ELSE call.todo, apply)

ensureMonitor ==
    On("monitor") /\ Make(~cloud.pools[port].monitor, [cloud EXCEPT !.pools[port].monitor = TRUE])

\* A listener goes with its pool, the pool's members and monitor before it.
dropListener ==
    LET pool == cloud.pools[port]
    IN  \/ On("drop_monitor") /\ Make(pool.monitor, [cloud EXCEPT !.pools[port].monitor = FALSE])
        \/ /\ On("drop_members")
           /\ IF pool.members = {}
                THEN Read(call)
                ELSE \E m \in pool.members :
                       LET dropped == [cloud EXCEPT !.pools[port].members = @ \ {m}]
                       IN  \/ cloud' = dropped /\ UNCHANGED <<synced, call, balancerFaults>>
                           \/ BalancerFault /\ cloud' \in {cloud, dropped} /\ Fails
        \/ On("drop_pool") /\ RequestIf(pool.exists, [cloud EXCEPT !.pools[port] = NoneYet], call)
        \/ On("drop_listener") /\ Request([cloud EXCEPT !.listeners = @ \ {port}], call)

ensureFloatingIP == On("floating") /\ Make(~cloud.floating, [cloud EXCEPT !.floating = TRUE])

(***************************************************************************)
(* A security group is made each time, whatever there is.  From here on a  *)
(* failure deletes the load balancer: "cleanup what was created so far".   *)
(***************************************************************************)
ensureSecurityGroups ==
    LET CleanUp(c) == [c EXCEPT !.deferred = OSDeleteSteps]
        create == [cloud EXCEPT !.groups = @ + 1]
        open   == [cloud EXCEPT !.open = TRUE]
    IN  \/ /\ On("group")
           /\ \/ cloud' = create /\ Proceed(CleanUp(call)) /\ UNCHANGED balancerFaults
              \/ /\ BalancerFault /\ cloud' \in {cloud, create}
                 /\ call' = [call EXCEPT !.steps = OSDeleteSteps, !.failed = TRUE] /\ UNCHANGED synced
        \/ On("rules") /\ Request(open, call)
        \/ On("port") /\ Request(cloud, call)

-----------------------------------------------------------------------------
\* The listeners and pools must be there; then port by port.
findPools ==
    LET ports == Wanted(call.spec)
    IN  /\ On("find_pools")
        /\ IF ToSet(ports) \subseteq cloud.listeners /\ \A p \in cloud.listeners : cloud.pools[p].exists
             THEN Read([call EXCEPT !.steps = @ \o ForEach(<<"members", "member">>, ports)])
             ELSE Fails /\ NoRequest

-----------------------------------------------------------------------------
findLoadBalancer ==
    /\ On("find")
    /\ IF cloud.lb THEN Read(call)
       ELSE /\ NoRequest
            /\ Proceed([call EXCEPT !.steps = <<Head(@)>>])

dropFloatingIP == On("drop_floating") /\ Make(cloud.floating, [cloud EXCEPT !.floating = FALSE])

\* Variant: the listeners go before their pools.
DropSteps_ListenersFirst(ports) ==
    ForEach(<<"drop_listener">>, ports) \o ForEach(<<"drop_monitor">>, ports)
      \o ForEach(<<"drop_members", "drop_pool">>, ports)
      \o Once(<<"drop_balancer", "drop_group", "close_nodes">>)

DropSteps(ports) ==
    ForEach(<<"drop_monitor">>, ports) \o ForEach(<<"drop_members", "drop_pool">>, ports)
      \o ForEach(<<"drop_listener">>, ports)
      \o Once(<<"drop_balancer">>)
      \o IF ManageSecurityGroups THEN Once(<<"drop_group", "close_nodes">>) ELSE <<>>

\* The pool of a listener that has none is used like any other: the process panics.
Headless == \E p \in cloud.listeners : ~cloud.pools[p].exists

listListeners ==
    /\ On("listeners_to_drop")
    /\ IF Headless
         THEN call' = NoCall /\ UNCHANGED synced /\ NoRequest
         ELSE Read([call EXCEPT !.steps = @ \o DropSteps(SetToSeq(cloud.listeners))])

deleteLoadBalancer_OS == On("drop_balancer") /\ Request([cloud EXCEPT !.lb = FALSE], call)

\* The group is found by its name, which must be that of one group only.
deleteSecurityGroup_OS ==
    \/ /\ On("drop_group")
       /\ IF cloud.groups = 1
            THEN Request([cloud EXCEPT !.groups = 0], call)
            ELSE Proceed([call EXCEPT !.steps = <<Head(@)>>]) /\ NoRequest
    \/ On("close_nodes") /\ Request([cloud EXCEPT !.open = FALSE], call)

OpenStackWork ==
    /\ provider = "openstack"
    /\ \/ Start("ensure", OSEnsureSteps, <<>>, {})
       \/ Start("update", OSUpdateSteps, <<>>, {})
       \/ Start("delete", OSDeleteSteps, <<>>, {})
       \/ ensureLoadBalancer \/ getListeners \/ ensureListener \/ ensurePool \/ getMembers
       \/ ensureMembers \/ ensureMonitor \/ dropListener \/ ensureFloatingIP \/ ensureSecurityGroups
       \/ findPools \/ findLoadBalancer \/ dropFloatingIP \/ listListeners
       \/ deleteLoadBalancer_OS \/ deleteSecurityGroup_OS
    /\ UNCHANGED <<provider, want, changes>>

OpenStackNext == OpenStackWork \/ (provider = "openstack" /\ Change(OSShapes))

-----------------------------------------------------------------------------
OpenStackTypeOK ==
    /\ want.spec \in OSShapes /\ synced.spec \in OSShapes
    /\ cloud.listeners \subseteq PortNumbers
    /\ \A p \in PortNumbers : cloud.pools[p].members \subseteq BalancerNodes \X NodePorts

\* Listeners for the ports and no others, each with its pool and monitor
OpenStackFits(s) ==
    /\ cloud.lb /\ cloud.floating
    /\ cloud.listeners = ToSet(Wanted(s))
    /\ \A p \in cloud.listeners : cloud.pools[p].exists /\ cloud.pools[p].monitor

OpenStackGone == ~cloud.lb /\ cloud.listeners = {} /\ ~cloud.floating

(***************************************************************************)
(* After EnsureLoadBalancer or UpdateLoadBalancer has succeeded the load   *)
(* balancer is as the Service says, and the members of each pool are the   *)
(* nodes at the port's node port, whatever calls before it left halfway.   *)
(***************************************************************************)
OpenStackEnsuredIsExact ==
    provider = "openstack" /\ Idle /\ synced.ensured =>
        /\ OpenStackFits(synced.spec)
        /\ synced.by /= "none" =>
             \A k \in ToSet(synced.spec) :
                cloud.pools[k.port].members = synced.nodes \X {k.nodePort}

(***************************************************************************)
(* No pool, and no member or monitor of one, is without its listener, and  *)
(* no listener or floating address without the load balancer: deletion     *)
(* starts from the load balancer and finds nothing else.                   *)
(***************************************************************************)
NothingIsLost ==
    provider = "openstack" =>
        /\ cloud.listeners /= {} \/ cloud.floating => cloud.lb
        /\ \A p \in PortNumbers : cloud.pools[p] /= NoneYet =>
              p \in cloud.listeners /\ cloud.pools[p].exists

OpenStackConverged ==
    IF want.present THEN OpenStackFits(want.spec) ELSE OpenStackGone \/ Headless
=============================================================================
