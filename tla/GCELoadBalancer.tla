--------------------------- MODULE GCELoadBalancer ---------------------------
(***************************************************************************)
(* snapshot/pkg/cloudprovider/providers/gce: the load balancer of one      *)
(* Service, "four separate GCE resources - a static IP address, a firewall *)
(* rule, a target pool, and a forwarding rule", and a health check if the  *)
(* Service asks for one.  They share the load balancer's name.             *)
(***************************************************************************)
EXTENDS ServiceController, FiniteSetsExt

CONSTANTS
    GCEShapes,    \* what the Service may ask for
    IPs,          \* GCE's addresses
    UserIPs,      \* static addresses the user reserved in the project
    MaxTargetPoolCreateInstances

ASSUME GCEAssumption ==
    /\ "none" \notin IPs \cup UserIPs /\ IPs \cap UserIPs = {}
    /\ \A s \in GCEShapes : s.ip \in IPs \cup UserIPs \cup {"none"} /\ s.ports /= {}
    /\ MaxTargetPoolCreateInstances \in Nat \ {0}

NoRule     == [exists |-> FALSE, ip |-> "none", range |-> <<>>, protocol |-> "none"]
NoFirewall == [exists |-> FALSE, ip |-> "none", ports |-> {}, protocol |-> "none", ranges |-> {}]
NoPool     == [exists |-> FALSE, affinity |-> "none", checked |-> FALSE, instances |-> {}]

(***************************************************************************)
(* address is what is reserved under the load balancer's name, check the   *)
(* port its health check probes.                                           *)
(***************************************************************************)
GCEInit ==
    ServiceInit("gce", GCEShapes,
                [rule |-> NoRule, address |-> "none", firewall |-> NoFirewall, pool |-> NoPool,
                 check |-> "none"])

(***************************************************************************)
(* What a call knows: of the rule, of the address it uses (owned: by the   *)
(* user; safe: it may be released at the end), of the pool, and of the     *)
(* health check it passes on.                                              *)
(***************************************************************************)
Unknown == [rule |-> NoRule, ruleNeedsUpdate |-> FALSE, owned |-> FALSE, safe |-> FALSE,
            poolExists |-> FALSE, poolNeedsUpdate |-> FALSE, check |-> "none"]

-----------------------------------------------------------------------------
\* Variant: the rule comes before the firewall.
GCEEnsureSteps_RuleFirst ==
    <<"get_rule", "owner", "address", "pool?", "check?", "check", "rebuild", "firewall", "release">>

\* What EnsureLoadBalancer does in any case; "rebuild" adds what is needed.
GCEEnsureSteps ==
    <<"get_rule", "owner", "address", "firewall", "pool?", "check?", "check", "rebuild", "release">>

GCEUpdateSteps == <<"get_pool", "add", "remove", "verify">>

GCEDeleteSteps == <<"check?", "tear_down">>

\* Variant: the address is not deleted.
TearDown_KeepAddress == {<<"firewall">>, <<"rule", "pool", "check">>}

\* What the goroutines of EnsureLoadBalancerDeleted delete
TearDown == {<<"firewall">>, <<"address">>, <<"rule", "pool", "check">>}

\* The defer statement stands behind the first request.
Deferred(c) == [c EXCEPT !.deferred = <<"release">>]

-----------------------------------------------------------------------------
loadBalancerPortRange(ports) == <<Min(ports), Max(ports)>>

\* The rule is to be created, or to be replaced.
forwardingRuleNeedsUpdate(s) ==
    LET rule == cloud.rule
    IN  \/ ~rule.exists
        \/ s.ip \notin {"none", rule.ip}
        \/ rule.range /= loadBalancerPortRange(s.ports)
        \/ s.protocol /= rule.protocol

getForwardingRule ==
    /\ At("get_rule")
    /\ Read(Deferred([call EXCEPT !.seen.rule = cloud.rule,
                                  !.seen.ruleNeedsUpdate = forwardingRuleNeedsUpdate(call.spec)]))

(***************************************************************************)
(* Is the requested address one of the project's reserved ones, the one    *)
(* under the load balancer's name among them?  When they cannot be listed, *)
(* the answer is no: the caller looks at another error.  What the rule has *)
(* and nobody reserved may be released.                                    *)
(***************************************************************************)
projectOwnsStaticIP ==
    LET ip         == call.spec.ip
        Owned(yes) == [call EXCEPT !.seen.owned = yes,
                                   !.seen.safe = ~yes /\ ip /= "none" /\ ip = call.seen.rule.ip]
    IN  /\ At("owner") /\ UNCHANGED cloud
        /\ \/ /\ Proceed(Owned(ip \in (UserIPs \cup {cloud.address}) \ {"none"}))
              /\ UNCHANGED balancerFaults
           \/ ip /= "none" /\ BalancerFault /\ Proceed(Owned(FALSE))

(***************************************************************************)
(* Reserves an address under the load balancer's name: the rule's own,     *)
(* which becomes static, or a new one.  One that has the name is adopted;  *)
(* GCE reserves no address twice.  The answer is the call's address.       *)
(***************************************************************************)
ensureStaticIP ==
    LET existing == call.seen.rule.ip
        Reserve(ip) == Request([cloud EXCEPT !.address = ip],
                               [call EXCEPT !.answer = ip, !.seen.safe = TRUE])
    IN  IF cloud.address /= "none"
          THEN Read([call EXCEPT !.answer = cloud.address])
        ELSE IF existing = "none"
          THEN \E ip \in IPs : Reserve(ip)
        ELSE IF existing \in UserIPs
          THEN Fails /\ NoRequest
          ELSE Reserve(existing)

\* The address that will be used: no address is right for another request.
chooseAddress ==
    LET ip == call.spec.ip
    IN  /\ At("address")
        /\ CASE ip = "none"              -> ensureStaticIP
             [] call.seen.owned          -> Proceed([call EXCEPT !.answer = ip]) /\ NoRequest
             [] ~call.seen.owned /\ ip = call.seen.rule.ip -> ensureStaticIP
             [] OTHER                    -> Fails /\ NoRequest

\* Variant: the description, with the address, is not compared.
firewallNeedsUpdate_AnyAddress(s, ip) ==
    LET fw == cloud.firewall
    IN  ~fw.exists \/ fw.ports /= s.ports \/ fw.ranges /= s.ranges

\* The protocol is not compared.
firewallNeedsUpdate(s, ip) ==
    LET fw == cloud.firewall
    IN  ~fw.exists \/ fw.ip /= ip \/ fw.ports /= s.ports \/ fw.ranges /= s.ranges

firewallObject(s, ip) ==
    [exists |-> TRUE, ip |-> ip, ports |-> s.ports, protocol |-> s.protocol, ranges |-> s.ranges]

ensureFirewall ==
    /\ At("firewall")
    /\ RequestIf(firewallNeedsUpdate(call.spec, call.answer),
                 [cloud EXCEPT !.firewall = firewallObject(call.spec, call.answer)], call)

targetPoolNeedsUpdate ==
    LET pool == cloud.pool
    IN  /\ At("pool?")
        /\ Read([call EXCEPT !.seen.poolExists = pool.exists,
                             !.seen.poolNeedsUpdate = ~pool.exists
                                                        \/ pool.affinity /= call.spec.affinity])

(***************************************************************************)
(* A health check that is missing, or one too much, means that the pool is *)
(* to be made again.                                                       *)
(***************************************************************************)
getHealthCheck ==
    LET wanted == call.spec.check /= "none"
        exists == cloud.check /= "none"
    IN  /\ At("check?")
        /\ IF call.op = "ensure"
             THEN Read([call EXCEPT !.seen.poolNeedsUpdate = @ \/ wanted /= exists])
           ELSE IF wanted
             THEN Read([call EXCEPT !.seen.check = cloud.check, !.todo = TearDown])
             ELSE Proceed([call EXCEPT !.todo = TearDown]) /\ NoRequest

(***************************************************************************)
(* Creates the health check or mends it.  What it answers in the latter    *)
(* case is the health check as it was before, and that is what             *)
(* createTargetPool will ensure in its turn.                               *)
(***************************************************************************)
ensureHTTPHealthCheck ==
    LET ensure(port) ==
            RequestIf(cloud.check /= port, [cloud EXCEPT !.check = port],
                      [call EXCEPT !.seen.check = IF cloud.check = "none" THEN port ELSE cloud.check])
        none == Proceed(call) /\ NoRequest
    IN  \/ At("check") /\ IF call.spec.check /= "none" THEN ensure(call.spec.check) ELSE none
        \/ At("make_check") /\ IF call.seen.check /= "none" THEN ensure(call.seen.check) ELSE none

(***************************************************************************)
(* Neither rules nor pools can be updated in place, and no pool be deleted *)
(* under a rule.  From the deletion of the rule to its creation the        *)
(* address is not released.                                                *)
(***************************************************************************)
When(condition, steps) == IF condition THEN steps ELSE <<>>

\* Variant: the address may be released while there is no rule.
safeWhile_Always(c, dropRule) == c.seen.safe

safeWhile(c, dropRule) == c.seen.safe /\ ~dropRule

rebuild ==
    LET seen      == call.seen
        needsRule == seen.ruleNeedsUpdate \/ seen.poolNeedsUpdate
        dropRule  == seen.rule.exists /\ needsRule
        many      == Cardinality(call.nodes) > MaxTargetPoolCreateInstances
        steps == When(dropRule, <<"drop_rule">>)
                   \o When(seen.poolExists /\ seen.poolNeedsUpdate, <<"drop_pool", "drop_check">>)
                   \o When(seen.poolNeedsUpdate, <<"make_check", "make_pool">>)
                   \o When(seen.poolNeedsUpdate /\ many, <<"add", "remove", "verify">>)
                   \o When(needsRule, <<"make_rule">>)
    IN  /\ At("rebuild")
        /\ call' = [call EXCEPT !.steps = steps \o Tail(@), !.seen.safe = safeWhile(call, dropRule)]
        /\ UNCHANGED synced /\ NoRequest

deleteForwardingRule == At("drop_rule") /\ Request([cloud EXCEPT !.rule = NoRule], call)

(***************************************************************************)
(* The pool, then its health check, if there is one.  When a check is      *)
(* wanted it is looked up again; if that fails it is deleted all the same, *)
(* but a failure is not regarded.                                          *)
(***************************************************************************)
deleteTargetPool ==
    LET unchecked == [cloud EXCEPT !.check = "none"]
    IN  \/ At("drop_pool") /\ Request([cloud EXCEPT !.pool = NoPool], call)
        \/ /\ At("drop_check")
           /\ \/ RequestIf(cloud.check /= "none", unchecked, call)
              \/ call.seen.check /= "none" /\ Attempt(unchecked)

\* "Some" first instances; the rest is added.
createTargetPool ==
    LET size == Min({Cardinality(call.nodes), MaxTargetPoolCreateInstances})
    IN  /\ At("make_pool")
        /\ \E hosts \in kSubset(size, call.nodes) :
             Request([cloud EXCEPT !.pool = [exists |-> TRUE, affinity |-> call.spec.affinity,
                                             checked |-> call.seen.check /= "none",
                                             instances |-> hosts]],
                     [call EXCEPT !.todo = hosts])

createForwardingRule ==
    /\ At("make_rule")
    /\ Request([cloud EXCEPT !.rule = [exists |-> TRUE, ip |-> call.answer,
                                       range |-> loadBalancerPortRange(call.spec.ports),
                                       protocol |-> call.spec.protocol]],
               [call EXCEPT !.seen.safe = TRUE])

\* A failure to release the address is logged.
releaseStaticIP ==
    /\ At("release")
    /\ IF ~call.seen.owned /\ call.seen.safe /\ cloud.address /= "none"
         THEN Attempt([cloud EXCEPT !.address = "none"])
         ELSE Proceed(call) /\ NoRequest

-----------------------------------------------------------------------------
UpdateLoadBalancer ==
    /\ At("get_pool")
    /\ IF cloud.pool.exists THEN Read([call EXCEPT !.todo = cloud.pool.instances])
                            ELSE Fails /\ NoRequest

\* Compares with the instances the caller knows of, and counts in the end.
updateTargetPool ==
    LET toAdd    == call.nodes \ call.todo
        toRemove == call.todo \ call.nodes
    IN  \/ /\ At("add")
           /\ RequestIf(toAdd /= {}, [cloud EXCEPT !.pool.instances = @ \cup toAdd], call)
        \/ /\ At("remove")
           /\ RequestIf(toRemove /= {}, [cloud EXCEPT !.pool.instances = @ \ toRemove], call)
        \/ /\ At("verify")
           /\ IF Cardinality(cloud.pool.instances) = Cardinality(call.nodes)
                THEN Read(call)
                ELSE Fails /\ NoRequest

(***************************************************************************)
(* Three goroutines, one of which deletes the rule and what is under it.   *)
(* An error ends its goroutine, and the call when the others have ended; a *)
(* health check that was not looked up is deleted without regard to errors.*)
(***************************************************************************)
EnsureLoadBalancerDeleted ==
    LET without(what) == CASE what = "firewall" -> [cloud EXCEPT !.firewall = NoFirewall]
                           [] what = "address"  -> [cloud EXCEPT !.address = "none"]
                           [] what = "rule"     -> [cloud EXCEPT !.rule = NoRule]
                           [] what = "pool"     -> [cloud EXCEPT !.pool = NoPool]
                           [] what = "check"    -> [cloud EXCEPT !.check = "none"]
        ignored(what) == what = "check" /\ call.seen.check = "none"
    IN  /\ At("tear_down")
        /\ IF call.todo = {}
             THEN Proceed(call) /\ NoRequest
             ELSE \E work \in call.todo :
                    LET what == Head(work)
                        others == call.todo \ {work}
                    IN  /\ \/ /\ cloud' = without(what) /\ UNCHANGED balancerFaults
                              /\ call' = [call EXCEPT !.todo = others \cup ({Tail(work)} \ {<<>>})]
                           \/ /\ BalancerFault /\ cloud' \in {cloud, without(what)}
                              /\ call' = [call EXCEPT !.todo = others, !.failed = @ \/ ~ignored(what)]
                        /\ UNCHANGED synced

GCEWork ==
    /\ provider = "gce"
    /\ \/ Start("ensure", GCEEnsureSteps, <<>>, Unknown)
       \/ Start("update", GCEUpdateSteps, <<>>, Unknown)
       \/ Start("delete", GCEDeleteSteps, <<>>, Unknown)
       \/ getForwardingRule \/ projectOwnsStaticIP \/ chooseAddress \/ ensureFirewall
       \/ targetPoolNeedsUpdate \/ getHealthCheck \/ ensureHTTPHealthCheck \/ rebuild
       \/ deleteForwardingRule \/ deleteTargetPool \/ createTargetPool \/ createForwardingRule
       \/ releaseStaticIP \/ UpdateLoadBalancer \/ updateTargetPool \/ EnsureLoadBalancerDeleted
    /\ UNCHANGED <<provider, want, changes>>

(***************************************************************************)
(* The user does not give a reserved address back: GCE would not reserve   *)
(* it again for the load balancer.                                         *)
(***************************************************************************)
Possible == {s \in GCEShapes : want.spec.ip \in UserIPs => s.ip \in UserIPs}

GCENext == GCEWork \/ (provider = "gce" /\ Change(Possible))

-----------------------------------------------------------------------------
GCETypeOK ==
    /\ want.spec \in GCEShapes /\ synced.spec \in GCEShapes
    /\ cloud.address \in IPs \cup {"none"}
    /\ cloud.rule.ip \in IPs \cup UserIPs \cup {"none"}
    /\ cloud.pool.instances \subseteq BalancerNodes

\* The rule, the firewall and the pool are as the Service says.
GCEFits(s) ==
    /\ cloud.rule.exists /\ cloud.firewall.exists /\ cloud.pool.exists
    /\ cloud.rule.range = loadBalancerPortRange(s.ports) /\ cloud.rule.protocol = s.protocol
    /\ cloud.firewall.ports = s.ports /\ cloud.firewall.ranges = s.ranges
    /\ cloud.pool.affinity = s.affinity

GCEGone == ~cloud.rule.exists /\ ~cloud.firewall.exists /\ ~cloud.pool.exists /\ cloud.address = "none"

(***************************************************************************)
(* Once EnsureLoadBalancer has succeeded, whatever failed before, all is   *)
(* as the Service says, the rule and the firewall with the address that    *)
(* was answered; after UpdateLoadBalancer the pool has exactly the nodes.  *)
(***************************************************************************)
GCEEnsuredIsExact ==
    provider = "gce" /\ Idle /\ synced.ensured =>
        /\ GCEFits(synced.spec)
        /\ synced.spec.ip \notin UserIPs =>
             cloud.rule.ip = synced.answer /\ cloud.firewall.ip = synced.answer
        /\ synced.spec.ip \in IPs => synced.answer = synced.spec.ip
        /\ synced.by = "update" => cloud.pool.instances = synced.nodes

(***************************************************************************)
(* "if the forwarding rule exists, the LB has been fully created": there   *)
(* is no rule without its pool and the firewall, whatever fails, but for   *)
(* the time of the load balancer's deletion.                               *)
(***************************************************************************)
RuleIsLast ==
    provider = "gce" /\ want.present /\ cloud.rule.exists =>
        cloud.pool.exists /\ cloud.firewall.exists

(***************************************************************************)
(* EnsureLoadBalancerDeleted leaves nothing, neither an address that an    *)
(* earlier call kept nor a health check the Service asked for.             *)
(***************************************************************************)
DeletedIsGone ==
    provider = "gce" /\ synced.by = "delete" =>
        GCEGone /\ (synced.spec.check /= "none" => cloud.check = "none")

(***************************************************************************)
(* The address in the status of a Service that asks for none stays as it   *)
(* is to its deletion, though the rule and what is under it are replaced,  *)
(* and steps of that fail and are made again.                              *)
(***************************************************************************)
AddressIsKept ==
    [][provider = "gce" /\ synced.answer \notin {"none", synced'.answer} =>
         synced'.by = "delete" \/ synced'.spec.ip /= "none"]_balancerVars

(***************************************************************************)
(* The health check and the pool's use of it are as the Service says: a    *)
(* drift was corrected, a missing one is detected.                         *)
(***************************************************************************)
HealthCheckIsCurrent ==
    provider = "gce" /\ Idle /\ synced.ensured /\ synced.spec.check /= "none" =>
        cloud.pool.checked /\ cloud.check = synced.spec.check

\* The load balancer is as the Service says, if GCE can give it, or gone.
GCEConverged ==
    IF want.present THEN want.spec.ip \in IPs \/ GCEFits(want.spec) ELSE GCEGone
=============================================================================
