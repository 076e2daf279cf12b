-------------------------- MODULE ServiceController --------------------------
(***************************************************************************)
(* The caller of a cloud provider's load balancer interface: Kubernetes'   *)
(* service controller, which is external.  It makes one call at a time for *)
(* a Service: EnsureLoadBalancer after a change of the Service,            *)
(* UpdateLoadBalancer after a change of the nodes, EnsureLoadBalancer-     *)
(* Deleted after its deletion, and repeats a call that failed.             *)
(*                                                                         *)
(* A call is the sequence of the requests it makes to the cloud; each may  *)
(* fail, done or not.  A failure ends the call, behind the steps that Go's *)
(* defer leaves to be made in any case.                                    *)
(***************************************************************************)
EXTENDS Naturals, Sequences

CONSTANTS
    BalancerNodes,        \* the nodes
    MaxChanges,           \* bound on changes of the Service and of the nodes
    MaxBalancerFaults     \* bound on failed requests

VARIABLES
    provider,  \* the cloud the cluster runs on
    want,      \* the Service and the nodes as they are now
    synced,    \* what the service controller believes is done
    cloud,     \* the load balancer and what belongs to it, as the provider keeps it
    call,      \* the call that runs
    changes, balancerFaults

balancerVars == <<provider, want, synced, cloud, call, changes, balancerFaults>>

NoCall == [op |-> "none", steps |-> <<>>]

Idle == call.op = "none"
At(step) == ~Idle /\ Head(call.steps) = step

ServiceInit(name, shapes, nothing) ==
    /\ provider = name
    /\ \E s \in shapes : want = [present |-> TRUE, spec |-> s, nodes |-> BalancerNodes]
    /\ synced = [spec |-> want.spec, ensured |-> FALSE, by |-> "none", nodes |-> {},
                 asked |-> {}, known |-> BalancerNodes, answer |-> "none"]
    /\ cloud = nothing
    /\ call = NoCall
    /\ changes = 0 /\ balancerFaults = 0

(***************************************************************************)
(* How a call ends: the caller remembers a success and the address in the  *)
(* answer, and repeats the rest.                                           *)
(***************************************************************************)
Succeeds ==
    /\ call' = NoCall
    /\ synced' = [spec    |-> IF call.op = "update" THEN synced.spec ELSE call.spec,
                  ensured |-> call.op /= "delete",
                  by      |-> call.op,
                  nodes   |-> call.nodes,
                  asked   |-> call.asked,
                  known   |-> IF call.op = "update" THEN call.asked ELSE synced.known,
                  answer  |-> CASE call.op = "ensure" -> call.answer
                                [] call.op = "update" -> synced.answer
                                [] call.op = "delete" -> "none"]

Fails ==
    /\ UNCHANGED synced
    /\ call' = IF call.deferred = <<>>
                 THEN NoCall
                 ELSE [call EXCEPT !.steps = call.deferred, !.deferred = <<>>, !.failed = TRUE]

Proceed(c) ==
    IF Len(c.steps) > 1 THEN call' = [c EXCEPT !.steps = Tail(@)] /\ UNCHANGED synced
    ELSE IF c.failed    THEN call' = NoCall /\ UNCHANGED synced
    ELSE Succeeds

BalancerFault ==
    balancerFaults < MaxBalancerFaults /\ balancerFaults' = balancerFaults + 1

NoRequest == UNCHANGED <<cloud, balancerFaults>>

Read(c) ==
    /\ UNCHANGED cloud
    /\ \/ Proceed(c) /\ UNCHANGED balancerFaults
       \/ BalancerFault /\ Fails

Request(new, c) ==
    \/ cloud' = new /\ Proceed(c) /\ UNCHANGED balancerFaults
    \/ BalancerFault /\ cloud' \in {cloud, new} /\ Fails

RequestIf(needed, new, c) == IF needed THEN Request(new, c) ELSE Proceed(c) /\ NoRequest

\* A request whose failure is only logged
Attempt(new) ==
    /\ \/ cloud' = new /\ UNCHANGED balancerFaults
       \/ BalancerFault /\ UNCHANGED cloud
    /\ Proceed(call)

\* One request after the other for what is to do, in any order: the loops are over maps.
EachOf(next, apply(_)) ==
    IF call.todo = {}
      THEN Proceed(call) /\ NoRequest
      ELSE \E e \in next :
             \/ /\ cloud' = apply(e)
                /\ call' = [call EXCEPT !.todo = @ \ {e}]
                /\ UNCHANGED <<synced, balancerFaults>>
             \/ BalancerFault /\ cloud' \in {cloud, apply(e)} /\ Fails

(***************************************************************************)
(* A call begins, with its steps, the steps deferred to its end, what it   *)
(* knows of the cloud, and the nodes it serves of those it was asked for.  *)
(***************************************************************************)
StartServing(nodes, op, steps, deferred, seen) ==
    /\ Idle
    /\ CASE op = "ensure" -> want.present /\ ~(synced.ensured /\ synced.spec = want.spec)
         [] op = "update" -> /\ want.present /\ synced.ensured /\ synced.spec = want.spec
                             /\ synced.known /= want.nodes
         [] op = "delete" -> ~want.present /\ synced.by /= "delete"
    /\ call' = [op |-> op, steps |-> steps, deferred |-> deferred, failed |-> FALSE,
                spec |-> want.spec, nodes |-> IF op = "delete" THEN {} ELSE nodes,
                asked |-> IF op = "delete" THEN {} ELSE want.nodes,
                seen |-> seen, todo |-> {}, answer |-> "none"]
    /\ synced' = [synced EXCEPT !.ensured = @ /\ op = "update", !.by = "none"]
    /\ NoRequest

Start(op, steps, deferred, seen) == StartServing(want.nodes, op, steps, deferred, seen)

\* The Service is changed or deleted, the nodes come and go.
Change(shapes) ==
    /\ want.present /\ changes < MaxChanges /\ changes' = changes + 1
    /\ \/ \E s \in shapes \ {want.spec} : want' = [want EXCEPT !.spec = s]
       \/ \E ns \in SUBSET BalancerNodes \ {want.nodes, {}} : want' = [want EXCEPT !.nodes = ns]
       \/ want' = [want EXCEPT !.present = FALSE]
    /\ UNCHANGED <<provider, synced, cloud, call, balancerFaults>>

ServiceTypeOK ==
    /\ want.nodes \subseteq BalancerNodes
    /\ call.op \in {"none", "ensure", "update", "delete"}
    /\ Idle <=> call.steps = <<>>
    /\ synced.by \in {"none", "ensure", "update", "delete"}
    /\ synced.ensured => synced.by /= "delete"
=============================================================================
