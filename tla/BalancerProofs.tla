---------------------------- MODULE BalancerProofs ----------------------------
(***************************************************************************)
(* Theorems about the load balancer of AWS in CloudProviders, for any      *)
(* shapes of a Service, any nodes, groups of them and subnets, and any     *)
(* number of changes and failed requests.                                  *)
(***************************************************************************)
EXTENDS CloudProviders, TLAPS

-----------------------------------------------------------------------------
(***************************************************************************)
(* AWS: the values of the load balancer, and of a call                     *)
(***************************************************************************)
Listeners   == UNION {s.listeners : s \in Shapes}
Proxyable   == {k.nodePort : k \in Listeners}

LBs == [exists : BOOLEAN, listeners : SUBSET Listeners, proxied : SUBSET Proxyable,
        subnets : SUBSET UNION {s.subnets : s \in Shapes},
        attributes : {"default"} \cup {s.attributes : s \in Shapes},
        health : {"default"} \cup {s.health : s \in Shapes},
        instances : SUBSET BalancerNodes]

GroupValues ==
    [exists : BOOLEAN, tagged : BOOLEAN, rules : SUBSET UNION {permissions(s) : s \in Shapes}]

AWSClouds == [group : GroupValues, lb : LBs, open : SUBSET SecurityGroups,
              busy : BOOLEAN]

Ops     == {"ensure", "update", "delete"}
Answers == [spec : Shapes, ensured : BOOLEAN, by : Ops \cup {"none"},
            nodes : SUBSET BalancerNodes, asked : SUBSET BalancerNodes,
            known : SUBSET BalancerNodes, answer : {"none"}]

AWSStepNames ==
    {"group", "tag", "authorize", "revoke", "describe", "create", "detach", "attach", "unlisten",
     "listen", "policy", "backends", "attributes", "describe_again", "health", "groups", "rules",
     "register", "deregister", "delete_balancer", "delete_group"}

AWSCalls == [op : Ops, steps : Seq(AWSStepNames), deferred : {<<>>}, failed : {FALSE},
             spec : Shapes, nodes : SUBSET BalancerNodes, asked : SUBSET BalancerNodes,
             seen : LBs,
             todo : SUBSET ((Proxyable \cup SecurityGroups) \X BOOLEAN),
             answer : {"none"}]

-----------------------------------------------------------------------------
(***************************************************************************)
(* The place of a call: what is left of its steps is the end of the steps  *)
(* of its operation.                                                       *)
(***************************************************************************)
StepsOf(op) == CASE op = "ensure" -> EnsureSteps
                 [] op = "update" -> UpdateSteps
                 [] op = "delete" -> DeleteSteps
NumberOf(op) == IF op = "ensure" THEN 19 ELSE 5

\* The steps that are made
Made(c) == NumberOf(c.op) - Len(c.steps)

InOrder(c) ==
    /\ Len(c.steps) \in 1 .. NumberOf(c.op)
    /\ \A j \in 1 .. Len(c.steps) : c.steps[j] = StepsOf(c.op)[Made(c) + j]

\* What is to do makes a set what it should be.
Covers(todo, set, target) ==
    /\ todo \subseteq (target \X {TRUE}) \cup {e \in todo : e[1] \notin target /\ e[2] = FALSE}
    /\ \A x \in target \ set : <<x, TRUE>> \in todo
    /\ \A x \in set \ target : <<x, FALSE>> \in todo

(***************************************************************************)
(* The same of the rules of the nodes: it opens all groups that are needed *)
(* and closes the others that have the tag; those without are not seen.    *)
(***************************************************************************)
Opens(todo, open, target) ==
    /\ todo \subseteq (target \X {TRUE}) \cup {e \in todo : e[1] \notin target /\ e[2] = FALSE}
    /\ \A x \in target \ open : <<x, TRUE>> \in todo
    /\ \A x \in (open \cap TaggedGroups) \ target : <<x, FALSE>> \in todo

Opened(open, target) == target \subseteq open /\ open \cap TaggedGroups \subseteq target

\* The backends that get the proxy policy
ProxiedBy(s) == IF s.proxy THEN {k.nodePort : k \in s.listeners} ELSE {}

(***************************************************************************)
(* What the first m steps of a call have made of the cloud                 *)
(***************************************************************************)
EnsureGroup(c, group, m) ==
    /\ m >= 2 => group.tagged
    /\ m = 3  => permissions(c.spec) \subseteq group.rules
    /\ m >= 4 => group.rules = permissions(c.spec)

\* From the first description to the second, seen is the load balancer before the call.
EnsureBalancer(c, lb, m) ==
    LET s    == c.spec
        seen == c.seen
    IN  /\ m = 5  => seen = lb
        /\ m >= 6 => lb.exists
        /\ m = 6  => lb.subnets = IF seen.exists THEN seen.subnets ELSE s.subnets
        /\ m = 7  => lb.subnets = IF seen.exists THEN seen.subnets \cap s.subnets ELSE s.subnets
        /\ m >= 8 => lb.subnets = s.subnets
        /\ m \in 6 .. 8 => lb.listeners = IF seen.exists THEN seen.listeners ELSE s.listeners
        /\ m = 9  => lb.listeners = IF seen.exists THEN seen.listeners \cap s.listeners
                                                   ELSE s.listeners
        /\ m >= 10 => lb.listeners = s.listeners
        /\ m \in 6 .. 10 => lb.proxied = seen.proxied
        /\ m = 11  => Covers(c.todo, lb.proxied, ProxiedBy(s))
        /\ m >= 12 => lb.proxied = ProxiedBy(s)

\* From the second description on, it is that of the load balancer then.
EnsureRest(c, lb, open, m) ==
    /\ m >= 13 => lb.attributes = c.spec.attributes
    /\ m = 14  => c.seen.health = lb.health
    /\ m >= 15 => lb.health = c.spec.health
    /\ m \in 14 .. 17 => c.seen.instances = lb.instances
    /\ m = 16  => Opens(c.todo, open, neededGroups(c.nodes))
    /\ m >= 17 => Opened(open, neededGroups(c.nodes))
    /\ m = 18  => lb.instances = c.seen.instances \cup c.nodes
    /\ m = 19  => lb.instances = c.nodes

EnsureDone(c, cl, m) ==
    EnsureGroup(c, cl.group, m) /\ EnsureBalancer(c, cl.lb, m) /\ EnsureRest(c, cl.lb, cl.open, m)

UpdateDone(c, cl, m) ==
    /\ m >= 1 => cl.lb.exists
    /\ m = 4  => Opens(c.todo, cl.open, neededGroups(c.nodes))

DeleteDone(c, cl, m) ==
    /\ c.nodes = {}
    /\ m = 2  => Opens(c.todo, cl.open, {})
    /\ m >= 3 => cl.open \cap TaggedGroups = {}

Done(c, cl, m) == CASE c.op = "ensure" -> EnsureDone(c, cl, m)
                    [] c.op = "update" -> UpdateDone(c, cl, m)
                    [] c.op = "delete" -> DeleteDone(c, cl, m)

-----------------------------------------------------------------------------
(***************************************************************************)
(* Without a load balancer nothing of it is left but its group, and rules  *)
(* in groups without the tag.                                              *)
(***************************************************************************)
Whole(cl) == ~cl.lb.exists => cl.lb = NoLB /\ cl.open \cap TaggedGroups = {}

\* Fits and the rest of EnsuredIsExact, of a cloud and an answer
FitsIn(cl, s) ==
    /\ cl.lb.exists
    /\ cl.lb.listeners = s.listeners /\ cl.lb.proxied = ProxiedBy(s)
    /\ cl.lb.subnets = s.subnets
    /\ cl.lb.attributes = s.attributes /\ cl.lb.health = s.health
    /\ cl.group.tagged /\ cl.group.rules = permissions(s)

Exact(cl, a) ==
    /\ a.ensured => FitsIn(cl, a.spec)
    /\ a.ensured /\ a.by = "ensure" =>
         /\ a.nodes \subseteq a.asked
         /\ cl.lb.instances = a.nodes /\ Opened(cl.open, neededGroups(a.nodes))

\* The call that runs, while the answer of the last one is taken back
Runs(c, cl, a) ==
    /\ c \in AWSCalls /\ InOrder(c) /\ Done(c, cl, Made(c)) /\ c.nodes \subseteq c.asked
    /\ a.by = "none" /\ (a.ensured <=> c.op = "update")

AWSTypes ==
    /\ want \in [present : BOOLEAN, spec : Shapes, nodes : SUBSET BalancerNodes]
    /\ cloud \in AWSClouds /\ synced \in Answers
    /\ synced.ensured => synced.by # "delete"

\* The instances of the nodes, and those of the last lookup
Instances ==
    /\ up \in SUBSET BalancerNodes /\ groupsOf \in Groupings
    /\ cache \in [names : SUBSET BalancerNodes, found : SUBSET BalancerNodes]
    /\ cache.found \subseteq cache.names

AWSInv ==
    /\ Instances
    /\ AWSTypes /\ Whole(cloud) /\ Exact(cloud, synced)
    /\ call = NoCall \/ Runs(call, cloud, synced)

Inv == provider = "aws" => AWSInv

\* The same after a step, of the groups as they are before it
After ==
    /\ AWSTypes' /\ Whole(cloud') /\ Exact(cloud', synced')
    /\ call' = NoCall \/ Runs(call', cloud', synced')

-----------------------------------------------------------------------------
(***************************************************************************)
(* Steps and their places                                                  *)
(***************************************************************************)
LEMMA StepTypes ==
    \A op \in Ops : /\ StepsOf(op) \in Seq(AWSStepNames)
                    /\ Len(StepsOf(op)) = NumberOf(op) /\ NumberOf(op) \in Nat \ {0}
<1>1. EnsureSteps \in Seq(AWSStepNames) /\ Len(EnsureSteps) = 19
  BY DEF EnsureSteps, AWSStepNames
<1>2. UpdateSteps \in Seq(AWSStepNames) /\ Len(UpdateSteps) = 5
  BY DEF UpdateSteps, AWSStepNames
<1>3. DeleteSteps \in Seq(AWSStepNames) /\ Len(DeleteSteps) = 5
  BY DEF DeleteSteps, AWSStepNames
<1>4. StepsOf("ensure") = EnsureSteps /\ NumberOf("ensure") = 19
  BY DEF StepsOf, NumberOf
<1>5. StepsOf("update") = UpdateSteps /\ NumberOf("update") = 5
  BY DEF StepsOf, NumberOf
<1>6. StepsOf("delete") = DeleteSteps /\ NumberOf("delete") = 5
  BY DEF StepsOf, NumberOf
<1>7. 19 \in Nat \ {0} /\ 5 \in Nat \ {0}
  OBVIOUS
<1>8. ASSUME NEW op \in Ops
      PROVE  /\ StepsOf(op) \in Seq(AWSStepNames)
             /\ Len(StepsOf(op)) = NumberOf(op) /\ NumberOf(op) \in Nat \ {0}
  <2>1. op = "ensure" \/ op = "update" \/ op = "delete"
    BY DEF Ops
  <2>2. CASE op = "ensure"
    BY <2>2, <1>1, <1>4, <1>7, Zenon
  <2>3. CASE op = "update"
    BY <2>3, <1>2, <1>5, <1>7, Zenon
  <2>4. CASE op = "delete"
    BY <2>4, <1>3, <1>6, <1>7, Zenon
  <2> QED BY <2>1, <2>2, <2>3, <2>4
<1> QED BY <1>8

\* A call that has made m steps is at step h.
EnsureAt(h, m) ==
    /\ h \notin {"delete_balancer", "delete_group"}
    /\ (h = "group" => m = 0)           /\ (h = "tag" => m = 1)
    /\ (h = "authorize" => m = 2)       /\ (h = "revoke" => m = 3)
    /\ (h = "describe" => m = 4)        /\ (h = "create" => m = 5)
    /\ (h = "detach" => m = 6)          /\ (h = "attach" => m = 7)
    /\ (h = "unlisten" => m = 8)        /\ (h = "listen" => m = 9)
    /\ (h = "policy" => m = 10)         /\ (h = "backends" => m = 11)
    /\ (h = "attributes" => m = 12)     /\ (h = "describe_again" => m = 13)
    /\ (h = "health" => m = 14)         /\ (h = "groups" => m = 15)
    /\ (h = "rules" => m = 16)          /\ (h = "register" => m = 17)
    /\ (h = "deregister" => m = 18)

UpdateAt(h, m) ==
    /\ h \in {"describe", "register", "deregister", "groups", "rules"}
    /\ (h = "describe" => m = 0)   /\ (h = "register" => m = 1)
    /\ (h = "deregister" => m = 2) /\ (h = "groups" => m = 3)
    /\ (h = "rules" => m = 4)

DeleteAt(h, m) ==
    /\ h \in {"describe", "groups", "rules", "delete_balancer", "delete_group"}
    /\ (h = "describe" => m = 0)        /\ (h = "groups" => m = 1)
    /\ (h = "rules" => m = 2)           /\ (h = "delete_balancer" => m = 3)
    /\ (h = "delete_group" => m = 4)

LEMMA EnsurePlaces == ASSUME NEW m \in 0 .. 18 PROVE EnsureAt(EnsureSteps[m + 1], m)
<1>1. \/ m = 0 \/ m = 1 \/ m = 2 \/ m = 3 \/ m = 4 \/ m = 5 \/ m = 6 \/ m = 7 \/ m = 8 \/ m = 9
      \/ m = 10 \/ m = 11 \/ m = 12 \/ m = 13 \/ m = 14 \/ m = 15 \/ m = 16 \/ m = 17 \/ m = 18
  OBVIOUS
<1> QED BY <1>1 DEF EnsureSteps, EnsureAt

LEMMA OtherPlaces ==
    ASSUME NEW m \in 0 .. 4
    PROVE  UpdateAt(UpdateSteps[m + 1], m) /\ DeleteAt(DeleteSteps[m + 1], m)
<1>1. m = 0 \/ m = 1 \/ m = 2 \/ m = 3 \/ m = 4
  OBVIOUS
<1>2. UpdateAt(UpdateSteps[m + 1], m)
  BY <1>1 DEF UpdateSteps, UpdateAt
<1>3. DeleteAt(DeleteSteps[m + 1], m)
  BY <1>1 DEF DeleteSteps, DeleteAt
<1> QED BY <1>2, <1>3

\* Where a call is that is at a step
LEMMA Place ==
    ASSUME NEW c \in AWSCalls, InOrder(c)
    PROVE  /\ Made(c) \in 0 .. 18 /\ Len(c.steps) \in Nat \ {0}
           /\ c.op \in Ops /\ Made(c) = NumberOf(c.op) - Len(c.steps)
           /\ c.op = "ensure" => EnsureAt(Head(c.steps), Made(c))
           /\ c.op = "update" => UpdateAt(Head(c.steps), Made(c))
           /\ c.op = "delete" => DeleteAt(Head(c.steps), Made(c))
<1>1. /\ c.steps \in Seq(AWSStepNames) /\ c.op \in Ops
      /\ Len(c.steps) \in 1 .. NumberOf(c.op) /\ NumberOf(c.op) \in {5, 19}
      /\ Head(c.steps) = StepsOf(c.op)[Made(c) + 1]
      /\ Made(c) \in 0 .. 18 /\ Made(c) + 1 \in 1 .. NumberOf(c.op)
  <2>1. c.steps \in Seq(AWSStepNames) /\ c.op \in Ops
    BY DEF AWSCalls
  <2>2. NumberOf(c.op) \in {5, 19} /\ Len(c.steps) \in 1 .. NumberOf(c.op)
    BY DEF NumberOf, InOrder
  <2>3. Made(c) \in 0 .. 18 /\ Made(c) + 1 \in 1 .. NumberOf(c.op)
    <3>1. ASSUME NEW N \in Int, N = 5 \/ N = 19, NEW l \in 1 .. N
          PROVE  N - l \in 0 .. 18 /\ (N - l) + 1 \in 1 .. N
      BY <3>1
    <3>2. NumberOf(c.op) \in Int /\ (NumberOf(c.op) = 5 \/ NumberOf(c.op) = 19)
      BY <2>2
    <3> QED BY <2>2, <3>1, <3>2 DEF Made
  <2>4. Head(c.steps) = c.steps[1] /\ 1 \in 1 .. Len(c.steps)
    BY <2>1, <2>2
  <2>5. c.steps[1] = StepsOf(c.op)[Made(c) + 1]
    BY <2>4 DEF InOrder
  <2> QED BY <2>1, <2>2, <2>3, <2>4, <2>5
<1>2. c.op = "ensure" => EnsureAt(Head(c.steps), Made(c))
  <2> HAVE c.op = "ensure"
  <2>1. Head(c.steps) = EnsureSteps[Made(c) + 1] /\ Made(c) \in 0 .. 18
    BY <1>1 DEF StepsOf
  <2> QED BY <2>1, EnsurePlaces
<1>3. c.op = "update" => UpdateAt(Head(c.steps), Made(c))
  <2> HAVE c.op = "update"
  <2>1. Head(c.steps) = UpdateSteps[Made(c) + 1] /\ Made(c) \in 0 .. 4
    BY <1>1 DEF StepsOf, NumberOf
  <2> QED BY <2>1, OtherPlaces
<1>4. c.op = "delete" => DeleteAt(Head(c.steps), Made(c))
  <2> HAVE c.op = "delete"
  <2>1. Head(c.steps) = DeleteSteps[Made(c) + 1] /\ Made(c) \in 0 .. 4
    BY <1>1 DEF StepsOf, NumberOf
  <2> QED BY <2>1, OtherPlaces
<1>5. Made(c) = NumberOf(c.op) - Len(c.steps)
  BY DEF Made
<1>6. Len(c.steps) \in Nat \ {0}
  BY <1>1
<1> QED BY <1>1, <1>2, <1>3, <1>4, <1>5, <1>6

\* The next step
LEMMA Advances ==
    ASSUME NEW c \in AWSCalls, InOrder(c), Len(c.steps) > 1
    PROVE  LET next == [c EXCEPT !.steps = Tail(@)]
           IN  next \in AWSCalls /\ InOrder(next) /\ Made(next) = Made(c) + 1
<1> DEFINE next == [c EXCEPT !.steps = Tail(@)]
<1>1. /\ c.steps \in Seq(AWSStepNames) /\ Tail(c.steps) \in Seq(AWSStepNames)
      /\ Len(Tail(c.steps)) = Len(c.steps) - 1 /\ Len(c.steps) \in Nat
      /\ \A j \in 1 .. Len(Tail(c.steps)) : Tail(c.steps)[j] = c.steps[j + 1]
  BY DEF AWSCalls
<1>2. next \in AWSCalls /\ next.op = c.op /\ next.steps = Tail(c.steps)
  BY <1>1 DEF AWSCalls
<1>3. NumberOf(c.op) \in Nat /\ Len(c.steps) \in 1 .. NumberOf(c.op)
  BY DEF NumberOf, InOrder
<1>4. Made(next) = Made(c) + 1
  BY <1>1, <1>2, <1>3 DEF Made
<1>5. \A j \in 1 .. Len(next.steps) : next.steps[j] = StepsOf(next.op)[Made(next) + j]
  <2> TAKE j \in 1 .. Len(next.steps)
  <2>1. j + 1 \in 1 .. Len(c.steps) /\ next.steps[j] = c.steps[j + 1]
    BY <1>1, <1>2
  <2>2. c.steps[j + 1] = StepsOf(c.op)[Made(c) + (j + 1)]
    BY <2>1 DEF InOrder
  <2>3. PICK m \in Int : m = Made(c)
    <3>1. NumberOf(c.op) \in Int /\ Len(c.steps) \in Int
      BY <1>1, <1>3
    <3> QED BY ONLY <3>1 DEF Made
  <2>4. m + (j + 1) = (m + 1) + j
    <3>1. j \in Int
      BY ONLY j \in 1 .. Len(next.steps)
    <3> QED BY ONLY m \in Int, <3>1
  <2>5. Made(c) + (j + 1) = Made(next) + j
    BY <1>4, <2>3, <2>4
  <2> QED BY <1>2, <2>1, <2>2, <2>5
<1>6. Len(next.steps) \in 1 .. NumberOf(next.op)
  BY <1>1, <1>2, <1>3
<1> QED BY <1>2, <1>4, <1>5, <1>6 DEF InOrder

-----------------------------------------------------------------------------
(***************************************************************************)
(* What a request makes of the invariant                                   *)
(***************************************************************************)
\* A request may leave this.
Good(new) == new \in AWSClouds /\ Whole(new) /\ (call.op = "update" => Exact(new, synced))

\* A call that knows more, or the same
Continues(c) ==
    /\ c \in AWSCalls
    /\ c.op = call.op /\ c.steps = call.steps /\ c.spec = call.spec /\ c.nodes = call.nodes
    /\ c.asked = call.asked

LEMMA Running ==
    ASSUME AWSInv, ~Idle
    PROVE  /\ Runs(call, cloud, synced) /\ Continues(call) /\ Good(cloud)
           /\ want.spec \in Shapes
           /\ call.deferred = <<>> /\ ~call.failed /\ call.answer = "none" /\ call.op \in Ops
           /\ synced.by = "none" /\ synced \in Answers
           /\ call.op = "update" => synced.ensured
           /\ call.op # "update" => ~synced.ensured
<1>1. call # NoCall
  BY DEF Idle, NoCall
<1>2. Runs(call, cloud, synced)
  BY <1>1 DEF AWSInv
<1> QED BY <1>2 DEF AWSInv, AWSTypes, Runs, Continues, Good, AWSCalls, Answers

LEMMA DoneFrame ==
    ASSUME NEW c, NEW d, NEW cl, NEW m, Done(c, cl, m), c.op \in Ops,
           d.op = c.op, d.spec = c.spec, d.nodes = c.nodes, d.seen = c.seen, d.todo = c.todo
    PROVE  Done(d, cl, m)
<1>1. EnsureDone(c, cl, m) => EnsureDone(d, cl, m)
  BY DEF EnsureDone, EnsureGroup, EnsureBalancer, EnsureRest
<1>2. /\ UpdateDone(c, cl, m) => UpdateDone(d, cl, m)
      /\ DeleteDone(c, cl, m) => DeleteDone(d, cl, m)
  BY DEF UpdateDone, DeleteDone
<1> QED BY <1>1, <1>2 DEF Done, Ops

LEMMA Stops ==
    ASSUME AWSInv, ~Idle, UNCHANGED want, Good(cloud'), Fails
    PROVE  After
<1>1. call' = NoCall /\ synced' = synced
  BY Running DEF Fails
<1>2. AWSTypes'
  BY <1>1 DEF AWSInv, AWSTypes, Good
<1>3. Exact(cloud', synced')
  BY <1>1, Running DEF Good, Exact
<1> QED BY <1>1, <1>2, <1>3 DEF After, AWSInv, Good

LEMMA Ends ==
    ASSUME AWSInv, ~Idle, UNCHANGED want, Good(cloud'), Succeeds,
           call.op = "ensure" => EnsureDone(call, cloud', 19)
    PROVE  After
<1>1. call' = NoCall
  BY DEF Succeeds
<1>2. call \in AWSCalls /\ call.op \in Ops
  BY Running DEF Runs
<1>3. CASE call.op = "ensure"
  <2>1. synced' = [spec |-> call.spec, ensured |-> TRUE, by |-> "ensure", nodes |-> call.nodes,
                   asked |-> call.asked, known |-> synced.known, answer |-> "none"]
    BY <1>3, Running DEF Succeeds
  <2>2. synced' \in Answers /\ synced'.by # "delete"
    BY <2>1, <1>2, Running DEF Answers, Ops, AWSCalls
  <2>3. FitsIn(cloud', call.spec)
    BY <1>3 DEF EnsureDone, EnsureGroup, EnsureBalancer, EnsureRest, FitsIn
  <2>4. /\ cloud'.lb.instances = call.nodes /\ Opened(cloud'.open, neededGroups(call.nodes))
        /\ call.nodes \subseteq call.asked
    BY <1>3, Running DEF EnsureDone, EnsureRest, Runs
  <2>5. Exact(cloud', synced')
    BY <2>1, <2>3, <2>4 DEF Exact
  <2> QED BY <1>1, <2>2, <2>5 DEF After, AWSInv, AWSTypes, Good
<1>4. CASE call.op = "update"
  <2>1. synced' = [spec |-> synced.spec, ensured |-> TRUE, by |-> "update", nodes |-> call.nodes,
                   asked |-> call.asked, known |-> call.asked, answer |-> synced.answer]
    BY <1>4 DEF Succeeds
  <2>2. synced' \in Answers /\ synced'.by # "delete"
    BY <2>1, <1>2, Running DEF Answers, Ops, AWSCalls
  <2>3. Exact(cloud', synced')
    BY <2>1, <1>4, Running DEF Exact, Good
  <2> QED BY <1>1, <2>2, <2>3 DEF After, AWSInv, AWSTypes, Good
<1>5. CASE call.op = "delete"
  <2>1. synced' = [spec |-> call.spec, ensured |-> FALSE, by |-> "delete", nodes |-> call.nodes,
                   asked |-> call.asked, known |-> synced.known, answer |-> "none"]
    BY <1>5 DEF Succeeds
  <2>2. synced' \in Answers /\ ~synced'.ensured
    BY <2>1, <1>2, Running DEF Answers, Ops, AWSCalls
  <2>3. Exact(cloud', synced')
    BY <2>2 DEF Exact
  <2> QED BY <1>1, <2>2, <2>3 DEF After, AWSInv, AWSTypes, Good
<1> QED BY <1>2, <1>3, <1>4, <1>5 DEF Ops

LEMMA Goes ==
    ASSUME AWSInv, ~Idle, UNCHANGED want, Good(cloud'), NEW c, Continues(c),
           Done(c, cloud', Made(call) + 1), Proceed(c)
    PROVE  After
<1>1. /\ c \in AWSCalls /\ InOrder(c) /\ Made(c) = Made(call) /\ ~c.failed
      /\ Len(c.steps) \in Nat \ {0} /\ Made(call) = NumberOf(call.op) - Len(call.steps)
      /\ call \in AWSCalls /\ InOrder(call)
  <2>1. call \in AWSCalls /\ InOrder(call)
    BY Running DEF Runs
  <2>2. c \in AWSCalls /\ InOrder(c) /\ Made(c) = Made(call) /\ ~c.failed
    BY <2>1 DEF Continues, InOrder, Made, AWSCalls
  <2> QED BY <2>1, <2>2, Place
<1>2. CASE Len(c.steps) > 1
  <2> DEFINE next == [c EXCEPT !.steps = Tail(@)]
  <2>1. call' = next /\ synced' = synced
    BY <1>2 DEF Proceed
  <2>2. next \in AWSCalls /\ InOrder(next) /\ Made(next) = Made(call) + 1
    BY <1>1, <1>2, Advances
  <2>3. /\ next.op = c.op /\ next.spec = c.spec /\ next.nodes = c.nodes
        /\ next.asked = c.asked /\ next.seen = c.seen /\ next.todo = c.todo /\ c.op \in Ops
    BY <1>1 DEF AWSCalls
  <2>4. Done(next, cloud', Made(call) + 1)
    BY <2>3, DoneFrame
  <2>5. Runs(call', cloud', synced')
    BY <2>1, <2>2, <2>3, <2>4, Running DEF Runs, Continues
  <2>6. Exact(cloud', synced')
    BY <2>1, Running DEF Exact, Good
  <2> QED BY <2>1, <2>5, <2>6 DEF After, AWSInv, AWSTypes, Good
<1>3. CASE ~(Len(c.steps) > 1)
  <2>1. Succeeds
    BY <1>1, <1>3 DEF Proceed
  <2>2. ASSUME call.op = "ensure" PROVE EnsureDone(call, cloud', 19)
    <3>c. c.steps = call.steps
      BY DEF Continues
    <3>n. Len(call.steps) \in Nat \ {0} /\ ~(Len(call.steps) > 1)
      BY <1>1, <1>3, <3>c, Zenon
    <3>1. Len(call.steps) = 1 /\ NumberOf(call.op) = 19
      <4>1. \A l \in Nat \ {0} : ~(l > 1) => l = 1
        OBVIOUS
      <4>2. NumberOf(call.op) = 19
        BY <2>2 DEF NumberOf
      <4> QED BY <3>n, <4>1, <4>2, Zenon
    <3>2. Made(call) + 1 = 19
      BY <1>1, <3>1
    <3>3. EnsureDone(c, cloud', 19)
      BY <2>2, <3>2 DEF Done, Continues
    <3> QED BY <3>3 DEF EnsureDone, EnsureGroup, EnsureBalancer, EnsureRest, Continues
  <2> QED BY <2>1, <2>2, Ends
<1> QED BY <1>2, <1>3

\* Each outcome of a request
LEMMA Requests ==
    ASSUME AWSInv, ~Idle, UNCHANGED want, NEW new, NEW c, Good(new), Continues(c),
           Done(c, new, Made(call) + 1), Request(new, c)
    PROVE  After
<1>1. CASE cloud' = new /\ Proceed(c)
  BY <1>1, Goes
<1>2. CASE cloud' \in {cloud, new} /\ Fails
  BY <1>2, Stops, Running
<1> QED BY <1>1, <1>2 DEF Request

LEMMA Reads ==
    ASSUME AWSInv, ~Idle, UNCHANGED want, NEW c, Continues(c),
           Done(c, cloud, Made(call) + 1), Read(c)
    PROVE  After
<1>1. Good(cloud') /\ cloud' = cloud
  BY Running DEF Read
<1>2. CASE Proceed(c)
  BY <1>1, <1>2, Goes
<1>3. CASE Fails
  BY <1>1, <1>3, Stops
<1> QED BY <1>2, <1>3 DEF Read

\* A request that is made if it is needed: what is done is done in either case.
LEMMA Requested ==
    ASSUME AWSInv, ~Idle, UNCHANGED want, NEW new, NEW c, Continues(c), NEW needed,
           needed => Good(new) /\ Done(c, new, Made(call) + 1),
           ~needed => Done(c, cloud, Made(call) + 1),
           RequestIf(needed, new, c)
    PROVE  After
<1>1. CASE needed
  BY <1>1, Requests DEF RequestIf
<1>2. CASE ~needed
  <2>1. Proceed(c) /\ cloud' = cloud
    BY <1>2 DEF RequestIf, NoRequest
  <2> QED BY <1>2, <2>1, Goes, Running
<1> QED BY <1>1, <1>2

-----------------------------------------------------------------------------
LEMMA ShapeTypes ==
    ASSUME NEW s \in Shapes
    PROVE  /\ s.listeners \subseteq Listeners /\ ProxiedBy(s) \subseteq Proxyable
           /\ s.subnets \subseteq UNION {t.subnets : t \in Shapes}
           /\ s.attributes \in {t.attributes : t \in Shapes}
           /\ s.health \in {t.health : t \in Shapes}
           /\ permissions(s) \subseteq UNION {permissions(t) : t \in Shapes}
           /\ s.proxy \in BOOLEAN
<1>1. s.listeners \subseteq Listeners
  BY DEF Listeners
<1>2. ProxiedBy(s) \subseteq Proxyable
  BY <1>1 DEF ProxiedBy, Proxyable
<1>3. s.subnets \subseteq UNION {t.subnets : t \in Shapes}
  OBVIOUS
<1>4. permissions(s) \subseteq UNION {permissions(t) : t \in Shapes}
  OBVIOUS
<1> QED BY <1>1, <1>2, <1>3, <1>4, ShapesAssumption

LEMMA NoLBType == NoLB \in LBs /\ ~NoLB.exists /\ NoLB.proxied = {}
BY DEF NoLB, LBs

\* One thing to do after the other
LEMMA Covered ==
    ASSUME NEW todo, NEW set, NEW target, Covers(todo, set, target)
    PROVE  /\ todo = {} => set = target
           /\ \A e \in todo :
                Covers(todo \ {e}, IF e[2] THEN set \cup {e[1]} ELSE set \ {e[1]}, target)
<1>1. todo = {} => set = target
  BY DEF Covers
<1>2. \A x : /\ <<x, TRUE>>[1] = x /\ <<x, TRUE>>[2] = TRUE
             /\ <<x, FALSE>>[1] = x /\ <<x, FALSE>>[2] = FALSE
  OBVIOUS
<1>3. ASSUME NEW e \in todo
      PROVE  Covers(todo \ {e}, IF e[2] THEN set \cup {e[1]} ELSE set \ {e[1]}, target)
  <2>1. CASE e \in target \X {TRUE}
    <3>1. e[2] = TRUE /\ e[1] \in target
      BY <2>1
    <3>2. /\ \A x \in target \ (set \cup {e[1]}) : <<x, TRUE>> # e
          /\ \A x : <<x, FALSE>> # e
      BY <1>2, <3>1, Zenon
    <3> QED BY <3>1, <3>2 DEF Covers
  <2>2. CASE e[1] \notin target /\ e[2] = FALSE
    <3>1. /\ \A x : <<x, TRUE>> # e
          /\ \A x \in (set \ {e[1]}) \ target : <<x, FALSE>> # e
      BY <1>2, <2>2, Zenon
    <3> QED BY <2>2, <3>1 DEF Covers
  <2> QED BY <2>1, <2>2 DEF Covers
<1> QED BY <1>1, <1>3

LEMMA PoliciesCover ==
    ASSUME NEW s \in Shapes, NEW seen \in LBs
    PROVE  /\ Covers(backendPolicies(s, seen), seen.proxied, ProxiedBy(s))
           /\ backendPolicies(s, seen) \subseteq Proxyable \X BOOLEAN
<1> DEFINE ports == {k.nodePort : k \in s.listeners}
<1>1. s.proxy \in BOOLEAN /\ ports \subseteq Proxyable /\ seen.proxied \subseteq Proxyable
  BY ShapeTypes DEF Proxyable, LBs
<1>p. \A S, b : {<<p, b>> : p \in S} = S \X {b}
  OBVIOUS
<1>2. CASE s.proxy = TRUE
  <2>1. backendPolicies(s, seen) =
          ((ports \ seen.proxied) \X {TRUE}) \cup ((seen.proxied \ ports) \X {FALSE})
    <3>1. {q \in ports : (q \in seen.proxied) # s.proxy} = ports \ seen.proxied
      BY <1>2
    <3> QED BY <1>2, <1>p, <3>1, Zenon DEF backendPolicies
  <2>2. ProxiedBy(s) = ports
    BY <1>2 DEF ProxiedBy
  <2> QED BY <1>1, <2>1, <2>2 DEF Covers
<1>3. CASE s.proxy = FALSE
  <2>1. backendPolicies(s, seen) = seen.proxied \X {FALSE}
    <3>1. \A q : ((q \in seen.proxied) # s.proxy) <=> ~(q \in seen.proxied <=> s.proxy)
      BY <1>1
    <3>2. {q \in ports : (q \in seen.proxied) # s.proxy} = ports \cap seen.proxied
      BY <1>3, <3>1, Zenon
    <3>3. backendPolicies(s, seen) =
            ((ports \cap seen.proxied) \X {FALSE}) \cup ((seen.proxied \ ports) \X {FALSE})
      BY <1>3, <1>p, <3>2, Zenon DEF backendPolicies
    <3> QED BY <3>3
  <2>2. ProxiedBy(s) = {}
    BY <1>3 DEF ProxiedBy
  <2> QED BY <1>1, <2>1, <2>2 DEF Covers
<1> QED BY <1>1, <1>2, <1>3

LEMMA RulesToChange ==
    ASSUME NEW open, NEW target, NEW listed, listed = open \cap TaggedGroups
    PROVE  Opens(((target \ listed) \X {TRUE}) \cup ((listed \ target) \X {FALSE}), open, target)
BY DEF Opens

LEMMA RuleChanged ==
    ASSUME NEW todo, NEW open, NEW target, Opens(todo, open, target)
    PROVE  /\ todo = {} => Opened(open, target)
           /\ \A e \in todo :
                Opens(todo \ {e}, IF e[2] THEN open \cup {e[1]} ELSE open \ {e[1]}, target)
<1>1. todo = {} => Opened(open, target)
  BY DEF Opens, Opened
<1>2. \A x : /\ <<x, TRUE>>[1] = x /\ <<x, TRUE>>[2] = TRUE
             /\ <<x, FALSE>>[1] = x /\ <<x, FALSE>>[2] = FALSE
  OBVIOUS
<1>3. ASSUME NEW e \in todo
      PROVE  Opens(todo \ {e}, IF e[2] THEN open \cup {e[1]} ELSE open \ {e[1]}, target)
  <2>1. CASE e \in target \X {TRUE}
    <3>1. e[2] = TRUE /\ e[1] \in target
      BY <2>1
    <3>2. /\ \A x \in target \ (open \cup {e[1]}) : <<x, TRUE>> # e
          /\ \A x : <<x, FALSE>> # e
      BY <1>2, <3>1, Zenon
    <3> QED BY <3>1, <3>2 DEF Opens
  <2>2. CASE e[1] \notin target /\ e[2] = FALSE
    <3>1. /\ \A x : <<x, TRUE>> # e
          /\ \A x \in ((open \ {e[1]}) \cap TaggedGroups) \ target : <<x, FALSE>> # e
      BY <1>2, <2>2, Zenon
    <3> QED BY <2>2, <3>1 DEF Opens
  <2> QED BY <2>1, <2>2 DEF Opens
<1> QED BY <1>1, <1>3

\* The groups that are needed are groups.
LEMMA NeededGroups ==
    ASSUME Instances, NEW nodes \in SUBSET BalancerNodes
    PROVE  neededGroups(nodes) \in SUBSET SecurityGroups
<1>1. groupsOf \in [BalancerNodes -> SUBSET SecurityGroups]
  BY GroupingsAssumption DEF Instances
<1> QED BY <1>1 DEF neededGroups, candidateGroups

\* One thing of those to do is done.
LEMMA Works ==
    ASSUME AWSInv, ~Idle, UNCHANGED <<want, synced>>, Good(cloud'), NEW e,
           call' = [call EXCEPT !.todo = @ \ {e}], Done(call', cloud', Made(call))
    PROVE  After
<1>1. call \in AWSCalls /\ InOrder(call)
  BY Running DEF Runs
<1>2. /\ call' \in AWSCalls /\ call'.op = call.op /\ call'.steps = call.steps
      /\ call'.nodes = call.nodes /\ call'.asked = call.asked
  BY <1>1 DEF AWSCalls
<1>3. InOrder(call') /\ Made(call') = Made(call)
  BY <1>1, <1>2 DEF InOrder, Made
<1>4. Runs(call', cloud', synced')
  BY <1>2, <1>3, Running DEF Runs
<1>5. Exact(cloud', synced')
  BY Running DEF Good, Exact
<1> QED BY <1>4, <1>5 DEF After, AWSInv, AWSTypes, Good

-----------------------------------------------------------------------------
(***************************************************************************)
(* A call begins.                                                          *)
(***************************************************************************)
LEMMA AWSStarts ==
    ASSUME AWSInv, UNCHANGED want, NEW op \in Ops, NEW found \in SUBSET want.nodes,
           StartServing(found, op, StepsOf(op), <<>>, NoLB)
    PROVE  After
<1>1. /\ StepsOf(op) \in Seq(AWSStepNames) /\ Len(StepsOf(op)) = NumberOf(op)
      /\ NumberOf(op) \in Nat \ {0}
  BY StepTypes
<1>2. call' = [op |-> op, steps |-> StepsOf(op), deferred |-> <<>>, failed |-> FALSE,
               spec |-> want.spec, nodes |-> IF op = "delete" THEN {} ELSE found,
               asked |-> IF op = "delete" THEN {} ELSE want.nodes,
               seen |-> NoLB, todo |-> {}, answer |-> "none"]
  BY DEF StartServing
<1>3. synced' = [synced EXCEPT !.ensured = @ /\ op = "update", !.by = "none"] /\ cloud' = cloud
  BY DEF StartServing, NoRequest
<1>4. call' \in AWSCalls /\ call'.nodes \subseteq call'.asked
  BY <1>1, <1>2, NoLBType DEF AWSInv, AWSTypes, AWSCalls
<1>5. Made(call') = 0 /\ InOrder(call')
  <2>1. Made(call') = 0
    BY <1>1, <1>2 DEF Made
  <2>2. \A j \in 1 .. NumberOf(op) : Made(call') + j = j
    BY <1>1, <2>1
  <2>3. call'.op = op /\ call'.steps = StepsOf(op)
    BY <1>2
  <2>4. \A j \in 1 .. Len(call'.steps) : call'.steps[j] = StepsOf(call'.op)[Made(call') + j]
    BY <1>1, <2>2, <2>3
  <2> QED BY <1>1, <2>1, <2>3, <2>4 DEF InOrder
<1>6. Done(call', cloud', 0)
  <2>1. EnsureDone(call', cloud', 0)
    BY DEF EnsureDone, EnsureGroup, EnsureBalancer, EnsureRest
  <2>2. UpdateDone(call', cloud', 0) /\ (op = "delete" => DeleteDone(call', cloud', 0))
    BY <1>2 DEF UpdateDone, DeleteDone
  <2> QED BY <1>2, <2>1, <2>2 DEF Done, Ops
<1>7. synced' \in Answers /\ synced'.by = "none" /\ (synced'.ensured <=> op = "update")
      /\ synced'.spec = synced.spec
  <2>1. op = "update" => synced.ensured
    BY DEF StartServing
  <2> QED BY <1>3, <2>1 DEF AWSInv, AWSTypes, Answers
<1>8. Exact(cloud', synced')
  <2>1. op = "update" => synced.ensured
    BY DEF StartServing
  <2> QED BY <1>3, <1>7, <2>1 DEF AWSInv, Exact
<1>9. Runs(call', cloud', synced')
  BY <1>2, <1>4, <1>5, <1>6, <1>7 DEF Runs
<1> QED BY <1>3, <1>7, <1>8, <1>9 DEF After, AWSInv, AWSTypes

-----------------------------------------------------------------------------
(***************************************************************************)
(* The steps of the calls                                                  *)
(***************************************************************************)
LEMMA Here ==
    ASSUME AWSInv, NEW h, At(h)
    PROVE  /\ ~Idle /\ call \in AWSCalls /\ call.op \in Ops /\ Made(call) \in 0 .. 18
           /\ Done(call, cloud, Made(call))
           /\ Continues(call) /\ Good(cloud) /\ cloud \in AWSClouds /\ Whole(cloud)
           /\ call.spec \in Shapes /\ call.seen \in LBs /\ call.nodes \in SUBSET BalancerNodes
           /\ call.op = "ensure" => EnsureAt(h, Made(call)) /\ EnsureDone(call, cloud, Made(call))
           /\ call.op = "update" => UpdateAt(h, Made(call)) /\ UpdateDone(call, cloud, Made(call))
           /\ call.op = "delete" => DeleteAt(h, Made(call)) /\ DeleteDone(call, cloud, Made(call))
<1>1. ~Idle /\ h = Head(call.steps)
  BY DEF At
<1>2. Runs(call, cloud, synced) /\ Continues(call) /\ Good(cloud)
  BY <1>1, Running
<1>3. call \in AWSCalls /\ InOrder(call) /\ Done(call, cloud, Made(call))
  BY <1>2 DEF Runs
<1>4. /\ call.op \in Ops /\ call.spec \in Shapes /\ call.seen \in LBs
      /\ call.nodes \in SUBSET BalancerNodes
  BY <1>3 DEF AWSCalls
<1>5. /\ call.op = "ensure" => EnsureDone(call, cloud, Made(call))
      /\ call.op = "update" => UpdateDone(call, cloud, Made(call))
      /\ call.op = "delete" => DeleteDone(call, cloud, Made(call))
  BY <1>3 DEF Done
<1> QED BY <1>1, <1>2, <1>3, <1>4, <1>5, Place DEF Good

LEMMA StepGroup == ASSUME AWSInv, UNCHANGED want, ensureSecurityGroup PROVE After
<1> DEFINE tagged == [cloud EXCEPT !.group.tagged = TRUE]
           made   == [cloud EXCEPT !.group = [NoGroup EXCEPT !.exists = TRUE]]
<1>1. At("group")
  BY DEF ensureSecurityGroup
<1>2. call.op = "ensure" /\ Made(call) = 0 /\ ~Idle
  BY <1>1, Here DEF Ops, EnsureAt, UpdateAt, DeleteAt
<1>3. \A cl : Done(call, cl, Made(call) + 1)
  BY <1>2 DEF Done, EnsureDone, EnsureGroup, EnsureBalancer, EnsureRest
<1>4. Good(tagged)
  BY <1>1, <1>2, Here DEF Good, Whole, AWSClouds, GroupValues
<1>5. Good(made)
  BY <1>1, <1>2, Here DEF Good, Whole, AWSClouds, GroupValues, NoGroup
<1>6. CASE cloud.group.exists
  <2>1. RequestIf(~cloud.group.tagged, tagged, call)
    BY <1>6 DEF ensureSecurityGroup
  <2> QED BY <1>1, <1>2, <1>3, <1>4, <2>1, Here, Requested
<1>7. CASE ~cloud.group.exists
  <2>1. Request(made, call)
    BY <1>7 DEF ensureSecurityGroup
  <2> QED BY <1>1, <1>2, <1>3, <1>5, <2>1, Here, Requests
<1> QED BY <1>6, <1>7

LEMMA StepTag == ASSUME AWSInv, UNCHANGED want, tagSecurityGroup PROVE After
<1> DEFINE new == [cloud EXCEPT !.group.tagged = TRUE]
<1>1. At("tag") /\ RequestIf(~cloud.group.tagged, new, call)
  BY DEF tagSecurityGroup
<1>2. call.op = "ensure" /\ Made(call) = 1 /\ ~Idle
  BY <1>1, Here DEF Ops, EnsureAt, UpdateAt, DeleteAt
<1>3. Good(new) /\ new.group.tagged
  BY <1>1, <1>2, Here DEF Good, Whole, AWSClouds, GroupValues
<1>4. \A cl : cl.group.tagged => Done(call, cl, Made(call) + 1)
  BY <1>2 DEF Done, EnsureDone, EnsureGroup, EnsureBalancer, EnsureRest
<1> QED BY <1>1, <1>2, <1>3, <1>4, Here, Requested

LEMMA StepIngress == ASSUME AWSInv, UNCHANGED want, setSecurityGroupIngress PROVE After
<1> DEFINE add    == permissions(call.spec) \ cloud.group.rules
           remove == cloud.group.rules \ permissions(call.spec)
           added   == [cloud EXCEPT !.group.rules = @ \cup add]
           removed == [cloud EXCEPT !.group.rules = @ \ remove]
<1>1. CASE At("authorize") /\ RequestIf(add # {}, added, call)
  <2>1. call.op = "ensure" /\ Made(call) = 2 /\ ~Idle
    BY <1>1, Here DEF Ops, EnsureAt, UpdateAt, DeleteAt
  <2>2. cloud.group.tagged
    BY <1>1, <2>1, Here DEF EnsureDone, EnsureGroup
  <2>3. permissions(call.spec) \subseteq UNION {permissions(s) : s \in Shapes}
    BY <1>1, Here
  <2>4. Good(added) /\ added.group.tagged /\ permissions(call.spec) \subseteq added.group.rules
    BY <1>1, <2>1, <2>2, <2>3, Here DEF Good, Whole, AWSClouds, GroupValues
  <2>5. \A cl : cl.group.tagged /\ permissions(call.spec) \subseteq cl.group.rules
                  => Done(call, cl, Made(call) + 1)
    BY <2>1 DEF Done, EnsureDone, EnsureGroup, EnsureBalancer, EnsureRest
  <2>6. add = {} => permissions(call.spec) \subseteq cloud.group.rules
    OBVIOUS
  <2> HIDE DEF add, added
  <2> QED BY <1>1, <2>1, <2>2, <2>4, <2>5, <2>6, Here, Requested
<1>2. CASE At("revoke") /\ RequestIf(remove # {}, removed, call)
  <2>1. call.op = "ensure" /\ Made(call) = 3 /\ ~Idle
    BY <1>2, Here DEF Ops, EnsureAt, UpdateAt, DeleteAt
  <2>2. cloud.group.tagged /\ permissions(call.spec) \subseteq cloud.group.rules
    BY <1>2, <2>1, Here DEF EnsureDone, EnsureGroup
  <2>3. Good(removed) /\ removed.group.tagged /\ removed.group.rules = cloud.group.rules \ remove
    BY <1>2, <2>1, <2>2, Here DEF Good, Whole, AWSClouds, GroupValues
  <2>4. cloud.group.rules \ remove = permissions(call.spec)
    BY <2>2
  <2>5. \A cl : cl.group.tagged /\ cl.group.rules = permissions(call.spec)
                  => Done(call, cl, Made(call) + 1)
    BY <2>1 DEF Done, EnsureDone, EnsureGroup, EnsureBalancer, EnsureRest
  <2>6. remove = {} => cloud.group.rules = permissions(call.spec)
    BY <2>2
  <2> HIDE DEF remove, removed
  <2> QED BY <1>2, <2>1, <2>2, <2>3, <2>4, <2>5, <2>6, Here, Requested
<1> QED BY <1>1, <1>2 DEF setSecurityGroupIngress

LEMMA StepDescribe == ASSUME AWSInv, UNCHANGED want, describeLoadBalancer PROVE After
<1> DEFINE c == [call EXCEPT !.seen = cloud.lb]
<1>1. At("describe")
  BY DEF describeLoadBalancer
<1>2. /\ call.op = "ensure" => Made(call) = 4
      /\ call.op # "ensure" => Made(call) = 0
  BY <1>1, Here DEF Ops, EnsureAt, UpdateAt, DeleteAt
<1>3. CASE cloud.lb.exists \/ call.op = "ensure"
  <2>1. Read(c)
    BY <1>3 DEF describeLoadBalancer
  <2>2. Continues(c) /\ c.seen = cloud.lb /\ c.todo = call.todo
    BY <1>1, Here DEF Continues, AWSCalls, AWSClouds
  <2>3. Done(c, cloud, Made(call) + 1)
    <3>1. CASE call.op = "ensure"
      <4>1. EnsureGroup(c, cloud.group, 5)
        BY <1>1, <1>2, <2>2, <3>1, Here DEF EnsureDone, EnsureGroup, Continues
      <4>2. EnsureBalancer(c, cloud.lb, 5) /\ EnsureRest(c, cloud.lb, cloud.open, 5)
        BY <2>2 DEF EnsureBalancer, EnsureRest
      <4>3. Made(call) + 1 = 5 /\ c.op = "ensure"
        BY <1>2, <2>2, <3>1 DEF Continues
      <4> QED BY <4>1, <4>2, <4>3 DEF Done, EnsureDone
    <3>2. CASE call.op # "ensure"
      <4>1. UpdateDone(c, cloud, 1)
        BY <1>3, <3>2 DEF UpdateDone
      <4>2. call.op = "delete" => DeleteDone(c, cloud, 1)
        BY <1>1, <2>2, Here DEF DeleteDone, Continues
      <4>3. Made(call) + 1 = 1 /\ c.op = call.op /\ c.op \in Ops
        BY <1>1, <1>2, <2>2, <3>2, Here DEF Continues
      <4> QED BY <3>2, <4>1, <4>2, <4>3 DEF Done, Ops
    <3> QED BY <3>1, <3>2
  <2> QED BY <1>1, <2>1, <2>2, <2>3, Here, Reads
<1>4. CASE ~(cloud.lb.exists \/ call.op = "ensure")
  <2>1. cloud' = cloud /\ (Succeeds \/ Fails)
    BY <1>4 DEF describeLoadBalancer, NoRequest
  <2> QED BY <1>1, <1>4, <2>1, Here, Ends, Stops
<1> QED BY <1>3, <1>4

\* From the first description to the second
LEMMA BalancerStep ==
    ASSUME AWSInv, NEW h, At(h), call.op = "ensure", Made(call) \in 5 .. 11,
           NEW new, new.group = cloud.group,
           NEW c, Continues(c), EnsureBalancer(c, new.lb, Made(call) + 1)
    PROVE  Done(c, new, Made(call) + 1)
<1>1. EnsureGroup(call, cloud.group, Made(call))
  BY Here DEF EnsureDone
<1>2. EnsureGroup(c, new.group, Made(call) + 1)
  BY <1>1 DEF EnsureGroup, Continues
<1>3. EnsureRest(c, new.lb, new.open, Made(call) + 1)
  BY DEF EnsureRest
<1> QED BY <1>2, <1>3 DEF Done, EnsureDone, Continues

\* From there to the end
LEMMA RestStep ==
    ASSUME AWSInv, NEW h, At(h), call.op = "ensure", Made(call) \in 12 .. 18,
           NEW new, new.group = cloud.group, new.lb.exists,
           new.lb.listeners = cloud.lb.listeners, new.lb.proxied = cloud.lb.proxied,
           new.lb.subnets = cloud.lb.subnets,
           NEW c, Continues(c), EnsureRest(c, new.lb, new.open, Made(call) + 1)
    PROVE  Done(c, new, Made(call) + 1)
<1>1. EnsureGroup(call, cloud.group, Made(call)) /\ EnsureBalancer(call, cloud.lb, Made(call))
  BY Here DEF EnsureDone
<1>2. EnsureGroup(c, new.group, Made(call) + 1)
  BY <1>1 DEF EnsureGroup, Continues
<1>3. EnsureBalancer(c, new.lb, Made(call) + 1)
  BY <1>1 DEF EnsureBalancer, Continues
<1> QED BY <1>2, <1>3 DEF Done, EnsureDone, Continues

LEMMA StepCreate == ASSUME AWSInv, UNCHANGED want, createLoadBalancer PROVE After
<1> DEFINE lb  == [NoLB EXCEPT !.exists = TRUE, !.listeners = call.spec.listeners,
                               !.subnets = call.spec.subnets]
           new == [cloud EXCEPT !.lb = lb]
<1>1. At("create") /\ RequestIf(~call.seen.exists, new, call)
  BY DEF createLoadBalancer
<1>2. call.op = "ensure" /\ Made(call) = 5 /\ ~Idle
  BY <1>1, Here DEF Ops, EnsureAt, UpdateAt, DeleteAt
<1>3. call.seen = cloud.lb
  BY <1>1, <1>2, Here DEF EnsureDone, EnsureBalancer
<1>4. /\ lb.exists /\ lb.listeners = call.spec.listeners /\ lb.subnets = call.spec.subnets
      /\ lb.proxied = {}
  BY DEF NoLB
<1>5. lb \in LBs
  BY <1>1, Here, ShapeTypes DEF LBs, NoLB
<1>6. new.lb = lb /\ new.group = cloud.group /\ new.open = cloud.open
  BY <1>1, Here DEF AWSClouds
<1>7. Good(new)
  BY <1>1, <1>2, <1>4, <1>5, <1>6, Here DEF Good, Whole, AWSClouds
<1>8. ASSUME ~call.seen.exists PROVE Done(call, new, Made(call) + 1)
  <2>1. call.seen.proxied = {}
    BY <1>1, <1>3, <1>8, Here, NoLBType DEF Whole
  <2>2. EnsureBalancer(call, lb, 6)
    BY <1>4, <1>8, <2>1 DEF EnsureBalancer
  <2>3. EnsureBalancer(call, new.lb, Made(call) + 1)
    BY <1>2, <1>6, <2>2
  <2> HIDE DEF new
  <2> QED BY <1>1, <1>2, <1>6, <2>3, Here, BalancerStep
<1>9. ASSUME call.seen.exists PROVE Done(call, cloud, Made(call) + 1)
  <2>1. EnsureBalancer(call, cloud.lb, 6)
    BY <1>3, <1>9 DEF EnsureBalancer
  <2> QED BY <1>1, <1>2, <2>1, Here, BalancerStep
<1> HIDE DEF new
<1> QED BY <1>1, <1>2, <1>7, <1>8, <1>9, Here, Requested

\* A request that changes one part of the load balancer that is there
LEMMA BalancerRequest ==
    ASSUME AWSInv, UNCHANGED want, NEW h, At(h), call.op = "ensure",
           NEW m \in 7 .. 12, Made(call) + 1 = m,
           NEW lb \in LBs, lb.exists, NEW needed,
           NEW c, Continues(c),
           needed => EnsureBalancer(c, lb, m),
           ~needed => EnsureBalancer(c, cloud.lb, m),
           RequestIf(needed, [cloud EXCEPT !.lb = lb], c)
    PROVE  After
<1> DEFINE new == [cloud EXCEPT !.lb = lb]
<1>1. new.lb = lb /\ new.group = cloud.group /\ new \in AWSClouds
  BY Here DEF AWSClouds
<1>2. Good(new)
  BY <1>1, Here DEF Good, Whole
<1>3. Made(call) \in 5 .. 11
  BY Here
<1> HIDE DEF new
<1>4. needed => Done(c, new, Made(call) + 1)
  BY <1>1, <1>3, BalancerStep
<1>6. ~needed => Done(c, cloud, Made(call) + 1)
  BY <1>3, BalancerStep
<1>5. RequestIf(needed, new, c)
  BY DEF new
<1> QED BY <1>2, <1>4, <1>5, <1>6, Here, Requested

LEMMA EnsureFacts ==
    ASSUME AWSInv, NEW h, At(h), call.op = "ensure"
    PROVE  /\ EnsureBalancer(call, cloud.lb, Made(call))
           /\ EnsureGroup(call, cloud.group, Made(call))
           /\ EnsureRest(call, cloud.lb, cloud.open, Made(call))
           /\ cloud.lb \in LBs /\ cloud.open \in SUBSET SecurityGroups
           /\ Made(call) >= 6 => cloud.lb.exists
BY Here DEF EnsureDone, EnsureBalancer, AWSClouds

LEMMA StepSubnets == ASSUME AWSInv, UNCHANGED want, syncSubnets PROVE After
<1> DEFINE seen      == call.seen
           additions == call.spec.subnets \ seen.subnets
           removals  == seen.subnets \ call.spec.subnets
           less      == [cloud.lb EXCEPT !.subnets = @ \ removals]
           ifless    == seen.exists /\ removals # {}
           ifmore    == seen.exists /\ additions # {}
           more      == [cloud.lb EXCEPT !.subnets = @ \cup additions]
<1>1. CASE At("detach") /\ RequestIf(ifless, [cloud EXCEPT !.lb = less], call)
  <2>1. call.op = "ensure" /\ Made(call) = 6 /\ Made(call) + 1 = 7
    BY <1>1, Here DEF Ops, EnsureAt, UpdateAt, DeleteAt
  <2>2. /\ cloud.lb \in LBs /\ cloud.lb.exists /\ cloud.lb.proxied = seen.proxied
        /\ cloud.lb.subnets = IF seen.exists THEN seen.subnets ELSE call.spec.subnets
        /\ cloud.lb.listeners = IF seen.exists THEN seen.listeners ELSE call.spec.listeners
    BY <1>1, <2>1, EnsureFacts DEF EnsureBalancer
  <2>3. /\ less \in LBs /\ less.exists /\ less.proxied = cloud.lb.proxied
        /\ less.listeners = cloud.lb.listeners /\ less.subnets = cloud.lb.subnets \ removals
    BY <2>2 DEF LBs
  <2>4. seen.subnets \ removals = seen.subnets \cap call.spec.subnets
    OBVIOUS
  <2>5. removals = {} => seen.subnets = seen.subnets \cap call.spec.subnets
    OBVIOUS
  <2> HIDE DEF removals, less
  <2>6. ifless => EnsureBalancer(call, less, 7)
    BY <2>2, <2>3, <2>4 DEF EnsureBalancer
  <2>7. ~ifless => EnsureBalancer(call, cloud.lb, 7)
    BY <2>2, <2>5 DEF EnsureBalancer
  <2> HIDE DEF ifless
  <2> QED BY <1>1, <2>1, <2>3, <2>6, <2>7, Here, BalancerRequest
<1>2. CASE At("attach") /\ RequestIf(ifmore, [cloud EXCEPT !.lb = more], call)
  <2>1. call.op = "ensure" /\ Made(call) = 7 /\ Made(call) + 1 = 8 /\ call.spec \in Shapes
    BY <1>2, Here DEF Ops, EnsureAt, UpdateAt, DeleteAt
  <2>2. /\ cloud.lb \in LBs /\ cloud.lb.exists /\ cloud.lb.proxied = seen.proxied
        /\ cloud.lb.subnets = IF seen.exists THEN seen.subnets \cap call.spec.subnets
                                             ELSE call.spec.subnets
        /\ cloud.lb.listeners = IF seen.exists THEN seen.listeners ELSE call.spec.listeners
    BY <1>2, <2>1, EnsureFacts DEF EnsureBalancer
  <2>3. additions \subseteq UNION {s.subnets : s \in Shapes}
    BY <2>1, ShapeTypes
  <2>4. (seen.subnets \cap call.spec.subnets) \cup additions = call.spec.subnets
    OBVIOUS
  <2>5. additions = {} => seen.subnets \cap call.spec.subnets = call.spec.subnets
    OBVIOUS
  <2> HIDE DEF additions
  <2>6. /\ more \in LBs /\ more.exists /\ more.proxied = cloud.lb.proxied
        /\ more.listeners = cloud.lb.listeners /\ more.subnets = cloud.lb.subnets \cup additions
    BY <2>2, <2>3 DEF LBs
  <2> HIDE DEF more
  <2>7. ifmore => EnsureBalancer(call, more, 8)
    BY <2>2, <2>4, <2>6 DEF EnsureBalancer
  <2>8. ~ifmore => EnsureBalancer(call, cloud.lb, 8)
    <3> HAVE ~ifmore
    <3>1. cloud.lb.subnets = call.spec.subnets
      BY <2>2, <2>5
    <3> QED BY <2>2, <3>1 DEF EnsureBalancer
  <2> HIDE DEF ifmore
  <2> QED BY <1>2, <2>1, <2>6, <2>7, <2>8, Here, BalancerRequest
<1>3. /\ [cloud EXCEPT !.lb.subnets = @ \ removals] = [cloud EXCEPT !.lb = less]
      /\ [cloud EXCEPT !.lb.subnets = @ \cup additions] = [cloud EXCEPT !.lb = more]
  OBVIOUS
<1> HIDE DEF less, more
<1> QED BY <1>1, <1>2, <1>3 DEF syncSubnets

LEMMA StepListeners == ASSUME AWSInv, UNCHANGED want, syncListeners PROVE After
<1> DEFINE seen      == call.seen
           additions == call.spec.listeners \ seen.listeners
           removals  == seen.listeners \ call.spec.listeners
           less      == [cloud.lb EXCEPT !.listeners = @ \ removals]
           ifless    == seen.exists /\ removals # {}
           ifmore    == seen.exists /\ additions # {}
           more      == [cloud.lb EXCEPT !.listeners = @ \cup additions]
<1>1. CASE At("unlisten") /\ RequestIf(ifless, [cloud EXCEPT !.lb = less], call)
  <2>1. call.op = "ensure" /\ Made(call) = 8 /\ Made(call) + 1 = 9
    BY <1>1, Here DEF Ops, EnsureAt, UpdateAt, DeleteAt
  <2>2. /\ cloud.lb \in LBs /\ cloud.lb.exists /\ cloud.lb.proxied = seen.proxied
        /\ cloud.lb.subnets = call.spec.subnets
        /\ cloud.lb.listeners = IF seen.exists THEN seen.listeners ELSE call.spec.listeners
    BY <1>1, <2>1, EnsureFacts DEF EnsureBalancer
  <2>3. /\ less \in LBs /\ less.exists /\ less.proxied = cloud.lb.proxied
        /\ less.subnets = cloud.lb.subnets /\ less.listeners = cloud.lb.listeners \ removals
    BY <2>2 DEF LBs
  <2>4. seen.listeners \ removals = seen.listeners \cap call.spec.listeners
    OBVIOUS
  <2>5. removals = {} => seen.listeners = seen.listeners \cap call.spec.listeners
    OBVIOUS
  <2> HIDE DEF removals, less
  <2>6. ifless => EnsureBalancer(call, less, 9)
    BY <2>2, <2>3, <2>4 DEF EnsureBalancer
  <2>7. ~ifless => EnsureBalancer(call, cloud.lb, 9)
    <3> HAVE ~ifless
    <3>1. cloud.lb.listeners = IF seen.exists THEN seen.listeners \cap call.spec.listeners
                                              ELSE call.spec.listeners
      BY <2>2, <2>5
    <3> QED BY <2>2, <3>1 DEF EnsureBalancer
  <2> HIDE DEF ifless
  <2> QED BY <1>1, <2>1, <2>3, <2>6, <2>7, Here, BalancerRequest
<1>2. CASE /\ At("listen")
           /\ RequestIf(ifmore, [cloud EXCEPT !.lb = more], call)
  <2>1. call.op = "ensure" /\ Made(call) = 9 /\ Made(call) + 1 = 10 /\ call.spec \in Shapes
    BY <1>2, Here DEF Ops, EnsureAt, UpdateAt, DeleteAt
  <2>2. /\ cloud.lb \in LBs /\ cloud.lb.exists /\ cloud.lb.proxied = seen.proxied
        /\ cloud.lb.subnets = call.spec.subnets
        /\ cloud.lb.listeners = IF seen.exists THEN seen.listeners \cap call.spec.listeners
                                               ELSE call.spec.listeners
    BY <1>2, <2>1, EnsureFacts DEF EnsureBalancer
  <2>3. additions \subseteq Listeners
    BY <2>1, ShapeTypes
  <2>4. (seen.listeners \cap call.spec.listeners) \cup additions = call.spec.listeners
    OBVIOUS
  <2>5. additions = {} => seen.listeners \cap call.spec.listeners = call.spec.listeners
    OBVIOUS
  <2> HIDE DEF additions
  <2>6. /\ more \in LBs /\ more.exists /\ more.proxied = cloud.lb.proxied
        /\ more.subnets = cloud.lb.subnets /\ more.listeners = cloud.lb.listeners \cup additions
    BY <2>2, <2>3 DEF LBs
  <2> HIDE DEF more
  <2>7. ifmore => EnsureBalancer(call, more, 10)
    BY <2>2, <2>4, <2>6 DEF EnsureBalancer
  <2>8. ~ifmore => EnsureBalancer(call, cloud.lb, 10)
    BY <2>2, <2>5 DEF EnsureBalancer
  <2> HIDE DEF ifmore
  <2> QED BY <1>2, <2>1, <2>6, <2>7, <2>8, Here, BalancerRequest
<1>3. CASE At("listen") /\ Fails /\ NoRequest
  BY <1>3, Here, Stops DEF NoRequest
<1>4. /\ [cloud EXCEPT !.lb.listeners = @ \ removals] = [cloud EXCEPT !.lb = less]
      /\ [cloud EXCEPT !.lb.listeners = @ \cup additions] = [cloud EXCEPT !.lb = more]
  OBVIOUS
<1> HIDE DEF less, more
<1> QED BY <1>1, <1>2, <1>3, <1>4 DEF syncListeners

LEMMA StepPolicy == ASSUME AWSInv, UNCHANGED want, createProxyProtocolPolicy PROVE After
<1> DEFINE todo == backendPolicies(call.spec, call.seen)
           c    == [call EXCEPT !.todo = todo]
<1>1. At("policy") /\ RequestIf(call.spec.proxy, cloud, c)
  BY DEF createProxyProtocolPolicy
<1>2. call.op = "ensure" /\ Made(call) = 10 /\ Made(call) + 1 = 11 /\ ~Idle /\ call \in AWSCalls
  BY <1>1, Here DEF Ops, EnsureAt, UpdateAt, DeleteAt
<1>3. todo \subseteq Proxyable \X BOOLEAN /\ Covers(todo, call.seen.proxied, ProxiedBy(call.spec))
  BY <1>1, Here, PoliciesCover
<1>4. Continues(c) /\ c.todo = todo
  <2> HIDE DEF todo
  <2> QED BY <1>2, <1>3 DEF Continues, AWSCalls
<1>5. /\ cloud.lb.exists /\ cloud.lb.proxied = call.seen.proxied
      /\ cloud.lb.subnets = call.spec.subnets /\ cloud.lb.listeners = call.spec.listeners
  BY <1>1, <1>2, EnsureFacts DEF EnsureBalancer
<1> HIDE DEF todo, c
<1>6. EnsureBalancer(c, cloud.lb, 11)
  BY <1>3, <1>4, <1>5 DEF EnsureBalancer, Continues
<1>7. Done(c, cloud, Made(call) + 1)
  BY <1>1, <1>2, <1>4, <1>6, BalancerStep
<1> QED BY <1>1, <1>2, <1>4, <1>7, Here, Requested

LEMMA StepBackends == ASSUME AWSInv, UNCHANGED want, setBackendPolicies PROVE After
<1> DEFINE proxied(e) == IF e[2] THEN cloud.lb.proxied \cup {e[1]} ELSE cloud.lb.proxied \ {e[1]}
           set(e) == [cloud EXCEPT !.lb.proxied = IF e[2] THEN @ \cup {e[1]} ELSE @ \ {e[1]}]
<1>1. At("backends") /\ EachOf(call.todo, set)
  BY DEF setBackendPolicies
<1>2. call.op = "ensure" /\ Made(call) = 11 /\ Made(call) + 1 = 12 /\ ~Idle /\ call \in AWSCalls
  BY <1>1, Here DEF Ops, EnsureAt, UpdateAt, DeleteAt
<1>3. /\ cloud.lb.exists /\ Covers(call.todo, cloud.lb.proxied, ProxiedBy(call.spec))
      /\ cloud.lb.subnets = call.spec.subnets /\ cloud.lb.listeners = call.spec.listeners
      /\ cloud.lb \in LBs
  BY <1>1, <1>2, EnsureFacts DEF EnsureBalancer
<1>4. CASE call.todo = {}
  <2>1. Proceed(call) /\ cloud' = cloud
    BY <1>1, <1>4 DEF EachOf, NoRequest
  <2>2. cloud.lb.proxied = ProxiedBy(call.spec)
    BY <1>3, <1>4, Covered
  <2>3. EnsureBalancer(call, cloud.lb, 12)
    BY <1>3, <2>2 DEF EnsureBalancer
  <2>4. Done(call, cloud, Made(call) + 1)
    BY <1>1, <1>2, <2>3, Here, BalancerStep
  <2> QED BY <1>1, <1>2, <2>1, <2>4, Here, Goes
<1>5. CASE call.todo # {}
  <2>1. PICK e \in call.todo :
          \/ /\ cloud' = set(e) /\ call' = [call EXCEPT !.todo = @ \ {e}]
             /\ UNCHANGED synced
          \/ cloud' \in {cloud, set(e)} /\ Fails
    BY <1>1, <1>5 DEF EachOf
  <2>2. Covers(call.todo \ {e}, proxied(e), ProxiedBy(call.spec))
    BY <1>3, Covered
  <2>3. proxied(e) \in SUBSET Proxyable
    <3>1. ProxiedBy(call.spec) \subseteq Proxyable
      BY <1>1, Here, ShapeTypes
    <3>2. e[1] \in ProxiedBy(call.spec) \/ e[2] = FALSE
      BY <1>3 DEF Covers
    <3> QED BY <1>3, <3>1, <3>2 DEF LBs
  <2> DEFINE lb == [cloud.lb EXCEPT !.proxied = proxied(e)]
  <2>4. set(e) = [cloud EXCEPT !.lb = lb]
    OBVIOUS
  <2> HIDE DEF proxied, set
  <2>5. /\ lb \in LBs /\ lb.exists /\ lb.proxied = proxied(e)
        /\ lb.subnets = cloud.lb.subnets /\ lb.listeners = cloud.lb.listeners
    BY <1>3, <2>3 DEF LBs
  <2> HIDE DEF lb
  <2>6. /\ set(e) \in AWSClouds /\ set(e).lb = lb /\ set(e).group = cloud.group
        /\ set(e).open = cloud.open
    BY <1>1, <2>4, <2>5, Here DEF AWSClouds
  <2>7. Good(set(e))
    BY <1>2, <2>5, <2>6 DEF Good, Whole
  <2>8. CASE cloud' = set(e) /\ call' = [call EXCEPT !.todo = @ \ {e}] /\ UNCHANGED synced
    <3>1. /\ call'.op = call.op /\ call'.spec = call.spec /\ call'.todo = call.todo \ {e}
          /\ call'.seen = call.seen
      BY <1>2, <2>8 DEF AWSCalls
    <3>2. EnsureBalancer(call', lb, 11)
      BY <1>3, <2>2, <2>5, <3>1 DEF EnsureBalancer
    <3>3. EnsureGroup(call', cloud.group, 11)
      BY <1>1, <1>2, <3>1, EnsureFacts DEF EnsureGroup
    <3>4. EnsureRest(call', lb, cloud'.open, 11)
      BY DEF EnsureRest
    <3>5. EnsureDone(call', cloud', 11)
      BY <2>6, <2>8, <3>2, <3>3, <3>4 DEF EnsureDone
    <3>6. Done(call', cloud', Made(call))
      BY <1>2, <3>1, <3>5 DEF Done
    <3> QED BY <1>2, <2>7, <2>8, <3>6, Works
  <2>9. CASE cloud' \in {cloud, set(e)} /\ Fails
    BY <1>1, <1>2, <2>7, <2>9, Here, Stops
  <2> QED BY <2>1, <2>8, <2>9
<1> QED BY <1>4, <1>5

\* A request behind the second description
LEMMA RestRequest ==
    ASSUME AWSInv, UNCHANGED want, NEW h, At(h), call.op = "ensure",
           NEW m \in 13 .. 19, Made(call) + 1 = m,
           NEW lb \in LBs, lb.exists, lb.listeners = cloud.lb.listeners,
           lb.proxied = cloud.lb.proxied, lb.subnets = cloud.lb.subnets,
           NEW needed,
           needed => EnsureRest(call, lb, cloud.open, m),
           ~needed => EnsureRest(call, cloud.lb, cloud.open, m),
           RequestIf(needed, [cloud EXCEPT !.lb = lb], call)
    PROVE  After
<1> DEFINE new == [cloud EXCEPT !.lb = lb]
<1>1. /\ new.lb = lb /\ new.group = cloud.group /\ new \in AWSClouds /\ new.open = cloud.open
  BY Here DEF AWSClouds
<1>2. Good(new)
  BY <1>1, Here DEF Good, Whole
<1>3. Made(call) \in 12 .. 18 /\ cloud.lb.exists
  BY Here, EnsureFacts
<1> HIDE DEF new
<1>4. needed => Done(call, new, Made(call) + 1)
  BY <1>1, <1>3, Here, RestStep
<1>5. ~needed => Done(call, cloud, Made(call) + 1)
  BY <1>3, Here, RestStep
<1>6. RequestIf(needed, new, call)
  BY DEF new
<1> QED BY <1>2, <1>4, <1>5, <1>6, Here, Requested

LEMMA StepAttributes == ASSUME AWSInv, UNCHANGED want, syncAttributes PROVE After
<1> DEFINE needed == cloud.lb.attributes # call.spec.attributes
           lb     == [cloud.lb EXCEPT !.attributes = call.spec.attributes]
<1>1. At("attributes") /\ RequestIf(needed, [cloud EXCEPT !.lb = lb], call)
  BY DEF syncAttributes
<1>2. call.op = "ensure" /\ Made(call) = 12 /\ Made(call) + 1 = 13 /\ call.spec \in Shapes
  BY <1>1, Here DEF Ops, EnsureAt, UpdateAt, DeleteAt
<1>3. cloud.lb \in LBs /\ cloud.lb.exists
  BY <1>1, <1>2, EnsureFacts
<1>4. /\ lb \in LBs /\ lb.exists /\ lb.listeners = cloud.lb.listeners
      /\ lb.proxied = cloud.lb.proxied /\ lb.subnets = cloud.lb.subnets
      /\ lb.attributes = call.spec.attributes
  BY <1>2, <1>3, ShapeTypes DEF LBs
<1> HIDE DEF lb
<1>5. EnsureRest(call, lb, cloud.open, 13)
  BY <1>4 DEF EnsureRest
<1>6. ~needed => EnsureRest(call, cloud.lb, cloud.open, 13)
  BY DEF EnsureRest
<1> HIDE DEF needed
<1> QED BY <1>1, <1>2, <1>4, <1>5, <1>6, RestRequest

LEMMA StepDescribeAgain == ASSUME AWSInv, UNCHANGED want, describeAgain PROVE After
<1> DEFINE c == [call EXCEPT !.seen = cloud.lb]
<1>1. At("describe_again")
  BY DEF describeAgain
<1>2. call.op = "ensure" /\ Made(call) = 13 /\ Made(call) + 1 = 14 /\ ~Idle /\ call \in AWSCalls
  BY <1>1, Here DEF Ops, EnsureAt, UpdateAt, DeleteAt
<1>3. cloud.lb.exists /\ cloud.lb.attributes = call.spec.attributes /\ cloud.lb \in LBs
  BY <1>1, <1>2, EnsureFacts DEF EnsureRest
<1>4. ASSUME NEW d, Continues(d), d.seen = cloud.lb PROVE Done(d, cloud, Made(call) + 1)
  <2>1. EnsureRest(d, cloud.lb, cloud.open, 14)
    BY <1>3, <1>4 DEF EnsureRest, Continues
  <2>2. EnsureRest(d, cloud.lb, cloud.open, Made(call) + 1) /\ Made(call) \in 12 .. 18
    BY <1>2, <2>1
  <2> QED BY <1>1, <1>2, <1>3, <1>4, <2>2, RestStep
<1>5. CASE cloud.lb # call.seen
  <2>1. Read(c)
    BY <1>5 DEF describeAgain
  <2>2. Continues(c) /\ c.seen = cloud.lb
    BY <1>2, <1>3 DEF Continues, AWSCalls
  <2> QED BY <1>2, <1>4, <2>1, <2>2, Reads
<1>6. CASE cloud.lb = call.seen
  <2>1. Proceed(call) /\ cloud' = cloud
    BY <1>6 DEF describeAgain, NoRequest
  <2>2. Done(call, cloud, Made(call) + 1)
    BY <1>1, <1>4, <1>6, Here
  <2> QED BY <1>1, <1>2, <2>1, <2>2, Here, Goes
<1> QED BY <1>5, <1>6

LEMMA StepHealth == ASSUME AWSInv, UNCHANGED want, ensureLoadBalancerHealthCheck PROVE After
<1> DEFINE needed == call.seen.health # call.spec.health
           lb     == [cloud.lb EXCEPT !.health = call.spec.health]
<1>1. At("health") /\ RequestIf(needed, [cloud EXCEPT !.lb = lb], call)
  BY DEF ensureLoadBalancerHealthCheck
<1>2. call.op = "ensure" /\ Made(call) = 14 /\ Made(call) + 1 = 15 /\ call.spec \in Shapes
  BY <1>1, Here DEF Ops, EnsureAt, UpdateAt, DeleteAt
<1>3. /\ cloud.lb \in LBs /\ cloud.lb.exists /\ cloud.lb.attributes = call.spec.attributes
      /\ call.seen.health = cloud.lb.health /\ call.seen.instances = cloud.lb.instances
  BY <1>1, <1>2, EnsureFacts DEF EnsureRest
<1>4. /\ lb \in LBs /\ lb.exists /\ lb.listeners = cloud.lb.listeners
      /\ lb.proxied = cloud.lb.proxied /\ lb.subnets = cloud.lb.subnets
      /\ lb.attributes = cloud.lb.attributes /\ lb.instances = cloud.lb.instances
      /\ lb.health = call.spec.health
  BY <1>2, <1>3, ShapeTypes DEF LBs
<1> HIDE DEF lb
<1>5. EnsureRest(call, lb, cloud.open, 15)
  BY <1>3, <1>4 DEF EnsureRest
<1>6. ~needed => EnsureRest(call, cloud.lb, cloud.open, 15)
  BY <1>3 DEF EnsureRest
<1> HIDE DEF needed
<1> QED BY <1>1, <1>2, <1>4, <1>5, <1>6, RestRequest

-----------------------------------------------------------------------------
\* Update, ensure and delete change the rules of the nodes alike.
LEMMA StepGroups == ASSUME AWSInv, UNCHANGED want, updateInstanceSecurityGroups PROVE After
<1> DEFINE needed == neededGroups(call.nodes)
           listed == cloud.open \cap TaggedGroups
           todo   == ((needed \ listed) \X {TRUE}) \cup ((listed \ needed) \X {FALSE})
           c      == [call EXCEPT !.todo = todo]
<1>r. At("groups") /\ (Read(c) \/ (Fails /\ NoRequest))
  BY DEF updateInstanceSecurityGroups
<1>f. CASE At("groups") /\ Fails /\ NoRequest
  BY <1>f, Here, Stops DEF NoRequest
<1> SUFFICES ASSUME At("groups"), Read(c) PROVE After
  BY <1>r, <1>f
<1>1. At("groups") /\ Read(c)
  OBVIOUS
<1>2. /\ call.op = "ensure" => Made(call) = 15
      /\ call.op = "update" => Made(call) = 3
      /\ call.op = "delete" => Made(call) = 1
      /\ ~Idle /\ call \in AWSCalls /\ call.op \in Ops /\ cloud \in AWSClouds
  BY <1>1, Here DEF EnsureAt, UpdateAt, DeleteAt
<1>3. needed \in SUBSET SecurityGroups
  BY <1>1, Here, NeededGroups DEF AWSInv
<1>4. Opens(todo, cloud.open, needed)
  BY RulesToChange
<1>5. todo \subseteq SecurityGroups \X BOOLEAN
  BY <1>2, <1>3 DEF AWSClouds
<1> HIDE DEF todo, needed, listed
<1>6. Continues(c) /\ c.todo = todo /\ c.seen = call.seen
  BY <1>2, <1>5 DEF Continues, AWSCalls
<1> HIDE DEF c
<1>7. CASE call.op = "ensure"
  <2>1. /\ cloud.lb.exists /\ cloud.lb.attributes = call.spec.attributes
        /\ cloud.lb.health = call.spec.health /\ call.seen.instances = cloud.lb.instances
    BY <1>1, <1>2, <1>7, EnsureFacts DEF EnsureRest
  <2>2. EnsureRest(c, cloud.lb, cloud.open, 16)
    BY <1>4, <1>6, <2>1 DEF EnsureRest, Continues, needed
  <2>3. EnsureRest(c, cloud.lb, cloud.open, Made(call) + 1) /\ Made(call) \in 12 .. 18
    BY <1>2, <1>7, <2>2
  <2>4. Done(c, cloud, Made(call) + 1)
    BY <1>1, <1>6, <1>7, <2>1, <2>3, RestStep
  <2> QED BY <1>1, <1>2, <1>6, <2>4, Reads
<1>8. CASE call.op = "update"
  <2>1. UpdateDone(c, cloud, 4)
    BY <1>1, <1>2, <1>4, <1>6, <1>8, Here DEF UpdateDone, Continues, needed
  <2>2. Made(call) + 1 = 4 /\ c.op = "update"
    BY <1>2, <1>6, <1>8 DEF Continues
  <2>3. Done(c, cloud, Made(call) + 1)
    BY <2>1, <2>2 DEF Done
  <2> QED BY <1>1, <1>2, <1>6, <2>3, Reads
<1>9. CASE call.op = "delete"
  <2>1. call.nodes = {} /\ needed = {}
    BY <1>1, <1>9, Here DEF DeleteDone, needed, neededGroups
  <2>2. DeleteDone(c, cloud, 2)
    BY <1>4, <1>6, <2>1 DEF DeleteDone, Continues
  <2>3. Made(call) + 1 = 2 /\ c.op = "delete"
    BY <1>2, <1>6, <1>9 DEF Continues
  <2>4. Done(c, cloud, Made(call) + 1)
    BY <2>2, <2>3 DEF Done
  <2> QED BY <1>1, <1>2, <1>6, <2>4, Reads
<1> QED BY <1>2, <1>7, <1>8, <1>9 DEF Ops

\* What is known when the rules are changed, and what is known then
LEMMA RulesKnown ==
    ASSUME AWSInv, At("rules")
    PROVE  /\ Opens(call.todo, cloud.open, neededGroups(call.nodes))
           /\ neededGroups(call.nodes) \in SUBSET SecurityGroups
           /\ call.op = "delete" => neededGroups(call.nodes) = {}
           /\ call.op # "delete" => cloud.lb.exists
           /\ call.op = "ensure" => Made(call) = 16
           /\ call.op = "update" => Made(call) = 4
           /\ call.op = "delete" => Made(call) = 2
           /\ call.op \in Ops
<1>1. /\ call.op = "ensure" => Made(call) = 16
      /\ call.op = "update" => Made(call) = 4
      /\ call.op = "delete" => Made(call) = 2
      /\ call.op \in Ops
  BY Here DEF EnsureAt, UpdateAt, DeleteAt
<1>2. neededGroups(call.nodes) \in SUBSET SecurityGroups
  BY Here, NeededGroups DEF AWSInv
<1>3. call.op = "delete" => call.nodes = {} /\ neededGroups(call.nodes) = {}
  BY Here DEF DeleteDone, neededGroups
<1>4. call.op # "delete" => cloud.lb.exists
  BY <1>1, EnsureFacts, Here DEF UpdateDone, Ops
<1>5. Opens(call.todo, cloud.open, neededGroups(call.nodes))
  BY <1>1, <1>3, EnsureFacts, Here DEF EnsureRest, UpdateDone, DeleteDone, Ops
<1> QED BY <1>1, <1>2, <1>3, <1>4, <1>5

\* A rule is opened or closed; when all are, the call goes on.
LEMMA RulesDone ==
    ASSUME AWSInv, At("rules"), NEW open, NEW todo, NEW d, Continues(d),
           d.seen = call.seen, d.todo = todo, Opens(todo, open, neededGroups(call.nodes)),
           NEW cl, cl.lb = cloud.lb, cl.group = cloud.group, cl.open = open
    PROVE  /\ Done(d, cl, Made(call))
           /\ todo = {} => Done(d, cl, Made(call) + 1)
<1>1. d.op = call.op /\ d.spec = call.spec /\ d.nodes = call.nodes /\ call.op \in Ops
  BY RulesKnown DEF Continues
<1>2. todo = {} => Opened(open, neededGroups(call.nodes))
  BY RuleChanged
<1>3. CASE call.op = "ensure"
  <2>1. /\ cloud.lb.exists /\ cloud.lb.attributes = call.spec.attributes
        /\ cloud.lb.health = call.spec.health /\ call.seen.instances = cloud.lb.instances
    BY <1>3, RulesKnown, EnsureFacts DEF EnsureRest
  <2>2. EnsureRest(d, cl.lb, cl.open, 16)
    BY <1>1, <2>1 DEF EnsureRest
  <2>3. todo = {} => EnsureRest(d, cl.lb, cl.open, 17)
    BY <1>1, <1>2, <2>1 DEF EnsureRest
  <2>4. EnsureGroup(call, cloud.group, 16) /\ EnsureBalancer(call, cloud.lb, 16)
    BY <1>3, RulesKnown, EnsureFacts
  <2>5. EnsureGroup(d, cl.group, 16) /\ EnsureBalancer(d, cl.lb, 16)
    BY <1>1, <2>4 DEF EnsureGroup, EnsureBalancer
  <2>6. EnsureGroup(d, cl.group, 17) /\ EnsureBalancer(d, cl.lb, 17)
    BY <1>1, <2>4 DEF EnsureGroup, EnsureBalancer
  <2>7. Made(call) = 16 /\ Made(call) + 1 = 17 /\ d.op = "ensure"
    BY <1>1, <1>3, RulesKnown
  <2> QED BY <2>2, <2>3, <2>5, <2>6, <2>7 DEF Done, EnsureDone
<1>4. CASE call.op = "update"
  <2>1. UpdateDone(d, cl, 4) /\ UpdateDone(d, cl, 5)
    BY <1>1, <1>4, RulesKnown DEF UpdateDone
  <2>2. Made(call) = 4 /\ Made(call) + 1 = 5 /\ d.op = "update"
    BY <1>1, <1>4, RulesKnown
  <2> QED BY <2>1, <2>2 DEF Done
<1>5. CASE call.op = "delete"
  <2>1. d.nodes = {} /\ neededGroups(call.nodes) = {}
    BY <1>1, <1>5, RulesKnown, Here DEF DeleteDone
  <2>2. DeleteDone(d, cl, 2) /\ (todo = {} => DeleteDone(d, cl, 3))
    BY <1>2, <2>1 DEF DeleteDone, Opened
  <2>3. Made(call) = 2 /\ Made(call) + 1 = 3 /\ d.op = "delete"
    BY <1>1, <1>5, RulesKnown
  <2> QED BY <2>2, <2>3 DEF Done
<1> QED BY <1>1, <1>3, <1>4, <1>5 DEF Ops

LEMMA StepRules == ASSUME AWSInv, UNCHANGED want, changeSecurityGroupIngress PROVE After
<1> DEFINE open(e)   == IF e[2] THEN cloud.open \cup {e[1]} ELSE cloud.open \ {e[1]}
           change(e) == [cloud EXCEPT !.open = IF e[2] THEN @ \cup {e[1]} ELSE @ \ {e[1]}]
<1>1. At("rules") /\ EachOf(call.todo, change)
  BY DEF changeSecurityGroupIngress
<1>2. ~Idle /\ call \in AWSCalls /\ Continues(call) /\ cloud \in AWSClouds /\ Good(cloud)
  BY <1>1, Here
<1>3. Opens(call.todo, cloud.open, neededGroups(call.nodes))
  BY <1>1, RulesKnown
<1>4. CASE call.todo = {}
  <2>1. Proceed(call) /\ cloud' = cloud
    BY <1>1, <1>4 DEF EachOf, NoRequest
  <2>2. Done(call, cloud, Made(call) + 1)
    BY <1>1, <1>2, <1>3, <1>4, RulesDone
  <2> QED BY <1>2, <2>1, <2>2, Goes
<1>5. CASE call.todo # {}
  <2>1. PICK e \in call.todo :
          \/ /\ cloud' = change(e) /\ call' = [call EXCEPT !.todo = @ \ {e}]
             /\ UNCHANGED synced
          \/ cloud' \in {cloud, change(e)} /\ Fails
    BY <1>1, <1>5 DEF EachOf
  <2>2. Opens(call.todo \ {e}, open(e), neededGroups(call.nodes))
    BY <1>3, RuleChanged
  <2>3. /\ open(e) \in SUBSET SecurityGroups
        /\ ~cloud.lb.exists => open(e) \cap TaggedGroups = {}
    <3>1. e[1] \in neededGroups(call.nodes) \/ e[2] = FALSE
      BY <1>3 DEF Opens
    <3>2. open(e) \in SUBSET SecurityGroups
      BY <1>1, <1>2, <3>1, RulesKnown DEF AWSClouds
    <3>3. ASSUME ~cloud.lb.exists PROVE open(e) \cap TaggedGroups = {}
      <4>1. cloud.open \cap TaggedGroups = {} /\ e[2] = FALSE
        BY <1>1, <1>2, <3>1, <3>3, RulesKnown DEF Good, Whole
      <4> QED BY <4>1
    <3> QED BY <3>2, <3>3
  <2>4. change(e) = [cloud EXCEPT !.open = open(e)]
    OBVIOUS
  <2> HIDE DEF open, change
  <2>5. /\ change(e) \in AWSClouds /\ change(e).lb = cloud.lb
        /\ change(e).group = cloud.group /\ change(e).open = open(e)
    BY <1>2, <2>3, <2>4 DEF AWSClouds
  <2>6. Good(change(e))
    <3>1. Whole(change(e))
      BY <1>2, <2>3, <2>5 DEF Good, Whole
    <3>2. call.op = "update" => Exact(change(e), synced)
      BY <1>2, <2>5, Running DEF Good, Exact, FitsIn
    <3> QED BY <2>5, <3>1, <3>2 DEF Good
  <2>7. CASE cloud' = change(e) /\ call' = [call EXCEPT !.todo = @ \ {e}] /\ UNCHANGED synced
    <3>1. Continues(call') /\ call'.seen = call.seen /\ call'.todo = call.todo \ {e}
      BY <1>2, <2>7 DEF Continues, AWSCalls
    <3>2. Done(call', cloud', Made(call))
      BY <1>1, <2>2, <2>5, <2>7, <3>1, RulesDone
    <3> QED BY <1>2, <2>6, <2>7, <3>2, Works
  <2>8. CASE cloud' \in {cloud, change(e)} /\ Fails
    BY <1>2, <2>6, <2>8, Stops
  <2> QED BY <2>1, <2>7, <2>8
<1> QED BY <1>4, <1>5

-----------------------------------------------------------------------------
\* Registering an instance, in a call of either kind
LEMMA InstancesChange ==
    ASSUME AWSInv, NEW h, At(h), call.op # "delete", cloud.lb.exists,
           NEW instances \in SUBSET BalancerNodes, NEW lb,
           lb = [cloud.lb EXCEPT !.instances = instances]
    PROVE  /\ Good([cloud EXCEPT !.lb = lb]) /\ lb \in LBs /\ lb.instances = instances
           /\ lb.exists /\ lb.listeners = cloud.lb.listeners /\ lb.proxied = cloud.lb.proxied
           /\ lb.subnets = cloud.lb.subnets /\ lb.attributes = cloud.lb.attributes
           /\ lb.health = cloud.lb.health
<1>1. cloud.lb \in LBs /\ cloud \in AWSClouds
  BY Here DEF AWSClouds
<1>2. /\ lb \in LBs /\ lb.instances = instances
      /\ lb.exists /\ lb.listeners = cloud.lb.listeners /\ lb.proxied = cloud.lb.proxied
      /\ lb.subnets = cloud.lb.subnets /\ lb.attributes = cloud.lb.attributes
      /\ lb.health = cloud.lb.health
  BY <1>1 DEF LBs
<1> DEFINE new == [cloud EXCEPT !.lb = lb]
<1>3. new \in AWSClouds /\ new.lb = lb /\ new.group = cloud.group /\ new.open = cloud.open
  BY <1>1, <1>2 DEF AWSClouds
<1> HIDE DEF new
<1>4. Whole(new)
  BY <1>2, <1>3 DEF Whole
<1>5. call.op = "update" => Exact(new, synced)
  BY <1>2, <1>3, Here, Running DEF Good, Exact, FitsIn
<1>6. Good(new)
  BY <1>3, <1>4, <1>5 DEF Good
<1> QED BY <1>2, <1>6 DEF new

LEMMA StepInstances == ASSUME AWSInv, UNCHANGED want, ensureLoadBalancerInstances PROVE After
<1> DEFINE additions == call.nodes \ call.seen.instances
           removals  == call.seen.instances \ call.nodes
           more      == [cloud.lb EXCEPT !.instances = @ \cup additions]
           less      == [cloud.lb EXCEPT !.instances = @ \ removals]
           ifmore    == additions # {}
           ifless    == removals # {}
           Here2     == At("register") \/ At("deregister")
<1>1. ASSUME Here2
      PROVE  /\ ~Idle /\ call.op \in {"ensure", "update"} /\ cloud.lb.exists
             /\ call.nodes \in SUBSET BalancerNodes
             /\ cloud.lb.instances \in SUBSET BalancerNodes
             /\ At("register") => Made(call) = IF call.op = "ensure" THEN 17 ELSE 1
             /\ At("deregister") => Made(call) = IF call.op = "ensure" THEN 18 ELSE 2
  <2>1. PICK h \in {"register", "deregister"} : At(h)
    BY <1>1
  <2>2. /\ ~Idle /\ call.op \in {"ensure", "update"}
        /\ h = "register" => Made(call) = IF call.op = "ensure" THEN 17 ELSE 1
        /\ h = "deregister" => Made(call) = IF call.op = "ensure" THEN 18 ELSE 2
    BY <2>1, Here DEF EnsureAt, UpdateAt, DeleteAt, Ops
  <2>3. cloud.lb.exists
    BY <2>1, <2>2, Here, EnsureFacts DEF UpdateDone
  <2>4. /\ call.nodes \in SUBSET BalancerNodes
        /\ cloud.lb.instances \in SUBSET BalancerNodes
    BY <2>1, Here DEF AWSClouds, LBs
  <2>5. \A g : At(g) => g = h
    BY <2>1 DEF At
  <2> QED BY <2>2, <2>3, <2>4, <2>5
<1>2. ASSUME Here2
      PROVE  /\ Good([cloud EXCEPT !.lb = more]) /\ more \in LBs
             /\ more.instances = cloud.lb.instances \cup additions
             /\ more.exists /\ more.listeners = cloud.lb.listeners
             /\ more.proxied = cloud.lb.proxied /\ more.subnets = cloud.lb.subnets
             /\ more.attributes = cloud.lb.attributes /\ more.health = cloud.lb.health
  <2>1. cloud.lb.instances \cup additions \in SUBSET BalancerNodes
    BY <1>1, <1>2
  <2>2. call.op # "delete" /\ cloud.lb.exists
    BY <1>1, <1>2
  <2> HIDE DEF additions
  <2> QED BY <1>2, <2>1, <2>2, InstancesChange
<1>3. ASSUME Here2
      PROVE  /\ Good([cloud EXCEPT !.lb = less]) /\ less \in LBs
             /\ less.instances = cloud.lb.instances \ removals
             /\ less.exists /\ less.listeners = cloud.lb.listeners
             /\ less.proxied = cloud.lb.proxied /\ less.subnets = cloud.lb.subnets
             /\ less.attributes = cloud.lb.attributes /\ less.health = cloud.lb.health
  <2>1. cloud.lb.instances \ removals \in SUBSET BalancerNodes
    BY <1>1, <1>3
  <2>2. call.op # "delete" /\ cloud.lb.exists
    BY <1>1, <1>3
  <2> HIDE DEF removals
  <2> QED BY <1>3, <2>1, <2>2, InstancesChange
<1>4. additions = {} => call.seen.instances = call.seen.instances \cup call.nodes
  OBVIOUS
<1>5. /\ call.seen.instances \cup additions = call.seen.instances \cup call.nodes
      /\ (call.seen.instances \cup call.nodes) \ removals = call.nodes
      /\ removals = {} => call.seen.instances \cup call.nodes = call.nodes
  OBVIOUS
<1> HIDE DEF additions, removals, more, less
<1>6. ASSUME call.op = "update", Here2, NEW c, Continues(c), NEW cl, cl.lb.exists
      PROVE  Done(c, cl, Made(call) + 1)
  <2>1. Made(call) + 1 \in {2, 3} /\ c.op = "update"
    BY <1>1, <1>6 DEF Continues
  <2> QED BY <1>6, <2>1 DEF Done, UpdateDone
<1>7. CASE At("register") /\ RequestIf(ifmore, [cloud EXCEPT !.lb = more], call)
  <2>1. CASE call.op = "ensure"
    <3>1. Made(call) + 1 = 18
      BY <1>1, <1>7, <2>1
    <3>2. /\ cloud.lb.attributes = call.spec.attributes /\ cloud.lb.health = call.spec.health
          /\ Opened(cloud.open, neededGroups(call.nodes)) /\ call.seen.instances = cloud.lb.instances
      BY <1>1, <1>7, <2>1, EnsureFacts DEF EnsureRest
    <3>3. ifmore => EnsureRest(call, more, cloud.open, 18)
      BY <1>2, <1>5, <1>7, <3>2 DEF EnsureRest
    <3>4. ~ifmore => EnsureRest(call, cloud.lb, cloud.open, 18)
      BY <1>4, <3>2 DEF EnsureRest
    <3> HIDE DEF ifmore
    <3> QED BY <1>2, <1>7, <2>1, <3>1, <3>3, <3>4, RestRequest
  <2>2. CASE call.op = "update"
    <3> DEFINE new == [cloud EXCEPT !.lb = more]
    <3>1. new.lb = more /\ Continues(call)
      BY <1>7, Here DEF AWSClouds
    <3>2. Done(call, new, Made(call) + 1) /\ Done(call, cloud, Made(call) + 1)
      BY <1>1, <1>2, <1>6, <1>7, <2>2, <3>1
    <3>3. Good(new) /\ ~Idle
      BY <1>1, <1>2, <1>7
    <3> HIDE DEF new, ifmore
    <3>4. RequestIf(ifmore, new, call)
      BY <1>7 DEF new
    <3> QED BY <3>1, <3>2, <3>3, <3>4, Requested
  <2> QED BY <1>1, <1>7, <2>1, <2>2
<1>8. CASE At("deregister") /\ RequestIf(ifless, [cloud EXCEPT !.lb = less], call)
  <2>1. CASE call.op = "ensure"
    <3>1. Made(call) + 1 = 19
      BY <1>1, <1>8, <2>1
    <3>2. /\ cloud.lb.attributes = call.spec.attributes /\ cloud.lb.health = call.spec.health
          /\ Opened(cloud.open, neededGroups(call.nodes))
          /\ cloud.lb.instances = call.seen.instances \cup call.nodes
      BY <1>1, <1>8, <2>1, EnsureFacts DEF EnsureRest
    <3>3. ifless => EnsureRest(call, less, cloud.open, 19)
      BY <1>3, <1>5, <1>8, <3>2 DEF EnsureRest
    <3>4. ~ifless => EnsureRest(call, cloud.lb, cloud.open, 19)
      BY <1>5, <3>2 DEF EnsureRest
    <3> HIDE DEF ifless
    <3> QED BY <1>3, <1>8, <2>1, <3>1, <3>3, <3>4, RestRequest
  <2>2. CASE call.op = "update"
    <3> DEFINE new == [cloud EXCEPT !.lb = less]
    <3>1. new.lb = less /\ Continues(call)
      BY <1>8, Here DEF AWSClouds
    <3>2. Done(call, new, Made(call) + 1) /\ Done(call, cloud, Made(call) + 1)
      BY <1>1, <1>3, <1>6, <1>8, <2>2, <3>1
    <3>3. Good(new) /\ ~Idle
      BY <1>1, <1>3, <1>8
    <3> HIDE DEF new, ifless
    <3>4. RequestIf(ifless, new, call)
      BY <1>8 DEF new
    <3> QED BY <3>1, <3>2, <3>3, <3>4, Requested
  <2> QED BY <1>1, <1>8, <2>1, <2>2
<1>9. CASE /\ call.op = "update" /\ Here2 /\ Succeeds
           /\ cloud' \in {cloud, [cloud EXCEPT !.lb = more], [cloud EXCEPT !.lb = less]}
  <2>1. Good(cloud') /\ ~Idle
    BY <1>1, <1>2, <1>3, <1>9, Here
  <2> QED BY <1>9, <2>1, Ends
<1>10. /\ [cloud EXCEPT !.lb.instances = @ \cup additions] = [cloud EXCEPT !.lb = more]
       /\ [cloud EXCEPT !.lb.instances = @ \ removals] = [cloud EXCEPT !.lb = less]
  BY DEF more, less
<1> QED BY <1>7, <1>8, <1>9, <1>10 DEF ensureLoadBalancerInstances, additions, removals

LEMMA StepDelete ==
    ASSUME AWSInv, UNCHANGED want, deleteLoadBalancer \/ deleteSecurityGroup
    PROVE  After
<1> DEFINE gone    == [cloud EXCEPT !.lb = NoLB, !.busy = TRUE]
           nogroup == [cloud EXCEPT !.group = NoGroup]
<1>1. CASE At("delete_balancer") /\ Request(gone, call)
  <2>1. call.op = "delete" /\ Made(call) = 3 /\ ~Idle /\ cloud \in AWSClouds /\ Continues(call)
    BY <1>1, Here DEF Ops, EnsureAt, UpdateAt, DeleteAt
  <2>2. call.nodes = {} /\ cloud.open \cap TaggedGroups = {}
    BY <1>1, <2>1, Here DEF DeleteDone
  <2>3. gone \in AWSClouds /\ gone.lb = NoLB /\ gone.open = cloud.open
    BY <2>1, <2>2, NoLBType DEF AWSClouds
  <2>4. Good(gone)
    BY <2>1, <2>2, <2>3 DEF Good, Whole
  <2>5. Done(call, gone, Made(call) + 1)
    BY <2>1, <2>2, <2>3 DEF Done, DeleteDone
  <2> QED BY <1>1, <2>1, <2>4, <2>5, Requests
<1>2. CASE At("delete_group") /\ Request(nogroup, call)
  <2>1. call.op = "delete" /\ Made(call) = 4 /\ ~Idle /\ cloud \in AWSClouds /\ Continues(call)
        /\ Whole(cloud)
    BY <1>2, Here DEF Ops, EnsureAt, UpdateAt, DeleteAt
  <2>2. call.nodes = {} /\ cloud.open \cap TaggedGroups = {}
    BY <1>2, <2>1, Here DEF DeleteDone
  <2>3. nogroup \in AWSClouds /\ nogroup.lb = cloud.lb /\ nogroup.open = cloud.open
    BY <2>1 DEF AWSClouds, GroupValues, NoGroup
  <2>4. Good(nogroup)
    BY <2>1, <2>2, <2>3 DEF Good, Whole
  <2>5. Done(call, nogroup, Made(call) + 1)
    BY <2>1, <2>2, <2>3 DEF Done, DeleteDone
  <2> QED BY <1>2, <2>1, <2>4, <2>5, Requests
<1>3. CASE At("delete_group") /\ Fails /\ UNCHANGED cloud
  BY <1>3, Here, Stops
<1> QED BY <1>1, <1>2, <1>3 DEF deleteLoadBalancer, deleteSecurityGroup, NoRequest

LEMMA StepBackground == ASSUME AWSInv, UNCHANGED want, BackgroundDeletion PROVE After
<1>1. cloud \in AWSClouds /\ cloud' = [cloud EXCEPT !.busy = FALSE] /\ UNCHANGED <<synced, call>>
  BY DEF AWSInv, AWSTypes, BackgroundDeletion
<1>2. /\ cloud' \in AWSClouds /\ cloud'.lb = cloud.lb /\ cloud'.group = cloud.group
      /\ cloud'.open = cloud.open
  BY <1>1 DEF AWSClouds
<1>3. \A m : Done(call, cloud, m) /\ call.op \in Ops => Done(call, cloud', m)
  BY <1>2 DEF Done, EnsureDone, UpdateDone, DeleteDone, Ops
<1>4. Exact(cloud', synced)
  BY <1>2 DEF AWSInv, Exact, FitsIn
<1>5. Whole(cloud')
  BY <1>2 DEF AWSInv, Whole
<1>6. call # NoCall => Runs(call, cloud', synced)
  BY <1>3 DEF AWSInv, Runs, AWSCalls
<1> QED BY <1>1, <1>2, <1>4, <1>5, <1>6 DEF After, AWSInv, AWSTypes

LEMMA StepChange == ASSUME AWSInv, Change(Shapes) PROVE After
<1>1. want \in [present : BOOLEAN, spec : Shapes, nodes : SUBSET BalancerNodes]
  BY DEF AWSInv, AWSTypes
<1>2. want' \in [present : BOOLEAN, spec : Shapes, nodes : SUBSET BalancerNodes]
  BY <1>1 DEF Change
<1>3. UNCHANGED <<synced, cloud, call>>
  BY DEF Change
<1> QED BY <1>2, <1>3 DEF After, AWSInv, AWSTypes

-----------------------------------------------------------------------------
(***************************************************************************)
(* The theorems about AWS                                                  *)
(***************************************************************************)
\* A node's instance is stopped or started again.
LEMMA StepNode == ASSUME AWSInv, NEW n \in BalancerNodes, NodeStopsOrStarts(n) PROVE After
<1>1. UNCHANGED <<want, synced, cloud, call>>
  BY DEF NodeStopsOrStarts
<1> QED BY <1>1 DEF After, AWSInv, AWSTypes

\* The groups of the instances do not change.
LEMMA Renewed ==
    ASSUME After, UNCHANGED groupsOf, Instances'
    PROVE  AWSInv'
<1>1. ASSUME NEW N PROVE neededGroups(N) = UNION {IF groupsOf'[n] \cap TaggedGroups # {}
                                                    THEN groupsOf'[n] \cap TaggedGroups
                                                    ELSE groupsOf'[n] : n \in N}
  BY DEF neededGroups, candidateGroups
<1>2. Exact(cloud, synced)'
  BY <1>1 DEF After, Exact, neededGroups, candidateGroups
<1>3. call' # NoCall => Runs(call, cloud, synced)'
  BY <1>1 DEF After, Runs, Done, EnsureDone, EnsureRest, UpdateDone, DeleteDone,
              neededGroups, candidateGroups
<1> QED BY <1>2, <1>3 DEF After, AWSInv

LEMMA AWSInitially == Init => Inv
<1> SUFFICES ASSUME Init, provider = "aws" PROVE AWSInv
  BY DEF Inv
<1>1. AWSInit
  BY DEF Init, AWSInit, GCEInit, OpenStackInit, ServiceInit
<1>2. PICK s \in Shapes : want = [present |-> TRUE, spec |-> s, nodes |-> BalancerNodes]
  BY <1>1 DEF AWSInit, ServiceInit
<1>3. /\ synced = [spec |-> want.spec, ensured |-> FALSE, by |-> "none", nodes |-> {},
                   asked |-> {}, known |-> BalancerNodes, answer |-> "none"]
      /\ cloud = [group |-> NoGroup, lb |-> NoLB, open |-> {}, busy |-> FALSE]
      /\ call = NoCall
  BY <1>1 DEF AWSInit, ServiceInit
<1>4. want \in [present : BOOLEAN, spec : Shapes, nodes : SUBSET BalancerNodes]
  BY <1>2
<1>5. cloud \in AWSClouds /\ cloud.lb = NoLB /\ cloud.open = {}
  BY <1>3, NoLBType DEF AWSClouds, GroupValues, NoGroup
<1>6. synced \in Answers /\ ~synced.ensured
  BY <1>3, <1>4 DEF Answers
<1>7. Instances
  BY DEF Init, InstancesInit, Instances
<1> QED BY <1>3, <1>4, <1>5, <1>6, <1>7 DEF AWSInv, AWSTypes, Whole, Exact

\* The lookup of the instances, at the begin of a call
LEMMA Lookup ==
    ASSUME AWSInv, FindInstances, UNCHANGED want
    PROVE  After /\ UNCHANGED groupsOf /\ Instances'
<1> DEFINE found == getInstancesByNodeNamesCached
<1>1. found \in SUBSET want.nodes /\ want.nodes \in SUBSET BalancerNodes
  BY DEF getInstancesByNodeNamesCached, AWSInv, AWSTypes, Instances
<1>2. \/ StartServing(found, "ensure", EnsureSteps, <<>>, NoLB)
      \/ StartServing(found, "update", UpdateSteps, <<>>, NoLB)
  BY DEF FindInstances
<1>3. UNCHANGED <<up, groupsOf>>
      /\ cache' = IF found = {} THEN cache ELSE [names |-> want.nodes, found |-> found]
  BY DEF FindInstances
<1> HIDE DEF found
<1>4. EnsureSteps = StepsOf("ensure") /\ UpdateSteps = StepsOf("update")
  BY DEF StepsOf
<1>5. PICK op \in Ops : StartServing(found, op, StepsOf(op), <<>>, NoLB)
  BY <1>2, <1>4, Zenon DEF Ops
<1>6. After
  BY <1>1, <1>5, AWSStarts
<1>7. Instances'
  BY <1>1, <1>3 DEF AWSInv, Instances
<1> QED BY <1>3, <1>6, <1>7

\* Every step of AWS's load balancer, for the Service as it is then
LEMMA AWSWorks == ASSUME AWSInv, AWSSteps, UNCHANGED want PROVE After
<1>3. CASE Start("delete", DeleteSteps, <<>>, NoLB)
  <2>1. StartServing(want.nodes, "delete", StepsOf("delete"), <<>>, NoLB) /\ "delete" \in Ops
    BY <1>3 DEF Start, StepsOf, Ops
  <2> QED BY <2>1, AWSStarts
<1>4. CASE \/ ensureSecurityGroup \/ tagSecurityGroup \/ setSecurityGroupIngress
  BY <1>4, StepGroup, StepTag, StepIngress
<1>5. CASE \/ describeLoadBalancer \/ createLoadBalancer \/ syncSubnets \/ syncListeners
  BY <1>5, StepDescribe, StepCreate, StepSubnets, StepListeners
<1>6. CASE \/ createProxyProtocolPolicy \/ setBackendPolicies \/ syncAttributes \/ describeAgain
  BY <1>6, StepPolicy, StepBackends, StepAttributes, StepDescribeAgain
<1>7. CASE \/ ensureLoadBalancerHealthCheck \/ updateInstanceSecurityGroups
           \/ changeSecurityGroupIngress \/ ensureLoadBalancerInstances
  BY <1>7, StepHealth, StepGroups, StepRules, StepInstances
<1>8. CASE deleteLoadBalancer \/ deleteSecurityGroup \/ BackgroundDeletion
  BY <1>8, StepDelete, StepBackground
<1> QED BY <1>3, <1>4, <1>5, <1>6, <1>7, <1>8 DEF AWSSteps

LEMMA AWSActs == ASSUME AWSInv, AWSNext PROVE AWSInv'
<1>1. Instances
  BY DEF AWSInv
<1>2. CASE AWSWork
  <2>1. CASE FindInstances
    BY <1>2, <2>1, Lookup, Renewed DEF AWSWork
  <2>2. CASE AWSSteps /\ UNCHANGED awsVars
    <3>1. After
      BY <1>2, <2>2, AWSWorks DEF AWSWork
    <3>2. UNCHANGED groupsOf /\ Instances'
      BY <1>1, <2>2 DEF awsVars, Instances
    <3> QED BY <3>1, <3>2, Renewed
  <2> QED BY <1>2, <2>1, <2>2 DEF AWSWork
<1>3. CASE Change(Shapes) /\ UNCHANGED awsVars
  <2>1. UNCHANGED groupsOf /\ Instances'
    BY <1>1, <1>3 DEF awsVars, Instances
  <2> QED BY <1>3, <2>1, StepChange, Renewed
<1>4. CASE \E n \in BalancerNodes : NodeStopsOrStarts(n)
  <2>1. PICK n \in BalancerNodes : NodeStopsOrStarts(n)
    BY <1>4
  <2>2. UNCHANGED groupsOf /\ Instances'
    BY <1>1, <2>1 DEF NodeStopsOrStarts, Instances
  <2> QED BY <2>1, <2>2, StepNode, Renewed
<1> QED BY <1>2, <1>3, <1>4 DEF AWSNext

LEMMA AWSNextStep == Inv /\ [Next]_vars => Inv'
<1> SUFFICES ASSUME Inv, [Next]_vars, provider' = "aws" PROVE AWSInv'
  BY DEF Inv
<1>1. CASE UNCHANGED <<balancerVars, awsVars>>
  <2>1. AWSInv /\ UNCHANGED <<want, synced, cloud, call, groupsOf, up, cache>>
    BY <1>1 DEF balancerVars, awsVars, Inv
  <2>2. After /\ Instances'
    BY <2>1 DEF AWSInv, After, AWSTypes, Instances
  <2> QED BY <2>1, <2>2, Renewed
<1>2. CASE Balancer(AWSNext)
  <2>1. AWSInv
    BY <1>2 DEF Balancer, AWSNext, AWSWork, Inv
  <2> QED BY <1>2, <2>1, AWSActs DEF Balancer
<1>3. CASE Elsewhere(GCENext)
  BY <1>3 DEF Elsewhere, Balancer, GCENext, GCEWork, Change
<1>4. CASE Elsewhere(OpenStackNext)
  BY <1>4 DEF Elsewhere, Balancer, OpenStackNext, OpenStackWork, Change
<1> QED BY <1>1, <1>2, <1>3, <1>4 DEF Next, vars

(***************************************************************************)
(* What each request of EnsureLoadBalancer, UpdateLoadBalancer and         *)
(* EnsureLoadBalancerDeleted leaves for those after it holds at every      *)
(* point of a call, whatever calls before it left behind.                  *)
(***************************************************************************)
THEOREM BalancerInvariant == Spec => []Inv
<1> QED BY AWSInitially, AWSNextStep, PTL DEF Spec

(***************************************************************************)
(* When EnsureLoadBalancer of AWS answers success, its load balancer, the  *)
(* policies and the group are exactly what the Service asks for; exactly   *)
(* the instances found are registered, their groups are open, and no other *)
(* group with the tag; though a call compares with what it has seen before *)
(* it changed anything.  The groups of the instances are any.              *)
(***************************************************************************)
THEOREM EnsuredExact == Spec => []EnsuredIsExact
<1>1. Inv => EnsuredIsExact
  <2> SUFFICES ASSUME AWSInv, provider = "aws", synced.ensured
               PROVE  /\ Fits(synced.spec)
                      /\ synced.by = "ensure" =>
                           /\ synced.nodes \subseteq synced.asked
                           /\ cloud.lb.instances = synced.nodes
                           /\ neededGroups(synced.nodes) \subseteq cloud.open
                           /\ cloud.open \cap TaggedGroups \subseteq neededGroups(synced.nodes)
    BY DEF Inv, EnsuredIsExact
  <2>1. FitsIn(cloud, synced.spec)
        /\ (synced.by = "ensure" => /\ synced.nodes \subseteq synced.asked
                                    /\ cloud.lb.instances = synced.nodes
                                    /\ Opened(cloud.open, neededGroups(synced.nodes)))
    BY DEF AWSInv, Exact
  <2> QED BY <2>1 DEF FitsIn, Fits, ProxiedBy, Opened
<1> QED BY <1>1, BalancerInvariant, PTL

(***************************************************************************)
(* A rule that opens a group with the tag for the load balancer of AWS     *)
(* never outlives it: EnsureLoadBalancerDeleted closes them first, and its *)
(* requests may fail or be repeated at any point.  Of a group without the  *)
(* tag this is not true: see NoRuleIsLeft.                                 *)
(***************************************************************************)
THEOREM OpenForBalancer == Spec => []OpenOnlyForBalancer
<1>1. Inv => OpenOnlyForBalancer
  BY DEF Inv, AWSInv, Whole, OpenOnlyForBalancer
<1> QED BY <1>1, BalancerInvariant, PTL

=============================================================================
