------------------------------ MODULE GCEProofs ------------------------------
(***************************************************************************)
(* Theorems about the load balancer of GCE in CloudProviders, for any      *)
(* shapes of a Service, any addresses, nodes and pool sizes, and any       *)
(* number of changes and failed requests.                                  *)
(***************************************************************************)
EXTENDS CloudProviders, TLAPS

-----------------------------------------------------------------------------
(***************************************************************************)
(* The values of the resources, and of a call                              *)
(***************************************************************************)
Addresses == IPs \cup UserIPs \cup {"none"}
Protocols == {"none"} \cup {s.protocol : s \in GCEShapes}
Checks    == {"none"} \cup {s.check : s \in GCEShapes}

Rules == [exists : BOOLEAN, ip : Addresses, protocol : Protocols,
          range : {<<>>} \cup {loadBalancerPortRange(s.ports) : s \in GCEShapes}]

Firewalls == [exists : BOOLEAN, ip : Addresses, protocol : Protocols,
              ports : {{}} \cup {s.ports : s \in GCEShapes},
              ranges : {{}} \cup {s.ranges : s \in GCEShapes}]

Pools == [exists : BOOLEAN, affinity : {"none"} \cup {s.affinity : s \in GCEShapes},
          checked : BOOLEAN, instances : SUBSET BalancerNodes]

GCEClouds == [rule : Rules, address : IPs \cup {"none"}, firewall : Firewalls, pool : Pools,
              check : Checks]

GCEOps == {"ensure", "update", "delete"}
GCEAnswers == [spec : GCEShapes, ensured : BOOLEAN, by : GCEOps \cup {"none"},
               nodes : SUBSET BalancerNodes, asked : SUBSET BalancerNodes,
               known : SUBSET BalancerNodes, answer : Addresses]

Knowledge == [rule : Rules, ruleNeedsUpdate : BOOLEAN, owned : BOOLEAN, safe : BOOLEAN,
              poolExists : BOOLEAN, poolNeedsUpdate : BOOLEAN, check : Checks]

EnsureNames ==
    {"get_rule", "owner", "address", "firewall", "pool?", "check?", "check", "rebuild",
     "drop_rule", "drop_pool", "drop_check", "make_check", "make_pool", "add", "remove", "verify",
     "make_rule", "release"}
GCEStepNames == EnsureNames \cup {"get_pool", "tear_down"}

\* What is left of the goroutines of EnsureLoadBalancerDeleted
FirewallWork == <<"firewall">>
AddressWork  == <<"address">>
RuleWork     == <<"rule", "pool", "check">>
PoolWork     == <<"pool", "check">>
CheckWork    == <<"check">>

GCEWorks == {FirewallWork, AddressWork, RuleWork, PoolWork, CheckWork}

GCECalls == [op : GCEOps, steps : Seq(GCEStepNames), deferred : {<<>>, <<"release">>},
             failed : BOOLEAN, spec : GCEShapes, nodes : SUBSET BalancerNodes,
             asked : SUBSET BalancerNodes, seen : Knowledge,
             todo : SUBSET (BalancerNodes \cup GCEWorks), answer : Addresses]

-----------------------------------------------------------------------------
(***************************************************************************)
(* The steps of EnsureLoadBalancer have one order, of which a call makes a *)
(* part: what is left of them tells what is made.                          *)
(***************************************************************************)
Rank(step) ==
    CASE step = "get_rule"   -> 1  [] step = "owner"      -> 2  [] step = "address"   -> 3
      [] step = "firewall"   -> 4  [] step = "pool?"      -> 5  [] step = "check?"    -> 6
      [] step = "check"      -> 7  [] step = "rebuild"    -> 8  [] step = "drop_rule" -> 9
      [] step = "drop_pool"  -> 10 [] step = "drop_check" -> 11 [] step = "make_check" -> 12
      [] step = "make_pool"  -> 13 [] step = "add"        -> 14 [] step = "remove"    -> 15
      [] step = "verify"     -> 16 [] step = "make_rule"  -> 17 [] step = "release"   -> 18

Left(steps) == {steps[i] : i \in DOMAIN steps}

Ascends(steps, low, high) ==
    /\ steps \in Seq(EnsureNames)
    /\ \A i \in DOMAIN steps : Rank(steps[i]) >= low /\ Rank(steps[i]) <= high
    /\ \A i, j \in DOMAIN steps : i < j => Rank(steps[i]) < Rank(steps[j])

-----------------------------------------------------------------------------
(***************************************************************************)
(* The rule and the pool, compared with what the Service asks for          *)
(***************************************************************************)
RuleAsAsked(rule, s) ==
    /\ rule.exists /\ s.ip \in {"none", rule.ip}
    /\ rule.range = loadBalancerPortRange(s.ports) /\ rule.protocol = s.protocol

RuleFits(rule, s, ip) ==
    /\ rule.exists
    /\ rule.range = loadBalancerPortRange(s.ports) /\ rule.protocol = s.protocol
    /\ s.ip \notin UserIPs => rule.ip = ip

FirewallFits(fw, s, ip) ==
    fw.exists /\ fw.ip = ip /\ fw.ports = s.ports /\ fw.ranges = s.ranges

PoolFits(pool, s) == pool.exists /\ pool.affinity = s.affinity

(***************************************************************************)
(* What a call of EnsureLoadBalancer that has the steps L left has seen    *)
(* and made                                                                *)
(***************************************************************************)
Order(L) ==
    /\ "release" \in L
    /\ \A step \in L : Rank(step) < 8 => "rebuild" \in L
    /\ "address" \in L => "firewall" \in L
    /\ "rebuild" \in L => \A step \in L : Rank(step) <= 8 \/ step = "release"

Looked(c, cl, L) ==
    /\ "rebuild" \in L /\ "get_rule" \notin L =>
         c.seen.rule = cl.rule /\ (c.seen.ruleNeedsUpdate \/ RuleAsAsked(cl.rule, c.spec))
    /\ "address" \in L /\ "owner" \notin L /\ c.seen.owned =>
         c.spec.ip # "none" /\ (c.spec.ip \notin UserIPs => c.spec.ip = cl.address)
    /\ "rebuild" \in L /\ "pool?" \notin L =>
         /\ c.seen.poolExists = cl.pool.exists
         /\ c.seen.poolNeedsUpdate \/ PoolFits(cl.pool, c.spec)

Placed(c, cl, L) ==
    /\ "address" \notin L =>
         /\ c.answer # "none"
         /\ c.spec.ip \notin UserIPs => c.answer = cl.address
         /\ c.spec.ip \in IPs => c.answer = c.spec.ip
    /\ "firewall" \notin L => FirewallFits(cl.firewall, c.spec, c.answer)

Rebuilt(c, cl, L) ==
    "rebuild" \notin L =>
        /\ "make_rule" \in L \/ RuleFits(cl.rule, c.spec, c.answer)
        /\ "make_pool" \in L \/ PoolFits(cl.pool, c.spec)
        /\ "drop_pool" \in L /\ cl.rule.exists => "drop_rule" \in L
        /\ "drop_rule" \in L => "make_rule" \in L /\ ~c.seen.safe
        /\ "drop_pool" \in L => "make_pool" \in L

GCEEnsureDone(c, cl) ==
    /\ c.steps # <<>> /\ Ascends(c.steps, 1, 18)
    /\ LET L == Left(c.steps)
       IN  IF c.failed THEN L = {"release"}
                       ELSE Order(L) /\ Looked(c, cl, L) /\ Placed(c, cl, L) /\ Rebuilt(c, cl, L)

GCEUpdateDone(c, cl) ==
    /\ ~c.failed /\ c.deferred = <<>>
    /\ \/ c.steps = GCEUpdateSteps
       \/ c.steps = <<"add", "remove", "verify">> /\ c.todo = cl.pool.instances
       \/ c.steps = <<"remove", "verify">> /\ cl.pool.instances = c.todo \cup c.nodes
       \/ c.steps = <<"verify">> /\ cl.pool.instances = c.nodes

TornDown(c, cl) ==
    LET some(works) == works \cap c.todo # {}
    IN  /\ FirewallWork \in c.todo \/ ~cl.firewall.exists
        /\ AddressWork \in c.todo \/ cl.address = "none"
        /\ RuleWork \in c.todo \/ ~cl.rule.exists
        /\ some({RuleWork, PoolWork}) \/ ~cl.pool.exists
        /\ c.spec.check # "none" =>
             \/ cl.check = "none"
             \/ c.seen.check # "none" /\ some({RuleWork, PoolWork, CheckWork})

GCEDeleteDone(c, cl) ==
    /\ c.deferred = <<>>
    /\ \/ c.steps = GCEDeleteSteps /\ ~c.failed
       \/ c.steps = <<"tear_down">> /\ c.todo \subseteq GCEWorks /\ (c.failed \/ TornDown(c, cl))

GCEDone(c, cl) == CASE c.op = "ensure" -> GCEEnsureDone(c, cl)
                    [] c.op = "update" -> GCEUpdateDone(c, cl)
                    [] c.op = "delete" -> GCEDeleteDone(c, cl)

-----------------------------------------------------------------------------
(***************************************************************************)
(* From its creation to the call that deletes it the load balancer is      *)
(* tended; it has an address of GCE's unless the Service names the user's. *)
(***************************************************************************)
Tended == IF Idle THEN want.present ELSE call.op # "delete"

GCEsAddress == Tended /\ IF Idle THEN want.spec.ip \notin UserIPs ELSE call.spec.ip \notin UserIPs

GCEWhole(cl) == IF cl.rule.exists THEN cl.rule.ip # "none" ELSE cl.rule = NoRule

Standing(cl) == cl.rule.exists => cl.pool.exists /\ cl.firewall.exists

\* The rule's address is the reserved one, and one of them is what was answered.
Agreed(cl, a) ==
    /\ cl.rule.exists /\ cl.address # "none" => cl.rule.ip = cl.address
    /\ a.answer # "none" => (cl.rule.exists /\ cl.rule.ip = a.answer) \/ cl.address = a.answer

\* The address may be released at the end only if the answered one is in the rule.
Releasable(c, cl, a) == c.seen.safe /\ a.answer # "none" => cl.rule.exists

GCEExact(cl, a) ==
    /\ a.ensured =>
         /\ RuleFits(cl.rule, a.spec, a.answer) /\ PoolFits(cl.pool, a.spec)
         /\ cl.firewall.exists /\ cl.firewall.ports = a.spec.ports
         /\ cl.firewall.ranges = a.spec.ranges
         /\ a.spec.ip \notin UserIPs => cl.firewall.ip = a.answer
         /\ a.spec.ip \in IPs => a.answer = a.spec.ip
    /\ a.ensured /\ a.by = "update" => cl.pool.instances = a.nodes

Gone(cl, s) ==
    /\ ~cl.rule.exists /\ ~cl.firewall.exists /\ ~cl.pool.exists /\ cl.address = "none"
    /\ s.check # "none" => cl.check = "none"

Sound(cl) ==
    /\ cl \in GCEClouds /\ GCEWhole(cl)
    /\ Tended => Standing(cl)
    /\ GCEsAddress => Agreed(cl, synced)

\* The call that runs, while the answer of the last one is taken back
GCERuns ==
    /\ call \in GCECalls /\ GCEDone(call, cloud)
    /\ call.op = "delete" => ~want.present
    /\ call.spec.ip \in UserIPs => want.spec.ip \in UserIPs
    /\ GCEsAddress => Releasable(call, cloud, synced)
    /\ synced.by = "none" /\ (synced.ensured <=> call.op = "update")

GCETypes ==
    /\ want \in [present : BOOLEAN, spec : GCEShapes, nodes : SUBSET BalancerNodes]
    /\ synced \in GCEAnswers
    /\ synced.ensured => synced.by # "delete"

GCEInv ==
    /\ GCETypes /\ Sound(cloud) /\ GCEExact(cloud, synced)
    /\ synced.by = "delete" => call = NoCall /\ ~want.present /\ Gone(cloud, synced.spec)
    /\ call = NoCall \/ GCERuns

GCEHolds == provider = "gce" => GCEInv

-----------------------------------------------------------------------------
(***************************************************************************)
(* The order of the steps                                                  *)
(***************************************************************************)
LEMMA Ranks ==
    /\ Rank("get_rule") = 1 /\ Rank("owner") = 2 /\ Rank("address") = 3
    /\ Rank("firewall") = 4 /\ Rank("pool?") = 5 /\ Rank("check?") = 6
    /\ Rank("check") = 7 /\ Rank("rebuild") = 8 /\ Rank("drop_rule") = 9
    /\ Rank("drop_pool") = 10 /\ Rank("drop_check") = 11 /\ Rank("make_check") = 12
    /\ Rank("make_pool") = 13 /\ Rank("add") = 14 /\ Rank("remove") = 15
    /\ Rank("verify") = 16 /\ Rank("make_rule") = 17 /\ Rank("release") = 18
<1> QED BY DEF Rank

LEMMA RankTypes == \A step \in EnsureNames : Rank(step) \in 1 .. 18
<1> QED BY Ranks DEF EnsureNames

\* The next step, and what is left behind it
LEMMA Ahead ==
    ASSUME NEW s, Ascends(s, 1, 18), s # <<>>
    PROVE  /\ Head(s) \in Left(s) /\ Left(s) \subseteq EnsureNames
           /\ \A y \in Left(s) : y = Head(s) \/ Rank(Head(s)) < Rank(y)
           /\ Ascends(Tail(s), 1, 18) /\ Left(Tail(s)) = Left(s) \ {Head(s)}
           /\ Len(s) > 1 => Tail(s) # <<>>
           /\ Head(s) = "release" => Len(s) = 1
           /\ Head(s) # "release" /\ "release" \in Left(s) => Len(s) > 1
<1>1. /\ s \in Seq(EnsureNames) /\ Len(s) \in Nat /\ Len(s) >= 1 /\ DOMAIN s = 1 .. Len(s)
      /\ Head(s) = s[1] /\ Tail(s) \in Seq(EnsureNames) /\ Len(Tail(s)) = Len(s) - 1
      /\ DOMAIN Tail(s) = 1 .. Len(s) - 1 /\ \A i \in 1 .. Len(s) - 1 : Tail(s)[i] = s[i + 1]
  BY DEF Ascends
<1>2. \A i \in 1 .. Len(s) : s[i] \in EnsureNames /\ Rank(s[i]) \in 1 .. 18
  BY <1>1, RankTypes
<1>3. \A i \in 2 .. Len(s) : Rank(s[1]) < Rank(s[i]) /\ s[i] # s[1]
  BY <1>1, <1>2 DEF Ascends
<1>4. Head(s) \in Left(s) /\ Left(s) \subseteq EnsureNames
  BY <1>1, <1>2 DEF Left
<1>5. \A y \in Left(s) : y = Head(s) \/ Rank(Head(s)) < Rank(y)
  BY <1>1, <1>3 DEF Left
<1>6. Ascends(Tail(s), 1, 18)
  <2>1. \A i \in DOMAIN Tail(s) : i + 1 \in DOMAIN s /\ Tail(s)[i] = s[i + 1]
    BY <1>1
  <2>2. \A i, j \in DOMAIN Tail(s) : i < j => i + 1 < j + 1
    BY <1>1
  <2> QED BY <1>1, <2>1, <2>2 DEF Ascends
<1>7. Left(Tail(s)) = Left(s) \ {Head(s)}
  <2>1. ASSUME NEW y \in Left(Tail(s)) PROVE y \in Left(s) \ {Head(s)}
    <3>1. PICK i \in 1 .. Len(s) - 1 : y = s[i + 1]
      BY <1>1 DEF Left
    <3>2. i + 1 \in 2 .. Len(s) /\ i + 1 \in DOMAIN s
      BY <1>1
    <3> QED BY <1>1, <1>3, <3>1, <3>2 DEF Left
  <2>2. ASSUME NEW y \in Left(s) \ {Head(s)} PROVE y \in Left(Tail(s))
    <3>1. PICK i \in 1 .. Len(s) : y = s[i]
      BY <1>1 DEF Left
    <3>2. i # 1
      BY <1>1, <3>1
    <3>3. i - 1 \in 1 .. Len(s) - 1 /\ (i - 1) + 1 = i
      BY <1>1, <3>2
    <3>4. Tail(s)[i - 1] = y /\ i - 1 \in DOMAIN Tail(s)
      BY <1>1, <3>1, <3>3
    <3> QED BY <3>4 DEF Left
  <2> QED BY <2>1, <2>2
<1>8. Len(s) > 1 => Tail(s) # <<>>
  <2>1. Len(<<>>) = 0
    OBVIOUS
  <2>2. Len(s) > 1 => Len(Tail(s)) # 0
    BY <1>1
  <2> QED BY <2>1, <2>2
<1>9. Head(s) = "release" => Len(s) = 1
  <2> SUFFICES ASSUME Head(s) = "release", Len(s) # 1 PROVE FALSE
    OBVIOUS
  <2>1. 2 \in 2 .. Len(s) /\ 2 \in 1 .. Len(s)
    BY <1>1
  <2>2. Rank(s[2]) \in 1 .. 18 /\ 18 < Rank(s[2])
    BY <1>1, <1>2, <1>3, <2>1, Ranks
  <2> QED BY <2>2
<1>10. Head(s) # "release" /\ "release" \in Left(s) => Len(s) > 1
  BY <1>1 DEF Left
<1> QED BY <1>4, <1>5, <1>6, <1>7, <1>8, <1>9, <1>10

LEMMA OneAfterAnother ==
    ASSUME NEW a \in Nat, NEW b \in Nat, NEW c \in Nat, NEW d \in Nat, a <= b, b < c, c <= d,
           NEW s, NEW t, Ascends(s, a, b), Ascends(t, c, d)
    PROVE  Ascends(s \o t, a, d) /\ Left(s \o t) = Left(s) \cup Left(t)
<1>1. PICK m \in Nat, n \in Nat :
         /\ s \in Seq(EnsureNames) /\ t \in Seq(EnsureNames) /\ s \o t \in Seq(EnsureNames)
         /\ DOMAIN s = 1 .. m /\ DOMAIN t = 1 .. n /\ DOMAIN (s \o t) = 1 .. (m + n)
         /\ \A i \in 1 .. m : (s \o t)[i] = s[i]
         /\ \A i \in (m + 1) .. (m + n) : (s \o t)[i] = t[i - m]
  <2>1. s \in Seq(EnsureNames) /\ t \in Seq(EnsureNames)
    BY DEF Ascends
  <2>2. /\ Len(s) \in Nat /\ Len(t) \in Nat /\ s \o t \in Seq(EnsureNames)
        /\ Len(s \o t) = Len(s) + Len(t)
        /\ \A i \in 1 .. Len(s) : (s \o t)[i] = s[i]
        /\ \A i \in (Len(s) + 1) .. (Len(s) + Len(t)) : (s \o t)[i] = t[i - Len(s)]
    BY <2>1
  <2>3. DOMAIN s = 1 .. Len(s) /\ DOMAIN t = 1 .. Len(t) /\ DOMAIN (s \o t) = 1 .. Len(s \o t)
    BY <2>1, <2>2
  <2> WITNESS Len(s) \in Nat, Len(t) \in Nat
  <2> QED BY <2>1, <2>2, <2>3
<1> PICK w : w = s \o t
  OBVIOUS
<1>2. /\ \A i \in 1 .. m : s[i] \in EnsureNames
      /\ \A i \in 1 .. n : t[i] \in EnsureNames
  BY <1>1
<1>3. \A i \in 1 .. (m + n) : i \in 1 .. m \/ (i \in (m + 1) .. (m + n) /\ i - m \in 1 .. n)
  BY <1>1
<1>4. /\ \A i \in 1 .. m : i \in 1 .. (m + n) /\ w[i] = s[i]
      /\ \A i \in 1 .. n : i + m \in 1 .. (m + n) /\ w[i + m] = t[i]
      /\ \A i \in (m + 1) .. (m + n) : w[i] = t[i - m]
  <2>1. \A i \in 1 .. n : /\ i + m \in (m + 1) .. (m + n) /\ i + m \in 1 .. (m + n)
                          /\ (i + m) - m = i
    BY <1>1
  <2>2. \A i \in 1 .. m : i \in 1 .. (m + n)
    BY <1>1
  <2> QED BY <1>1, <2>1, <2>2
<1>5. Left(w) = Left(s) \cup Left(t)
  <2>1. ASSUME NEW y \in Left(w) PROVE y \in Left(s) \cup Left(t)
    <3>1. PICK i \in 1 .. (m + n) : y = w[i]
      BY <1>1 DEF Left
    <3>2. CASE i \in 1 .. m
      BY <3>1, <3>2, <1>1, <1>4 DEF Left
    <3>3. CASE i \in (m + 1) .. (m + n) /\ i - m \in 1 .. n
      BY <3>1, <3>3, <1>1, <1>4 DEF Left
    <3> QED BY <1>3, <3>2, <3>3
  <2>2. Left(s) \subseteq Left(w)
    BY <1>1, <1>4 DEF Left
  <2>3. ASSUME NEW y \in Left(t) PROVE y \in Left(w)
    <3>1. PICK i \in 1 .. n : y = t[i]
      BY <1>1 DEF Left
    <3>2. i + m \in DOMAIN w /\ y = w[i + m]
      BY <3>1, <1>1, <1>4
    <3> QED BY <3>2 DEF Left
  <2> QED BY <2>1, <2>2, <2>3
<1>6. /\ \A i \in 1 .. m : Rank(s[i]) >= a /\ Rank(s[i]) <= b
      /\ \A i \in 1 .. n : Rank(t[i]) >= c /\ Rank(t[i]) <= d
      /\ \A i, j \in 1 .. m : i < j => Rank(s[i]) < Rank(s[j])
      /\ \A i, j \in 1 .. n : i < j => Rank(t[i]) < Rank(t[j])
  BY <1>1 DEF Ascends
<1> /\ \A r \in 1 .. 18 : (r <= b => r <= d) /\ (r >= c => r >= a)
    /\ \A r, q \in 1 .. 18 : r <= b /\ q >= c => r < q
  OBVIOUS
<1>7. ASSUME NEW i \in 1 .. (m + n)
      PROVE  Rank(w[i]) >= a /\ Rank(w[i]) <= d
  <2>1. CASE i \in 1 .. m
    <3>1. w[i] = s[i] /\ Rank(s[i]) \in 1 .. 18 /\ Rank(s[i]) >= a /\ Rank(s[i]) <= b
      BY <2>1, <1>2, <1>4, <1>6, RankTypes
    <3> QED BY <3>1
  <2>2. CASE i \in (m + 1) .. (m + n) /\ i - m \in 1 .. n
    <3>1. /\ w[i] = t[i - m] /\ Rank(t[i - m]) \in 1 .. 18
          /\ Rank(t[i - m]) >= c /\ Rank(t[i - m]) <= d
      BY <2>2, <1>2, <1>4, <1>6, RankTypes
    <3> QED BY <3>1
  <2> QED BY <2>1, <2>2, <1>3
<1>8. ASSUME NEW i \in 1 .. (m + n), NEW j \in 1 .. (m + n), i < j
      PROVE  Rank(w[i]) < Rank(w[j])
  <2>1. CASE j \in 1 .. m
    <3>1. i \in 1 .. m
      BY <2>1, <1>8, <1>1
    <3> QED BY <2>1, <3>1, <1>4, <1>6, <1>8
  <2>2. CASE i \in 1 .. m /\ j \in (m + 1) .. (m + n) /\ j - m \in 1 .. n
    <3>1. /\ w[i] = s[i] /\ Rank(s[i]) \in 1 .. 18 /\ Rank(s[i]) <= b
          /\ w[j] = t[j - m] /\ Rank(t[j - m]) \in 1 .. 18 /\ Rank(t[j - m]) >= c
      BY <2>2, <1>2, <1>4, <1>6, RankTypes
    <3> QED BY <3>1
  <2>3. CASE /\ i \in (m + 1) .. (m + n) /\ i - m \in 1 .. n
             /\ j \in (m + 1) .. (m + n) /\ j - m \in 1 .. n
    <3>1. i - m < j - m
      BY <1>1, <1>8
    <3> QED BY <2>3, <3>1, <1>4, <1>6
  <2> QED BY <2>1, <2>2, <2>3, <1>3
<1> QED BY <1>1, <1>5, <1>7, <1>8 DEF Ascends

LEMMA Nothing_Ascends ==
    \A a, b : Ascends(<<>>, a, b) /\ Left(<<>>) = {}
<1> QED BY DEF Ascends, Left

-----------------------------------------------------------------------------
(***************************************************************************)
(* How a call goes on, fails and ends                                      *)
(***************************************************************************)
\* A request may leave this.
GCEGood(new) ==
    /\ Sound(new) /\ (call.op = "update" => GCEExact(new, synced))
    /\ GCEsAddress => Releasable(call, new, synced)

\* A call that knows more, or the same
GCEContinues(c) ==
    /\ c \in GCECalls /\ c.op = call.op /\ c.steps = call.steps /\ c.failed = call.failed
    /\ c.spec = call.spec /\ c.nodes = call.nodes

LEMMA GCERunning ==
    ASSUME GCEInv, ~Idle
    PROVE  /\ GCERuns /\ call \in GCECalls /\ call.op \in GCEOps /\ GCEContinues(call) /\ GCEGood(cloud)
           /\ synced \in GCEAnswers /\ synced.by = "none" /\ cloud \in GCEClouds
           /\ want \in [present : BOOLEAN, spec : GCEShapes, nodes : SUBSET BalancerNodes]
           /\ call.op = "ensure" => GCEEnsureDone(call, cloud)
           /\ call.op = "update" => GCEUpdateDone(call, cloud) /\ synced.ensured
           /\ call.op = "delete" => GCEDeleteDone(call, cloud)
           /\ call.op # "update" => ~synced.ensured
<1>1. call # NoCall
  BY DEF Idle, NoCall
<1>2. GCERuns /\ GCETypes /\ Sound(cloud) /\ GCEExact(cloud, synced)
  BY <1>1 DEF GCEInv
<1>3. /\ call \in GCECalls /\ call.op \in GCEOps
      /\ synced.by = "none" /\ (synced.ensured <=> call.op = "update")
      /\ GCEsAddress => Releasable(call, cloud, synced)
  BY <1>2 DEF GCERuns, GCECalls
<1>4. GCEContinues(call) /\ GCEGood(cloud)
  BY <1>2, <1>3 DEF GCEContinues, GCEGood
<1>5. synced \in GCEAnswers
      /\ want \in [present : BOOLEAN, spec : GCEShapes, nodes : SUBSET BalancerNodes]
      /\ cloud \in GCEClouds
  BY <1>2 DEF GCETypes, Sound
<1>6. /\ call.op = "ensure" => GCEEnsureDone(call, cloud)
      /\ call.op = "update" => GCEUpdateDone(call, cloud)
      /\ call.op = "delete" => GCEDeleteDone(call, cloud)
  BY <1>2 DEF GCERuns, GCEDone
<1> QED BY <1>2, <1>3, <1>4, <1>5, <1>6

LEMMA Continuing ==
    ASSUME GCEInv, ~Idle, UNCHANGED <<want, synced>>, GCEGood(cloud'),
           NEW d, call' = d, d \in GCECalls, d.op = call.op, d.spec = call.spec,
           GCEDone(d, cloud'), GCEsAddress => Releasable(d, cloud', synced)
    PROVE  GCEInv'
<1>1. /\ d.op \in GCEOps /\ ~Idle'
      /\ (Tended' <=> Tended) /\ (GCEsAddress' <=> GCEsAddress)
  BY DEF GCECalls, GCEOps, Idle, Tended, GCEsAddress
<1>2. Sound(cloud)'
  BY <1>1 DEF GCEGood, Sound, Standing, Agreed, GCEWhole
<1>3. GCERuns'
  BY <1>1, GCERunning DEF GCERuns
<1>4. GCEExact(cloud, synced)'
  BY GCERunning DEF GCEGood, GCEExact
<1>5. GCETypes' /\ synced'.by # "delete"
  BY GCERunning DEF GCEInv, GCETypes
<1> QED BY <1>2, <1>3, <1>4, <1>5 DEF GCEInv

LEMMA Over ==
    ASSUME GCEInv, ~Idle, UNCHANGED want, call' = NoCall
    PROVE  (Tended' => Tended) /\ (GCEsAddress' => GCEsAddress)
<1>1. /\ call.op = "delete" => ~want.present
      /\ call.spec.ip \in UserIPs => want.spec.ip \in UserIPs
  BY GCERunning DEF GCERuns
<1>2. Idle'
  BY DEF Idle, NoCall
<1> QED BY <1>1, <1>2 DEF Tended, GCEsAddress

LEMMA Stopping ==
    ASSUME GCEInv, ~Idle, UNCHANGED <<want, synced>>, GCEGood(cloud'), call' = NoCall
    PROVE  GCEInv'
<1>1. Sound(cloud)'
  BY Over DEF GCEGood, Sound, Standing, Agreed, GCEWhole
<1>2. GCEExact(cloud, synced)'
  BY GCERunning DEF GCEGood, GCEExact
<1>3. GCETypes' /\ synced'.by # "delete"
  BY GCERunning DEF GCEInv, GCETypes
<1> QED BY <1>1, <1>2, <1>3 DEF GCEInv, NoCall

LEMMA GCEStops ==
    ASSUME GCEInv, ~Idle, UNCHANGED want, GCEGood(cloud'), Fails
    PROVE  GCEInv'
<1>1. CASE call.deferred = <<>>
  <2>1. call' = NoCall /\ synced' = synced
    BY <1>1 DEF Fails
  <2> QED BY <2>1, Stopping
<1>2. CASE call.deferred # <<>>
  <2> DEFINE d == [call EXCEPT !.steps = call.deferred, !.deferred = <<>>, !.failed = TRUE]
  <2>1. call' = d /\ synced' = synced
    BY <1>2 DEF Fails
  <2>2. call.op = "ensure" /\ call.deferred = <<"release">> /\ call \in GCECalls
    BY <1>2, GCERunning DEF GCEUpdateDone, GCEDeleteDone, GCECalls, GCEOps
  <2>3. <<"release">> \in Seq(GCEStepNames)
    BY DEF GCEStepNames, EnsureNames
  <2>4. /\ d \in GCECalls /\ d.op = "ensure" /\ d.spec = call.spec /\ d.seen = call.seen
        /\ d.steps = <<"release">> /\ d.failed
    BY <2>2, <2>3 DEF GCECalls
  <2>5. Ascends(<<"release">>, 1, 18) /\ Left(<<"release">>) = {"release"} /\ <<"release">> # <<>>
    BY Ranks DEF Ascends, Left, EnsureNames
  <2>6. GCEDone(d, cloud')
    BY <2>4, <2>5 DEF GCEDone, GCEEnsureDone
  <2>7. GCEsAddress => Releasable(d, cloud', synced)
    BY <2>4 DEF GCEGood, Releasable
  <2> QED BY <2>1, <2>2, <2>4, <2>6, <2>7, Continuing
<1> QED BY <1>1, <1>2

\* What a call that succeeds has made
Finished(c, cl) ==
    CASE c.op = "ensure" -> /\ RuleFits(cl.rule, c.spec, c.answer) /\ PoolFits(cl.pool, c.spec)
                            /\ FirewallFits(cl.firewall, c.spec, c.answer)
                            /\ c.spec.ip \in IPs => c.answer = c.spec.ip
      [] c.op = "update" -> cl.pool.instances = c.nodes
      [] c.op = "delete" -> Gone(cl, c.spec)

LEMMA GCEEnds ==
    ASSUME GCEInv, ~Idle, UNCHANGED want, GCEGood(cloud'), Succeeds, Finished(call, cloud')
    PROVE  GCEInv'
<1>1. call' = NoCall /\ call \in GCECalls /\ call.op \in GCEOps
  BY GCERunning DEF Succeeds
<1>2. Sound(cloud') /\ (Tended' => Tended) /\ (GCEsAddress' => GCEsAddress)
  BY <1>1, Over DEF GCEGood
<1>3. CASE call.op = "ensure"
  <2>1. synced' = [spec |-> call.spec, ensured |-> TRUE, by |-> "ensure", nodes |-> call.nodes,
                   asked |-> call.asked, known |-> synced.known, answer |-> call.answer]
    BY <1>3 DEF Succeeds
  <2>2. synced' \in GCEAnswers /\ synced'.by # "delete"
    BY <2>1, <1>1, GCERunning DEF GCEAnswers, GCEOps, GCECalls
  <2>3. /\ RuleFits(cloud'.rule, call.spec, call.answer) /\ PoolFits(cloud'.pool, call.spec)
        /\ FirewallFits(cloud'.firewall, call.spec, call.answer)
        /\ call.spec.ip \in IPs => call.answer = call.spec.ip
    BY <1>3 DEF Finished
  <2>4. GCEExact(cloud', synced')
    BY <2>1, <2>3 DEF GCEExact, FirewallFits
  <2>5. GCEsAddress => cloud'.rule.exists /\ cloud'.rule.ip = call.answer
    BY <2>3, <1>3 DEF GCEsAddress, RuleFits
  <2>6. Sound(cloud)'
    BY <1>2, <2>1, <2>5 DEF Sound, Standing, Agreed, GCEWhole
  <2> QED BY <1>1, <2>2, <2>4, <2>6, GCERunning DEF GCEInv, GCETypes
<1>4. CASE call.op = "update"
  <2>1. synced' = [spec |-> synced.spec, ensured |-> TRUE, by |-> "update", nodes |-> call.nodes,
                   asked |-> call.asked, known |-> call.asked, answer |-> synced.answer]
    BY <1>4 DEF Succeeds
  <2>2. synced' \in GCEAnswers /\ synced'.by # "delete"
    BY <2>1, <1>1, GCERunning DEF GCEAnswers, GCEOps, GCECalls
  <2>3. GCEExact(cloud', synced')
    BY <2>1, <1>4, GCERunning DEF GCEExact, GCEGood, Finished
  <2>4. Sound(cloud)'
    BY <1>2, <2>1 DEF Sound, Standing, Agreed, GCEWhole
  <2> QED BY <1>1, <2>2, <2>3, <2>4, GCERunning DEF GCEInv, GCETypes
<1>5. CASE call.op = "delete"
  <2>1. synced' = [spec |-> call.spec, ensured |-> FALSE, by |-> "delete", nodes |-> call.nodes,
                   asked |-> call.asked, known |-> synced.known, answer |-> "none"]
    BY <1>5 DEF Succeeds
  <2>2. synced' \in GCEAnswers /\ ~synced'.ensured
    BY <2>1, <1>1, GCERunning DEF GCEAnswers, GCEOps, GCECalls, Addresses
  <2>3. GCEExact(cloud', synced')
    BY <2>2 DEF GCEExact
  <2>4. ~want.present /\ ~want'.present
    BY <1>5, GCERunning DEF GCERuns
  <2>5. Idle' /\ ~Tended' /\ ~GCEsAddress'
    BY <1>1, <2>4 DEF Idle, NoCall, Tended, GCEsAddress
  <2>6. Sound(cloud)'
    BY <1>2, <2>5 DEF Sound, GCEWhole
  <2>7. Gone(cloud', synced'.spec)
    BY <2>1, <1>5 DEF Finished
  <2> QED BY <1>1, <2>2, <2>3, <2>4, <2>6, <2>7, GCERunning DEF GCEInv, GCETypes
<1> QED BY <1>1, <1>3, <1>4, <1>5 DEF GCEOps

LEMMA GCEGoes ==
    ASSUME GCEInv, ~Idle, UNCHANGED want, GCEGood(cloud'), NEW c, GCEContinues(c), Proceed(c),
           Len(c.steps) > 1 =>
             /\ GCEDone([c EXCEPT !.steps = Tail(@)], cloud')
             /\ GCEsAddress => Releasable(c, cloud', synced),
           ~(Len(c.steps) > 1) /\ ~c.failed => Finished(call, cloud')
    PROVE  GCEInv'
<1>1. CASE Len(c.steps) > 1
  <2> DEFINE d == [c EXCEPT !.steps = Tail(@)]
  <2>1. call' = d /\ synced' = synced
    BY <1>1 DEF Proceed
  <2>2. c \in GCECalls /\ c.op = call.op /\ c.spec = call.spec
    BY DEF GCEContinues
  <2>3. Tail(c.steps) \in Seq(GCEStepNames)
    BY <1>1, <2>2 DEF GCECalls
  <2>4. d \in GCECalls /\ d.op = call.op /\ d.spec = call.spec /\ d.seen = c.seen
    BY <2>2, <2>3 DEF GCECalls
  <2>5. GCEsAddress => Releasable(d, cloud', synced)
    BY <1>1, <2>4 DEF Releasable
  <2>6. GCEDone(d, cloud')
    BY <1>1
  <2> HIDE DEF d
  <2> QED BY <2>1, <2>4, <2>5, <2>6, Continuing
<1>2. CASE ~(Len(c.steps) > 1) /\ c.failed
  <2>1. call' = NoCall /\ synced' = synced
    BY <1>2 DEF Proceed
  <2> QED BY <2>1, Stopping
<1>3. CASE ~(Len(c.steps) > 1) /\ ~c.failed
  <2>1. Succeeds
    BY <1>3 DEF Proceed
  <2> QED BY <1>3, <2>1, GCEEnds
<1> QED BY <1>1, <1>2, <1>3

-----------------------------------------------------------------------------
(***************************************************************************)
(* The steps of EnsureLoadBalancer                                         *)
(***************************************************************************)
GCEEnsureFacts(c, cl, L) == Looked(c, cl, L) /\ Placed(c, cl, L) /\ Rebuilt(c, cl, L)

\* What is left behind the step that is made
Rest == Left(call.steps) \ {Head(call.steps)}

\* The first step of a call
LEMMA Heads ==
    ASSUME GCEInv, ~Idle
    PROVE  /\ call.op \in GCEOps
           /\ call.op = "ensure" => Head(call.steps) \in EnsureNames
           /\ call.op = "update" => Head(call.steps) \in {"get_pool", "add", "remove", "verify"}
           /\ call.op = "delete" => Head(call.steps) \in {"check?", "tear_down"}
<1>1. call.op = "ensure" => Head(call.steps) \in EnsureNames
  BY GCERunning, Ahead DEF GCEEnsureDone
<1>2. call.op = "update" => Head(call.steps) \in {"get_pool", "add", "remove", "verify"}
  BY GCERunning DEF GCEUpdateDone, GCEUpdateSteps
<1>3. call.op = "delete" => Head(call.steps) \in {"check?", "tear_down"}
  BY GCERunning DEF GCEDeleteDone, GCEDeleteSteps
<1> QED BY <1>1, <1>2, <1>3, GCERunning

\* Where a call of EnsureLoadBalancer is
LEMMA EnsureHere ==
    ASSUME GCEInv, ~Idle, call.op = "ensure", NEW h, Head(call.steps) = h
    PROVE  LET L == Left(call.steps)
           IN  /\ h \in L /\ L \subseteq EnsureNames /\ Rest = L \ {h}
               /\ \A y \in Rest : Rank(h) < Rank(y)
               /\ h = "release" => Len(call.steps) = 1
               /\ h # "release" =>
                    ~call.failed /\ Len(call.steps) > 1 /\ "release" \in Rest
               /\ ~call.failed => Order(L) /\ GCEEnsureFacts(call, cloud, L)
<1> DEFINE L == Left(call.steps)
<1>1. /\ call.steps # <<>> /\ Ascends(call.steps, 1, 18)
      /\ IF call.failed THEN L = {"release"} ELSE Order(L) /\ GCEEnsureFacts(call, cloud, L)
  BY GCERunning DEF GCEEnsureDone, GCEEnsureFacts
<1>2. /\ h \in L /\ L \subseteq EnsureNames
      /\ \A y \in L : y = h \/ Rank(h) < Rank(y)
      /\ h = "release" => Len(call.steps) = 1
      /\ h # "release" /\ "release" \in L => Len(call.steps) > 1
  BY <1>1, Ahead
<1>3. "release" \in L
  BY <1>1 DEF Order
<1>4. call.failed => h = "release"
  BY <1>1, <1>2
<1> QED BY <1>1, <1>2, <1>3, <1>4 DEF Rest

\* The call goes on with what it has to know behind this step.
LEMMA EnsureGoes ==
    ASSUME GCEInv, ~Idle, UNCHANGED want, call.op = "ensure", Head(call.steps) # "release",
           GCEGood(cloud'), NEW c, GCEContinues(c), GCEEnsureFacts(c, cloud', Rest),
           GCEsAddress => Releasable(c, cloud', synced), Proceed(c)
    PROVE  GCEInv'
<1> DEFINE d == [c EXCEPT !.steps = Tail(@)]
           L == Left(call.steps)
           h == Head(call.steps)
<1>1. /\ Rest = L \ {h} /\ h \in L /\ ~call.failed /\ Order(L) /\ L \subseteq EnsureNames
      /\ Len(call.steps) > 1 /\ "release" \in Rest /\ \A y \in Rest : Rank(h) < Rank(y)
  BY EnsureHere
<1>2. Ascends(call.steps, 1, 18) /\ call.steps # <<>>
  BY GCERunning DEF GCEEnsureDone
<1>3. c \in GCECalls /\ c.steps = call.steps /\ c.op = "ensure" /\ ~c.failed
  BY <1>1 DEF GCEContinues
<1>4. /\ d.steps = Tail(call.steps) /\ d.op = "ensure" /\ ~d.failed
      /\ d.seen = c.seen /\ d.spec = c.spec /\ d.answer = c.answer
  BY <1>3 DEF GCECalls
<1>5. Ascends(d.steps, 1, 18) /\ d.steps # <<>> /\ Left(d.steps) = Rest
  BY <1>1, <1>2, <1>4, Ahead
<1>6. Order(Rest)
  <2>1. \A step \in Rest : Rank(step) \in 1 .. 18 /\ Rank(h) \in 1 .. 18
    BY <1>1, RankTypes
  <2>2. CASE h = "rebuild"
    <3>1. \A step \in Rest : ~(Rank(step) < 8)
      <4> SUFFICES ASSUME NEW step \in Rest PROVE ~(Rank(step) < 8)
        OBVIOUS
      <4>1. Rank(step) \in 1 .. 18
        BY <2>1
      <4>2. 8 < Rank(step)
        BY <1>1, <2>2, Ranks
      <4> QED BY <4>1, <4>2
    <3>2. "address" \in Rest => "firewall" \in Rest
      BY <1>1, Ranks DEF Order
    <3> QED BY <1>1, <2>2, <3>1, <3>2 DEF Order
  <2>3. "address" \in Rest => "firewall" \in Rest
    BY <1>1, Ranks DEF Order
  <2>4. CASE h # "rebuild"
    BY <1>1, <2>3, <2>4 DEF Order
  <2> QED BY <2>2, <2>3, <2>4
<1>7. GCEEnsureFacts(d, cloud', Rest)
  BY <1>4 DEF GCEEnsureFacts, Looked, Placed, Rebuilt
<1>8. GCEDone(d, cloud')
  BY <1>4, <1>5, <1>6, <1>7 DEF GCEDone, GCEEnsureDone, GCEEnsureFacts
<1>9. Len(c.steps) > 1
  BY <1>1, <1>3
<1> HIDE DEF d
<1> QED BY <1>8, <1>9, GCEGoes DEF d

LEMMA EnsureRequests ==
    ASSUME GCEInv, ~Idle, UNCHANGED want, call.op = "ensure", Head(call.steps) # "release",
           NEW new, NEW c, GCEGood(new), GCEContinues(c), GCEEnsureFacts(c, new, Rest),
           GCEsAddress => Releasable(c, new, synced), Request(new, c)
    PROVE  GCEInv'
<1>1. CASE cloud' = new /\ Proceed(c)
  BY <1>1, EnsureGoes
<1>2. CASE cloud' \in {cloud, new} /\ Fails
  BY <1>2, GCEStops, GCERunning
<1> QED BY <1>1, <1>2 DEF Request

LEMMA EnsureReads ==
    ASSUME GCEInv, ~Idle, UNCHANGED want, call.op = "ensure", Head(call.steps) # "release",
           NEW c, GCEContinues(c), GCEEnsureFacts(c, cloud, Rest),
           GCEsAddress => Releasable(c, cloud, synced),
           Read(c) \/ (Proceed(c) /\ NoRequest)
    PROVE  GCEInv'
<1>1. GCEGood(cloud') /\ cloud' = cloud
  BY GCERunning DEF Read, NoRequest
<1>2. CASE Proceed(c)
  BY <1>1, <1>2, EnsureGoes
<1>3. CASE Fails
  BY <1>1, <1>3, GCEStops
<1> QED BY <1>2, <1>3 DEF Read

LEMMA EnsureRequested ==
    ASSUME GCEInv, ~Idle, UNCHANGED want, call.op = "ensure", Head(call.steps) # "release",
           NEW new, NEW c, GCEContinues(c), NEW needed,
           needed => /\ GCEGood(new) /\ GCEEnsureFacts(c, new, Rest)
                     /\ GCEsAddress => Releasable(c, new, synced),
           ~needed => /\ GCEEnsureFacts(c, cloud, Rest)
                      /\ GCEsAddress => Releasable(c, cloud, synced),
           RequestIf(needed, new, c)
    PROVE  GCEInv'
<1>1. CASE needed
  BY <1>1, EnsureRequests DEF RequestIf
<1>2. CASE ~needed
  BY <1>2, EnsureReads DEF RequestIf
<1> QED BY <1>1, <1>2

LEMMA StepGetRule == ASSUME GCEInv, UNCHANGED want, getForwardingRule PROVE GCEInv'
<1> DEFINE c == Deferred([call EXCEPT !.seen.rule = cloud.rule,
                            !.seen.ruleNeedsUpdate = forwardingRuleNeedsUpdate(call.spec)])
<1>1. ~Idle /\ Head(call.steps) = "get_rule" /\ Read(c)
  BY DEF getForwardingRule, At
<1>2. call.op = "ensure"
  BY <1>1, Heads DEF GCEOps
<1>3. /\ Rest = Left(call.steps) \ {"get_rule"} /\ ~call.failed
      /\ Order(Left(call.steps)) /\ GCEEnsureFacts(call, cloud, Left(call.steps))
      /\ Rest \subseteq EnsureNames /\ \A y \in Rest : 1 < Rank(y)
      /\ "get_rule" \in Left(call.steps)
  BY <1>1, <1>2, EnsureHere, Ranks
<1>4. call \in GCECalls /\ cloud.rule \in Rules
  BY <1>1, GCERunning DEF GCEClouds
<1>5. forwardingRuleNeedsUpdate(call.spec) \in BOOLEAN
  BY DEF forwardingRuleNeedsUpdate
<1>6. /\ GCEContinues(c) /\ c.answer = call.answer /\ c.seen.safe = call.seen.safe
      /\ c.seen.owned = call.seen.owned /\ c.seen.poolExists = call.seen.poolExists
      /\ c.seen.poolNeedsUpdate = call.seen.poolNeedsUpdate /\ c.spec = call.spec
      /\ c.seen.rule = cloud.rule
      /\ c.seen.ruleNeedsUpdate = forwardingRuleNeedsUpdate(call.spec)
  BY <1>4, <1>5 DEF GCEContinues, Deferred, GCECalls, Knowledge
<1> HIDE DEF c
<1>7. forwardingRuleNeedsUpdate(call.spec) \/ RuleAsAsked(cloud.rule, call.spec)
  BY DEF forwardingRuleNeedsUpdate, RuleAsAsked
<1>8. GCEEnsureFacts(c, cloud, Rest)
  BY <1>3, <1>6, <1>7 DEF GCEEnsureFacts, Looked, Placed, Rebuilt
<1>9. GCEsAddress => Releasable(c, cloud, synced)
  BY <1>1, <1>6, GCERunning DEF GCEGood, Releasable
<1> QED BY <1>1, <1>2, <1>6, <1>8, <1>9, EnsureReads

\* The same for a step, with what a call of EnsureLoadBalancer knows at it
LEMMA EnsureStep ==
    ASSUME GCEInv, ~Idle, call.op = "ensure", NEW h, Head(call.steps) = h, h # "release"
    PROVE  /\ h \in Left(call.steps) /\ Rest = Left(call.steps) \ {h} /\ h \in EnsureNames
           /\ \A y \in Rest : Rank(h) < Rank(y)
           /\ Order(Left(call.steps)) /\ GCEEnsureFacts(call, cloud, Left(call.steps))
           /\ call \in GCECalls /\ call.spec \in GCEShapes /\ call.seen \in Knowledge
           /\ cloud \in GCEClouds /\ Sound(cloud) /\ Tended /\ Standing(cloud)
           /\ (GCEsAddress <=> call.spec.ip \notin UserIPs)
           /\ GCEsAddress => Agreed(cloud, synced) /\ Releasable(call, cloud, synced)
<1>1. /\ call \in GCECalls /\ call.spec \in GCEShapes /\ call.seen \in Knowledge
      /\ cloud \in GCEClouds /\ Sound(cloud) /\ (GCEsAddress => Releasable(call, cloud, synced))
  BY GCERunning DEF GCECalls, GCEGood
<1>2. Tended /\ (GCEsAddress <=> call.spec.ip \notin UserIPs)
  BY DEF Tended, GCEsAddress, Idle
<1>3. Standing(cloud) /\ (GCEsAddress => Agreed(cloud, synced))
  BY <1>1, <1>2 DEF Sound
<1>4. /\ h \in Left(call.steps) /\ Rest = Left(call.steps) \ {h} /\ h \in EnsureNames
      /\ \A y \in Rest : Rank(h) < Rank(y)
      /\ Order(Left(call.steps)) /\ GCEEnsureFacts(call, cloud, Left(call.steps))
  BY EnsureHere
<1> QED BY <1>1, <1>2, <1>3, <1>4

\* What a request may leave in a call of EnsureLoadBalancer
LEMMA EnsureGood ==
    ASSUME GCEInv, ~Idle, call.op = "ensure", NEW new \in GCEClouds, GCEWhole(new), Standing(new),
           GCEsAddress => Agreed(new, synced) /\ Releasable(call, new, synced)
    PROVE  GCEGood(new)
<1> QED BY DEF GCEGood, Sound

LEMMA StepOwner == ASSUME GCEInv, UNCHANGED want, projectOwnsStaticIP PROVE GCEInv'
<1> DEFINE ip == call.spec.ip
           c(yes) == [call EXCEPT !.seen.owned = yes,
                                  !.seen.safe = ~yes /\ ip /= "none" /\ ip = call.seen.rule.ip]
<1>1. ~Idle /\ Head(call.steps) = "owner" /\ cloud' = cloud
  BY DEF projectOwnsStaticIP, At
<1>2. call.op = "ensure"
  BY <1>1, Heads DEF GCEOps
<1>3. PICK yes \in BOOLEAN :
         /\ yes => ip # "none" /\ ip \in UserIPs \cup {cloud.address}
         /\ Proceed(c(yes))
  <2>1. (ip \in (UserIPs \cup {cloud.address}) \ {"none"}) \in BOOLEAN /\ FALSE \in BOOLEAN
    OBVIOUS
  <2>2. CASE Proceed(c(ip \in (UserIPs \cup {cloud.address}) \ {"none"}))
    <3> DEFINE yes == ip \in (UserIPs \cup {cloud.address}) \ {"none"}
    <3>1. yes => ip # "none" /\ ip \in UserIPs \cup {cloud.address}
      OBVIOUS
    <3>2. yes \in BOOLEAN
      OBVIOUS
    <3>3. Proceed(c(yes))
      BY <2>2
    <3> HIDE DEF yes, c
    <3> QED BY <3>1, <3>2, <3>3
  <2>3. CASE Proceed(c(FALSE))
    BY <2>3
  <2> QED BY <2>2, <2>3 DEF projectOwnsStaticIP
<1>4. /\ Rest = Left(call.steps) \ {"owner"} /\ "owner" \in Left(call.steps)
      /\ \A y \in Rest : 2 < Rank(y)
      /\ Order(Left(call.steps)) /\ GCEEnsureFacts(call, cloud, Left(call.steps))
      /\ call \in GCECalls /\ call.seen \in Knowledge /\ Sound(cloud)
      /\ (GCEsAddress <=> call.spec.ip \notin UserIPs)
  BY <1>1, <1>2, EnsureStep, Ranks
<1>5. PICK d : d = c(yes)
  OBVIOUS
<1>6. /\ GCEContinues(d) /\ d.answer = call.answer /\ d.spec = call.spec
      /\ d.seen.owned = yes /\ d.seen.safe = (~yes /\ ip # "none" /\ ip = call.seen.rule.ip)
      /\ d.seen.poolExists = call.seen.poolExists /\ d.seen.rule = call.seen.rule
      /\ d.seen.poolNeedsUpdate = call.seen.poolNeedsUpdate
      /\ d.seen.ruleNeedsUpdate = call.seen.ruleNeedsUpdate
  BY <1>3, <1>4, <1>5 DEF GCEContinues, GCECalls, Knowledge
<1> HIDE DEF c
<1>7. "rebuild" \in Left(call.steps) /\ "get_rule" \notin Left(call.steps)
  BY <1>4, Ranks DEF Order
<1>8. GCEEnsureFacts(d, cloud, Rest)
  BY <1>3, <1>4, <1>6, <1>7 DEF GCEEnsureFacts, Looked, Placed, Rebuilt
<1>9. GCEsAddress => Releasable(d, cloud, synced)
  <2>1. call.seen.rule = cloud.rule /\ GCEWhole(cloud)
    BY <1>4, <1>7 DEF GCEEnsureFacts, Looked, Sound
  <2>2. ~cloud.rule.exists => cloud.rule.ip = "none"
    BY <2>1 DEF GCEWhole, NoRule
  <2>3. d.seen.safe => cloud.rule.exists
    BY <1>6, <2>1, <2>2
  <2> QED BY <2>3 DEF Releasable
<1> QED BY <1>1, <1>2, <1>3, <1>5, <1>6, <1>8, <1>9, EnsureGoes, GCERunning

LEMMA StepAddress == ASSUME GCEInv, UNCHANGED want, chooseAddress PROVE GCEInv'
<1> DEFINE ip == call.spec.ip
           existing == call.seen.rule.ip
           known(a)    == [call EXCEPT !.answer = a]
           reserved(a) == [call EXCEPT !.answer = a, !.seen.safe = TRUE]
           new(a)      == [cloud EXCEPT !.address = a]
<1>1. ~Idle /\ Head(call.steps) = "address"
  BY DEF chooseAddress, At
<1>2. call.op = "ensure"
  BY <1>1, Heads DEF GCEOps
<1>3. /\ Rest = Left(call.steps) \ {"address"} /\ "address" \in Left(call.steps)
      /\ \A y \in Rest : 3 < Rank(y)
      /\ Order(Left(call.steps)) /\ GCEEnsureFacts(call, cloud, Left(call.steps))
      /\ call \in GCECalls /\ call.seen \in Knowledge /\ Sound(cloud) /\ cloud \in GCEClouds
      /\ (GCEsAddress <=> ip \notin UserIPs) /\ Standing(cloud)
      /\ GCEsAddress => Agreed(cloud, synced) /\ Releasable(call, cloud, synced)
      /\ call.spec \in GCEShapes
  BY <1>1, <1>2, EnsureStep, Ranks
<1>4. /\ "rebuild" \in Rest /\ "firewall" \in Rest /\ "address" \notin Rest
      /\ "get_rule" \notin Left(call.steps) /\ "owner" \notin Left(call.steps)
  BY <1>3, Ranks DEF Order
<1>5. call.seen.rule = cloud.rule /\ GCEWhole(cloud)
      /\ (call.seen.owned => ip # "none" /\ (ip \notin UserIPs => ip = cloud.address))
  BY <1>3, <1>4 DEF GCEEnsureFacts, Looked, Sound
<1>6. /\ (cloud.rule.exists <=> existing # "none") /\ existing \in Addresses
      /\ cloud.address \in IPs \cup {"none"}
      /\ "none" \notin IPs \cup UserIPs /\ IPs \cap UserIPs = {}
      /\ ip \in IPs \cup UserIPs \cup {"none"}
  BY <1>3, <1>5, GCEAssumption DEF GCEClouds, GCEWhole, NoRule, Rules
<1>7. ASSUME NEW a \in IPs \cup UserIPs
      PROVE  /\ GCEContinues(known(a)) /\ known(a).answer = a /\ known(a).spec = call.spec
             /\ known(a).seen = call.seen
             /\ GCEContinues(reserved(a)) /\ reserved(a).answer = a /\ reserved(a).spec = call.spec
             /\ reserved(a).seen.rule = call.seen.rule
             /\ reserved(a).seen.ruleNeedsUpdate = call.seen.ruleNeedsUpdate
             /\ reserved(a).seen.poolExists = call.seen.poolExists
             /\ reserved(a).seen.poolNeedsUpdate = call.seen.poolNeedsUpdate
  BY <1>3 DEF GCEContinues, GCECalls, Knowledge, Addresses
<1>8. ASSUME NEW a \in IPs
      PROVE  /\ new(a) \in GCEClouds /\ new(a).address = a /\ new(a).rule = cloud.rule
             /\ new(a).pool = cloud.pool /\ new(a).firewall = cloud.firewall
  BY <1>3 DEF GCEClouds
<1> HIDE DEF known, reserved, new
<1>9. ASSUME NEW a \in IPs \cup UserIPs,
             (ip \notin UserIPs => a = cloud.address) /\ (ip \in IPs => a = ip),
             Read(known(a)) \/ (Proceed(known(a)) /\ NoRequest)
      PROVE  GCEInv'
  <2>1. GCEEnsureFacts(known(a), cloud, Rest)
    BY <1>3, <1>4, <1>6, <1>7, <1>9 DEF GCEEnsureFacts, Looked, Placed, Rebuilt
  <2>2. GCEsAddress => Releasable(known(a), cloud, synced)
    BY <1>3, <1>7 DEF Releasable
  <2> QED BY <1>1, <1>2, <1>7, <1>9, <2>1, <2>2, EnsureReads
<1>10. ASSUME NEW a \in IPs, cloud.address = "none", existing \in {"none", a},
              ip \in IPs => existing = ip, Request(new(a), reserved(a))
       PROVE  GCEInv'
  <2>1. a \in IPs \cup UserIPs /\ (ip \in IPs => a = ip) /\ a # "none"
    BY <1>6, <1>10
  <2>2. GCEEnsureFacts(reserved(a), new(a), Rest)
    BY <1>3, <1>4, <1>7, <1>8, <2>1 DEF GCEEnsureFacts, Looked, Placed, Rebuilt
  <2>3. GCEWhole(new(a)) /\ Standing(new(a))
    BY <1>3, <1>5, <1>8 DEF GCEWhole, Standing
  <2>4. GCEsAddress => Agreed(new(a), synced)
    BY <1>3, <1>5, <1>6, <1>8, <1>10 DEF Agreed
  <2>5. synced.answer # "none" /\ GCEsAddress => cloud.rule.exists
    BY <1>3, <1>10 DEF Agreed
  <2>6. GCEsAddress =>
          Releasable(call, new(a), synced) /\ Releasable(reserved(a), new(a), synced)
    BY <1>8, <2>5 DEF Releasable
  <2>7. GCEGood(new(a))
    BY <1>1, <1>2, <1>8, <2>3, <2>4, <2>6, EnsureGood
  <2> QED BY <1>1, <1>2, <1>7, <1>10, <2>1, <2>2, <2>6, <2>7, EnsureRequests
<1>11. CASE ensureStaticIP /\ (ip = "none" \/ ip = existing)
  <2>1. CASE cloud.address # "none"
    <3>1. Read(known(cloud.address))
      BY <1>11, <2>1 DEF ensureStaticIP, known
    <3>2. cloud.address \in IPs /\ (ip \in IPs => cloud.address = ip)
      BY <1>3, <1>5, <1>6, <1>11, <2>1 DEF Agreed
    <3> QED BY <1>9, <3>1, <3>2
  <2>2. CASE cloud.address = "none" /\ existing = "none"
    <3>1. PICK a \in IPs : Request(new(a), reserved(a))
      BY <1>11, <2>2 DEF ensureStaticIP, new, reserved
    <3>2. ip \in IPs => existing = ip
      BY <1>6, <1>11
    <3> QED BY <1>10, <2>2, <3>1, <3>2
  <2>3. CASE cloud.address = "none" /\ existing # "none" /\ existing \in UserIPs
    <3>1. Fails /\ cloud' = cloud
      BY <1>11, <2>3 DEF ensureStaticIP, NoRequest
    <3> QED BY <1>1, <3>1, GCEStops, GCERunning
  <2>4. CASE cloud.address = "none" /\ existing # "none" /\ existing \notin UserIPs
    <3>1. Request(new(existing), reserved(existing))
      BY <1>11, <2>4 DEF ensureStaticIP, new, reserved
    <3>2. existing \in IPs /\ (ip \in IPs => existing = ip)
      BY <1>6, <1>11, <2>4 DEF Addresses
    <3> QED BY <1>10, <2>4, <3>1, <3>2
  <2> QED BY <2>1, <2>2, <2>3, <2>4
<1>12. CASE call.seen.owned /\ Proceed(known(ip)) /\ NoRequest
  <2>1. ip \in IPs \cup UserIPs /\ (ip \notin UserIPs => ip = cloud.address)
    BY <1>5, <1>6, <1>12
  <2> QED BY <1>9, <1>12, <2>1
<1>13. CASE Fails /\ NoRequest
  BY <1>1, <1>13, GCEStops, GCERunning DEF NoRequest
<1>14. \/ ensureStaticIP /\ (ip = "none" \/ ip = existing)
       \/ call.seen.owned /\ Proceed(known(ip)) /\ NoRequest
       \/ Fails /\ NoRequest
  <2>1. CASE ip = "none"
    BY <2>1, <1>5 DEF chooseAddress
  <2>2. CASE ip # "none" /\ call.seen.owned
    BY <2>2 DEF chooseAddress, known
  <2>3. CASE ip # "none" /\ ~call.seen.owned /\ ip = existing
    BY <2>3 DEF chooseAddress
  <2>4. CASE ip # "none" /\ ~call.seen.owned /\ ip # existing
    BY <2>4 DEF chooseAddress
  <2> QED BY <2>1, <2>2, <2>3, <2>4
<1> QED BY <1>11, <1>12, <1>13, <1>14

LEMMA StepFirewall == ASSUME GCEInv, UNCHANGED want, ensureFirewall PROVE GCEInv'
<1> DEFINE fw == firewallObject(call.spec, call.answer)
           new == [cloud EXCEPT !.firewall = fw]
           needed == firewallNeedsUpdate(call.spec, call.answer)
<1>1. ~Idle /\ Head(call.steps) = "firewall" /\ RequestIf(needed, new, call)
  BY DEF ensureFirewall, At
<1>2. call.op = "ensure"
  BY <1>1, Heads DEF GCEOps
<1>3. /\ Rest = Left(call.steps) \ {"firewall"} /\ "firewall" \in Left(call.steps)
      /\ \A y \in Rest : 4 < Rank(y)
      /\ Order(Left(call.steps)) /\ GCEEnsureFacts(call, cloud, Left(call.steps))
      /\ call \in GCECalls /\ Sound(cloud) /\ cloud \in GCEClouds /\ Standing(cloud)
      /\ GCEsAddress => Agreed(cloud, synced) /\ Releasable(call, cloud, synced)
      /\ call.spec \in GCEShapes /\ GCEContinues(call)
  BY <1>1, <1>2, EnsureStep, Ranks, GCERunning
<1>4. fw \in Firewalls /\ FirewallFits(fw, call.spec, call.answer)
  BY <1>3 DEF firewallObject, Firewalls, FirewallFits, GCECalls, Protocols
<1>5. /\ new \in GCEClouds /\ new.firewall = fw /\ new.rule = cloud.rule /\ new.pool = cloud.pool
      /\ new.address = cloud.address
  BY <1>3, <1>4 DEF GCEClouds
<1>6. ~needed => FirewallFits(cloud.firewall, call.spec, call.answer)
  BY DEF firewallNeedsUpdate, FirewallFits
<1> HIDE DEF fw, new, needed
<1>7. "rebuild" \in Rest
  BY <1>3, Ranks DEF Order
<1>8. GCEEnsureFacts(call, new, Rest)
  BY <1>3, <1>4, <1>5, <1>7 DEF GCEEnsureFacts, Looked, Placed, Rebuilt
<1>9. ~needed => GCEEnsureFacts(call, cloud, Rest)
  BY <1>3, <1>6, <1>7 DEF GCEEnsureFacts, Looked, Placed, Rebuilt
<1>10. GCEWhole(new) /\ Standing(new)
  BY <1>3, <1>4, <1>5 DEF Sound, GCEWhole, Standing, FirewallFits
<1>11. GCEsAddress => Agreed(new, synced) /\ Releasable(call, new, synced)
  BY <1>3, <1>5 DEF Agreed, Releasable
<1>12. GCEGood(new)
  BY <1>1, <1>2, <1>5, <1>10, <1>11, EnsureGood
<1> QED BY <1>1, <1>2, <1>3, <1>8, <1>9, <1>11, <1>12, EnsureRequested

LEMMA StepPool == ASSUME GCEInv, UNCHANGED want, targetPoolNeedsUpdate PROVE GCEInv'
<1> DEFINE update == ~cloud.pool.exists \/ cloud.pool.affinity /= call.spec.affinity
           c == [call EXCEPT !.seen.poolExists = cloud.pool.exists, !.seen.poolNeedsUpdate = update]
<1>1. ~Idle /\ Head(call.steps) = "pool?" /\ Read(c)
  BY DEF targetPoolNeedsUpdate, At
<1>2. call.op = "ensure"
  BY <1>1, Heads DEF GCEOps
<1>3. /\ Rest = Left(call.steps) \ {"pool?"} /\ "pool?" \in Left(call.steps)
      /\ \A y \in Rest : 5 < Rank(y)
      /\ Order(Left(call.steps)) /\ GCEEnsureFacts(call, cloud, Left(call.steps))
      /\ call \in GCECalls /\ call.seen \in Knowledge /\ cloud \in GCEClouds
      /\ GCEsAddress => Releasable(call, cloud, synced)
  BY <1>1, <1>2, EnsureStep, Ranks
<1>4. cloud.pool.exists \in BOOLEAN /\ update \in BOOLEAN
  BY <1>3 DEF GCEClouds, Pools
<1> HIDE DEF update
<1>5. /\ GCEContinues(c) /\ c.answer = call.answer /\ c.spec = call.spec
      /\ c.seen.owned = call.seen.owned /\ c.seen.safe = call.seen.safe
      /\ c.seen.poolExists = cloud.pool.exists /\ c.seen.rule = call.seen.rule
      /\ c.seen.poolNeedsUpdate = update
      /\ c.seen.ruleNeedsUpdate = call.seen.ruleNeedsUpdate
  BY <1>3, <1>4 DEF GCEContinues, GCECalls, Knowledge
<1>6. update \/ PoolFits(cloud.pool, call.spec)
  BY DEF update, PoolFits
<1> HIDE DEF c
<1>7. "rebuild" \in Rest
  BY <1>3, Ranks DEF Order
<1>8. GCEEnsureFacts(c, cloud, Rest)
  BY <1>3, <1>5, <1>6, <1>7 DEF GCEEnsureFacts, Looked, Placed, Rebuilt
<1>9. GCEsAddress => Releasable(c, cloud, synced)
  BY <1>3, <1>5 DEF Releasable
<1> QED BY <1>1, <1>2, <1>5, <1>8, <1>9, EnsureReads

\* The health check a call of EnsureLoadBalancer looks for
LEMMA StepLookForCheck ==
    ASSUME GCEInv, UNCHANGED want, getHealthCheck, call.op = "ensure"
    PROVE  GCEInv'
<1> DEFINE update == call.seen.poolNeedsUpdate
                       \/ (call.spec.check /= "none") /= (cloud.check /= "none")
           c == [call EXCEPT !.seen.poolNeedsUpdate = update]
<1>1. ~Idle /\ Head(call.steps) = "check?" /\ Read(c)
  BY DEF getHealthCheck, At
<1>2. /\ Rest = Left(call.steps) \ {"check?"} /\ "check?" \in Left(call.steps)
      /\ \A y \in Rest : 6 < Rank(y)
      /\ Order(Left(call.steps)) /\ GCEEnsureFacts(call, cloud, Left(call.steps))
      /\ call \in GCECalls /\ call.seen \in Knowledge
      /\ GCEsAddress => Releasable(call, cloud, synced)
  BY <1>1, EnsureStep, Ranks
<1>3. update \in BOOLEAN /\ (call.seen.poolNeedsUpdate => update)
  BY <1>2 DEF Knowledge
<1> HIDE DEF update
<1>4. /\ GCEContinues(c) /\ c.answer = call.answer /\ c.spec = call.spec
      /\ c.seen.owned = call.seen.owned /\ c.seen.safe = call.seen.safe
      /\ c.seen.poolExists = call.seen.poolExists /\ c.seen.rule = call.seen.rule
      /\ c.seen.poolNeedsUpdate = update
      /\ c.seen.ruleNeedsUpdate = call.seen.ruleNeedsUpdate
  BY <1>2, <1>3 DEF GCEContinues, GCECalls, Knowledge
<1> HIDE DEF c
<1>5. "rebuild" \in Rest
  BY <1>2, Ranks DEF Order
<1>6. GCEEnsureFacts(c, cloud, Rest)
  BY <1>2, <1>3, <1>4, <1>5 DEF GCEEnsureFacts, Looked, Placed, Rebuilt
<1>7. GCEsAddress => Releasable(c, cloud, synced)
  BY <1>2, <1>4 DEF Releasable
<1> QED BY <1>1, <1>4, <1>6, <1>7, EnsureReads

(***************************************************************************)
(* Steps that nothing else depends on: the health check, and the instances *)
(* of the pool                                                             *)
(***************************************************************************)
LEMMA Apart ==
    ASSUME GCEInv, ~Idle, call.op = "ensure",
           Head(call.steps) \in {"check", "drop_check", "make_check", "add", "remove", "verify"},
           NEW new \in GCEClouds, new.rule = cloud.rule, new.address = cloud.address,
           new.firewall = cloud.firewall, new.pool.exists = cloud.pool.exists,
           new.pool.affinity = cloud.pool.affinity,
           NEW c, GCEContinues(c), c.answer = call.answer, c.seen.rule = call.seen.rule,
           c.seen.ruleNeedsUpdate = call.seen.ruleNeedsUpdate, c.seen.owned = call.seen.owned,
           c.seen.safe = call.seen.safe, c.seen.poolExists = call.seen.poolExists,
           c.seen.poolNeedsUpdate = call.seen.poolNeedsUpdate
    PROVE  /\ GCEGood(new) /\ GCEEnsureFacts(c, new, Rest)
           /\ GCEsAddress => Releasable(c, new, synced)
<1>1. /\ Rest = Left(call.steps) \ {Head(call.steps)}
      /\ GCEEnsureFacts(call, cloud, Left(call.steps)) /\ Sound(cloud) /\ Standing(cloud)
      /\ GCEsAddress => Agreed(cloud, synced) /\ Releasable(call, cloud, synced)
  BY EnsureStep
<1>2. c.spec = call.spec
  BY DEF GCEContinues
<1>3. GCEWhole(new) /\ Standing(new)
  BY <1>1 DEF Sound, GCEWhole, Standing
<1>4. GCEsAddress =>
        /\ Agreed(new, synced) /\ Releasable(call, new, synced) /\ Releasable(c, new, synced)
  BY <1>1 DEF Agreed, Releasable
<1>5. Looked(c, new, Rest)
  BY <1>1, <1>2 DEF GCEEnsureFacts, Looked, PoolFits
<1>6. Placed(c, new, Rest) /\ Rebuilt(c, new, Rest)
  BY <1>1, <1>2 DEF GCEEnsureFacts, Placed, Rebuilt, PoolFits
<1> QED BY <1>3, <1>4, <1>5, <1>6, EnsureGood DEF GCEEnsureFacts

LEMMA StepCheck == ASSUME GCEInv, UNCHANGED want, ensureHTTPHealthCheck PROVE GCEInv'
<1> DEFINE new(p) == [cloud EXCEPT !.check = p]
           c(p)   == [call EXCEPT !.seen.check = IF cloud.check = "none" THEN p ELSE cloud.check]
<1>1. ~Idle /\ Head(call.steps) \in {"check", "make_check"}
  BY DEF ensureHTTPHealthCheck, At
<1>2. call.op = "ensure"
  BY <1>1, Heads DEF GCEOps
<1>3. /\ call \in GCECalls /\ call.seen \in Knowledge /\ call.spec \in GCEShapes
      /\ cloud \in GCEClouds
  BY <1>1, <1>2, EnsureStep
<1>4. ASSUME NEW p \in Checks
      PROVE  /\ new(p) \in GCEClouds /\ new(p).rule = cloud.rule
             /\ new(p).address = cloud.address /\ new(p).firewall = cloud.firewall
             /\ new(p).pool = cloud.pool
             /\ GCEContinues(c(p)) /\ c(p).answer = call.answer /\ c(p).seen.rule = call.seen.rule
             /\ c(p).seen.ruleNeedsUpdate = call.seen.ruleNeedsUpdate
             /\ c(p).seen.owned = call.seen.owned /\ c(p).seen.safe = call.seen.safe
             /\ c(p).seen.poolExists = call.seen.poolExists
             /\ c(p).seen.poolNeedsUpdate = call.seen.poolNeedsUpdate
  <2>1. new(p) \in GCEClouds /\ new(p).rule = cloud.rule
        /\ new(p).address = cloud.address /\ new(p).firewall = cloud.firewall
        /\ new(p).pool = cloud.pool
    BY <1>3 DEF GCEClouds
  <2>2. PICK q \in Checks : q = IF cloud.check = "none" THEN p ELSE cloud.check
    BY <1>3 DEF GCEClouds
  <2> QED BY <2>1, <2>2, <1>3 DEF GCEContinues, GCECalls, Knowledge
<1>5. call.spec.check \in Checks /\ call.seen.check \in Checks
  BY <1>3 DEF Checks, Knowledge
<1> HIDE DEF new, c
<1>6. ASSUME NEW p \in Checks, RequestIf(cloud.check /= p, new(p), c(p)) PROVE GCEInv'
  <2>1. /\ GCEGood(new(p)) /\ GCEEnsureFacts(c(p), new(p), Rest)
        /\ GCEsAddress => Releasable(c(p), new(p), synced)
    BY <1>1, <1>2, <1>4, Apart
  <2>2. GCEEnsureFacts(c(p), cloud, Rest) /\ (GCEsAddress => Releasable(c(p), cloud, synced))
    BY <1>1, <1>2, <1>3, <1>4, Apart
  <2>3. GCEContinues(c(p)) /\ Head(call.steps) # "release"
    BY <1>1, <1>4
  <2> DEFINE needed == cloud.check /= p
  <2>4. RequestIf(needed, new(p), c(p))
    BY <1>6
  <2> HIDE DEF needed
  <2> QED BY <1>1, <1>2, <2>1, <2>2, <2>3, <2>4, EnsureRequested
<1>7. CASE Proceed(call) /\ NoRequest
  <2>1. /\ GCEEnsureFacts(call, cloud, Rest) /\ (GCEsAddress => Releasable(call, cloud, synced))
        /\ GCEContinues(call) /\ Head(call.steps) # "release"
    BY <1>1, <1>2, <1>3, Apart, GCERunning
  <2> QED BY <1>1, <1>2, <1>7, <2>1, EnsureReads
<1>8. \/ \E p \in Checks : RequestIf(cloud.check /= p, new(p), c(p))
      \/ Proceed(call) /\ NoRequest
  BY <1>5 DEF ensureHTTPHealthCheck, new, c
<1> QED BY <1>6, <1>7, <1>8

\* EnsureLoadBalancer adds nodes to a large pool, as UpdateLoadBalancer does.
LEMMA StepAddNodes ==
    ASSUME GCEInv, UNCHANGED want, updateTargetPool, call.op = "ensure"
    PROVE  GCEInv'
<1> DEFINE toAdd    == call.nodes \ call.todo
           toRemove == call.todo \ call.nodes
           new(S)   == [cloud EXCEPT !.pool.instances = S]
<1>1. ~Idle /\ Head(call.steps) \in {"add", "remove", "verify"}
  BY DEF updateTargetPool, At
<1>2. /\ call \in GCECalls /\ cloud \in GCEClouds /\ cloud.pool.instances \subseteq BalancerNodes
      /\ call.nodes \subseteq BalancerNodes
  BY <1>1, EnsureStep DEF GCEClouds, Pools, GCECalls
<1>3. ASSUME NEW S \in SUBSET BalancerNodes
      PROVE  /\ GCEGood(new(S)) /\ GCEEnsureFacts(call, new(S), Rest) /\ GCEContinues(call)
             /\ GCEsAddress => Releasable(call, new(S), synced)
  <2>1. /\ new(S) \in GCEClouds /\ new(S).rule = cloud.rule /\ new(S).address = cloud.address
        /\ new(S).firewall = cloud.firewall /\ new(S).pool.exists = cloud.pool.exists
        /\ new(S).pool.affinity = cloud.pool.affinity
    BY <1>2 DEF GCEClouds, Pools
  <2> HIDE DEF new
  <2> QED BY <1>1, <2>1, Apart, GCERunning
<1>4. /\ GCEEnsureFacts(call, cloud, Rest) /\ (GCEsAddress => Releasable(call, cloud, synced))
      /\ GCEContinues(call) /\ Head(call.steps) # "release"
  BY <1>1, <1>2, Apart, GCERunning
<1>5. ASSUME NEW S \in SUBSET BalancerNodes, NEW needed, RequestIf(needed, new(S), call)
      PROVE  GCEInv'
  <2> HIDE DEF new
  <2> QED BY <1>1, <1>3, <1>4, <1>5, EnsureRequested
<1>6. CASE Read(call)
  BY <1>1, <1>4, <1>6, EnsureReads
<1>7. CASE Fails /\ NoRequest
  BY <1>1, <1>7, GCEStops, GCERunning DEF NoRequest
<1>8. /\ cloud.pool.instances \cup toAdd \in SUBSET BalancerNodes
      /\ cloud.pool.instances \ toRemove \in SUBSET BalancerNodes
  BY <1>2
<1>9. \/ RequestIf(toAdd /= {}, new(cloud.pool.instances \cup toAdd), call)
      \/ RequestIf(toRemove /= {}, new(cloud.pool.instances \ toRemove), call)
      \/ Read(call) \/ (Fails /\ NoRequest)
  BY DEF updateTargetPool
<1> HIDE DEF new, toAdd, toRemove
<1> QED BY <1>5, <1>6, <1>7, <1>8, <1>9

\* The steps that the rule and the pool need
Plan(dropRule, dropPool, makePool, many, makeRule) ==
    When(dropRule, <<"drop_rule">>)
      \o When(dropPool, <<"drop_pool", "drop_check">>)
      \o When(makePool, <<"make_check", "make_pool">>)
      \o When(many, <<"add", "remove", "verify">>)
      \o When(makeRule, <<"make_rule">>)

Planned(dropRule, dropPool, makePool, many, makeRule) ==
    (IF dropRule THEN {"drop_rule"} ELSE {})
      \cup (IF dropPool THEN {"drop_pool", "drop_check"} ELSE {})
      \cup (IF makePool THEN {"make_check", "make_pool"} ELSE {})
      \cup (IF many THEN {"add", "remove", "verify"} ELSE {})
      \cup (IF makeRule THEN {"make_rule"} ELSE {})

LEMMA RebuildPlan ==
    ASSUME NEW P \in BOOLEAN, NEW Q \in BOOLEAN, NEW R \in BOOLEAN, NEW M \in BOOLEAN,
           NEW W \in BOOLEAN, NEW tail, Ascends(tail, 18, 18)
    PROVE  /\ Ascends(Plan(P, Q, R, M, W) \o tail, 9, 18)
           /\ Left(Plan(P, Q, R, M, W) \o tail) = Planned(P, Q, R, M, W) \cup Left(tail)
<1>1. Ascends(<<"drop_rule">>, 9, 9) /\ Left(<<"drop_rule">>) = {"drop_rule"}
  BY Ranks DEF Ascends, Left, EnsureNames
<1>2. /\ Ascends(<<"drop_pool", "drop_check">>, 10, 11)
      /\ Left(<<"drop_pool", "drop_check">>) = {"drop_pool", "drop_check"}
  <2>1. DOMAIN <<"drop_pool", "drop_check">> = {1, 2}
    OBVIOUS
  <2> QED BY <2>1, Ranks DEF Ascends, Left, EnsureNames
<1>3. /\ Ascends(<<"make_check", "make_pool">>, 12, 13)
      /\ Left(<<"make_check", "make_pool">>) = {"make_check", "make_pool"}
  <2>1. DOMAIN <<"make_check", "make_pool">> = {1, 2}
    OBVIOUS
  <2> QED BY <2>1, Ranks DEF Ascends, Left, EnsureNames
<1>4. /\ Ascends(<<"add", "remove", "verify">>, 14, 16)
      /\ Left(<<"add", "remove", "verify">>) = {"add", "remove", "verify"}
  <2>1. DOMAIN <<"add", "remove", "verify">> = {1, 2, 3}
    OBVIOUS
  <2> QED BY <2>1, Ranks DEF Ascends, Left, EnsureNames
<1>5. Ascends(<<"make_rule">>, 17, 17) /\ Left(<<"make_rule">>) = {"make_rule"}
  BY Ranks DEF Ascends, Left, EnsureNames
<1> DEFINE a == When(P, <<"drop_rule">>)
           b == When(Q, <<"drop_pool", "drop_check">>)
           c == When(R, <<"make_check", "make_pool">>)
           d == When(M, <<"add", "remove", "verify">>)
           e == When(W, <<"make_rule">>)
<1>6. /\ Ascends(a, 9, 9) /\ Left(a) = IF P THEN {"drop_rule"} ELSE {}
      /\ Ascends(b, 10, 11) /\ Left(b) = IF Q THEN {"drop_pool", "drop_check"} ELSE {}
      /\ Ascends(c, 12, 13) /\ Left(c) = IF R THEN {"make_check", "make_pool"} ELSE {}
      /\ Ascends(d, 14, 16) /\ Left(d) = IF M THEN {"add", "remove", "verify"} ELSE {}
      /\ Ascends(e, 17, 17) /\ Left(e) = IF W THEN {"make_rule"} ELSE {}
  <2>1. Ascends(a, 9, 9) /\ Left(a) = IF P THEN {"drop_rule"} ELSE {}
    BY <1>1, Nothing_Ascends DEF When
  <2>2. Ascends(b, 10, 11) /\ Left(b) = IF Q THEN {"drop_pool", "drop_check"} ELSE {}
    BY <1>2, Nothing_Ascends DEF When
  <2>3. Ascends(c, 12, 13) /\ Left(c) = IF R THEN {"make_check", "make_pool"} ELSE {}
    BY <1>3, Nothing_Ascends DEF When
  <2>4. Ascends(d, 14, 16) /\ Left(d) = IF M THEN {"add", "remove", "verify"} ELSE {}
    BY <1>4, Nothing_Ascends DEF When
  <2>5. Ascends(e, 17, 17) /\ Left(e) = IF W THEN {"make_rule"} ELSE {}
    BY <1>5, Nothing_Ascends DEF When
  <2> HIDE DEF a, b, c, d, e
  <2> QED BY <2>1, <2>2, <2>3, <2>4, <2>5
<1>7. Plan(P, Q, R, M, W) = a \o b \o c \o d \o e
  BY DEF Plan
<1> HIDE DEF a, b, c, d, e
<1>8. Ascends(a \o b, 9, 11) /\ Left(a \o b) = Left(a) \cup Left(b)
  BY <1>6, OneAfterAnother
<1>9. Ascends(a \o b \o c, 9, 13) /\ Left(a \o b \o c) = Left(a \o b) \cup Left(c)
  BY <1>6, <1>8, OneAfterAnother
<1>10. Ascends(a \o b \o c \o d, 9, 16) /\ Left(a \o b \o c \o d) = Left(a \o b \o c) \cup Left(d)
  BY <1>6, <1>9, OneAfterAnother
<1>11. /\ Ascends(a \o b \o c \o d \o e, 9, 17)
       /\ Left(a \o b \o c \o d \o e) = Left(a \o b \o c \o d) \cup Left(e)
  BY <1>6, <1>10, OneAfterAnother
<1>12. /\ Ascends((a \o b \o c \o d \o e) \o tail, 9, 18)
       /\ Left((a \o b \o c \o d \o e) \o tail) = Left(a \o b \o c \o d \o e) \cup Left(tail)
  BY <1>11, OneAfterAnother
<1>13. Left(a \o b \o c \o d \o e) = Left(a) \cup Left(b) \cup Left(c) \cup Left(d) \cup Left(e)
  BY <1>8, <1>9, <1>10, <1>11
<1>14. Left(a \o b \o c \o d \o e) = Planned(P, Q, R, M, W)
  BY <1>6, <1>13 DEF Planned
<1> QED BY <1>7, <1>12, <1>14

\* The plan follows from what the call has seen, which is still so.
LEMMA StepRebuild == ASSUME GCEInv, UNCHANGED want, rebuild PROVE GCEInv'
<1> DEFINE seen == call.seen
           needsRule == seen.ruleNeedsUpdate \/ seen.poolNeedsUpdate
           dropRule  == seen.rule.exists /\ needsRule
           many      == Cardinality(call.nodes) > MaxTargetPoolCreateInstances
           plan == When(dropRule, <<"drop_rule">>)
                     \o When(seen.poolExists /\ seen.poolNeedsUpdate, <<"drop_pool", "drop_check">>)
                     \o When(seen.poolNeedsUpdate, <<"make_check", "make_pool">>)
                     \o When(seen.poolNeedsUpdate /\ many, <<"add", "remove", "verify">>)
                     \o When(needsRule, <<"make_rule">>)
           steps == plan \o Tail(call.steps)
           safe  == seen.safe /\ ~dropRule
           d == [call EXCEPT !.steps = steps, !.seen.safe = safe]
<1>1. /\ ~Idle /\ Head(call.steps) = "rebuild" /\ call' = d
      /\ UNCHANGED synced /\ cloud' = cloud
  BY DEF rebuild, At, NoRequest, safeWhile
<1>2. call.op = "ensure"
  BY <1>1, Heads DEF GCEOps
<1>3. /\ Rest = Left(call.steps) \ {"rebuild"} /\ "rebuild" \in Left(call.steps)
      /\ \A y \in Rest : 8 < Rank(y)
      /\ Order(Left(call.steps)) /\ GCEEnsureFacts(call, cloud, Left(call.steps))
      /\ call \in GCECalls /\ seen \in Knowledge /\ cloud \in GCEClouds
      /\ (GCEsAddress <=> call.spec.ip \notin UserIPs)
      /\ GCEsAddress => Agreed(cloud, synced) /\ Releasable(call, cloud, synced)
      /\ Rest \subseteq EnsureNames /\ "release" \in Rest /\ ~call.failed
  BY <1>1, <1>2, EnsureStep, EnsureHere, Ranks
<1>4. /\ call.steps # <<>> /\ Ascends(Tail(call.steps), 1, 18)
      /\ Left(Tail(call.steps)) = Rest
  BY <1>1, <1>2, GCERunning, Ahead DEF GCEEnsureDone, Rest
<1>5. Rest = {"release"}
  <2>1. ASSUME NEW y \in Rest PROVE y = "release"
    <3>1. Rank(y) \in 1 .. 18 /\ 8 < Rank(y)
      BY <1>3, <2>1, RankTypes
    <3>2. ~(Rank(y) <= 8)
      BY <3>1
    <3> QED BY <1>3, <2>1, <3>2 DEF Order
  <2> QED BY <1>3, <2>1
<1>6. Ascends(Tail(call.steps), 18, 18)
  <2>1. \A i \in DOMAIN Tail(call.steps) : Tail(call.steps)[i] = "release"
    BY <1>4, <1>5 DEF Left
  <2> QED BY <1>4, <2>1, Ranks DEF Ascends
<1>7. /\ seen.ruleNeedsUpdate \in BOOLEAN /\ seen.poolNeedsUpdate \in BOOLEAN
      /\ seen.poolExists \in BOOLEAN /\ seen.rule.exists \in BOOLEAN /\ seen.safe \in BOOLEAN
  BY <1>3 DEF Knowledge, Rules
<1>8. many \in BOOLEAN
  OBVIOUS
<1> HIDE DEF many
<1>9. /\ dropRule \in BOOLEAN /\ (seen.poolExists /\ seen.poolNeedsUpdate) \in BOOLEAN
      /\ (seen.poolNeedsUpdate /\ many) \in BOOLEAN /\ needsRule \in BOOLEAN /\ safe \in BOOLEAN
  BY <1>7, <1>8
<1> DEFINE P == dropRule
           Q == seen.poolExists /\ seen.poolNeedsUpdate
           R == seen.poolNeedsUpdate
           M == seen.poolNeedsUpdate /\ many
           W == needsRule
<1>10. /\ Ascends(steps, 9, 18)
       /\ Left(steps) = Planned(P, Q, R, M, W) \cup Left(Tail(call.steps))
  <2>1. P \in BOOLEAN /\ Q \in BOOLEAN /\ R \in BOOLEAN /\ M \in BOOLEAN /\ W \in BOOLEAN
    BY <1>7, <1>9
  <2>2. plan = Plan(P, Q, R, M, W)
    BY DEF Plan
  <2> HIDE DEF P, Q, R, M, W, plan
  <2> QED BY <1>6, <2>1, <2>2, RebuildPlan
<1> DEFINE L == Left(steps)
<1>11. /\ "drop_rule" \in L <=> dropRule
       /\ "drop_pool" \in L <=> seen.poolExists /\ seen.poolNeedsUpdate
       /\ "make_pool" \in L <=> seen.poolNeedsUpdate
       /\ "make_rule" \in L <=> needsRule
       /\ "release" \in L /\ "rebuild" \notin L /\ "address" \notin L /\ "firewall" \notin L
       /\ L \subseteq EnsureNames
  <2> HIDE DEF dropRule, needsRule, steps
  <2> QED BY <1>4, <1>5, <1>10 DEF EnsureNames, Planned
<1>12. Ascends(steps, 1, 18) /\ steps # <<>> /\ steps \in Seq(GCEStepNames)
  <2>1. Ascends(steps, 9, 18) /\ "release" \in Left(steps)
    BY <1>10, <1>11
  <2> HIDE DEF steps
  <2>2. Ascends(steps, 1, 18)
    <3>1. /\ steps \in Seq(EnsureNames)
          /\ \A i \in DOMAIN steps : steps[i] \in EnsureNames /\ Rank(steps[i]) <= 18
          /\ \A i, j \in DOMAIN steps : i < j => Rank(steps[i]) < Rank(steps[j])
      BY <2>1 DEF Ascends
    <3>2. \A i \in DOMAIN steps : Rank(steps[i]) >= 1
      BY <3>1, RankTypes
    <3> QED BY <3>1, <3>2 DEF Ascends
  <2>3. steps # <<>>
    BY <2>1 DEF Left
  <2>4. steps \in Seq(GCEStepNames)
    BY <2>1 DEF Ascends, GCEStepNames
  <2> QED BY <2>2, <2>3, <2>4
<1> HIDE DEF steps
<1>13. \A y \in L : ~(Rank(y) < 8)
  <2>1. ASSUME NEW y \in L PROVE ~(Rank(y) < 8)
    <3>1. PICK i \in DOMAIN steps : y = steps[i]
      BY <2>1 DEF Left
    <3>2. Rank(y) >= 9 /\ Rank(y) \in 1 .. 18
      BY <1>10, <1>11, <2>1, <3>1, RankTypes DEF Ascends
    <3> QED BY <3>2
  <2> QED BY <2>1
<1>14. Order(L)
  BY <1>11, <1>13 DEF Order
<1> HIDE DEF L
<1>15. /\ seen.rule = cloud.rule
       /\ seen.ruleNeedsUpdate \/ RuleAsAsked(cloud.rule, call.spec)
       /\ seen.poolExists = cloud.pool.exists
       /\ seen.poolNeedsUpdate \/ PoolFits(cloud.pool, call.spec)
       /\ call.answer # "none" /\ (call.spec.ip \notin UserIPs => call.answer = cloud.address)
       /\ call.spec.ip \in IPs => call.answer = call.spec.ip
       /\ FirewallFits(cloud.firewall, call.spec, call.answer)
  <2>1. /\ "get_rule" \notin Left(call.steps) /\ "pool?" \notin Left(call.steps)
        /\ "address" \notin Left(call.steps) /\ "firewall" \notin Left(call.steps)
    BY <1>3, <1>5
  <2> QED BY <1>3, <2>1 DEF GCEEnsureFacts, Looked, Placed
<1>16. RuleAsAsked(cloud.rule, call.spec) => RuleFits(cloud.rule, call.spec, call.answer)
  BY <1>3, <1>15 DEF RuleAsAsked, RuleFits, Agreed
<1>17. /\ d \in GCECalls /\ d.op = call.op /\ d.spec = call.spec /\ d.answer = call.answer
       /\ d.seen.safe = safe /\ d.steps = steps /\ ~d.failed
  BY <1>3, <1>9, <1>12 DEF GCECalls, Knowledge
<1> HIDE DEF d
<1>18. Looked(d, cloud, L) /\ Placed(d, cloud, L)
  BY <1>11, <1>15, <1>17 DEF Looked, Placed
<1>19. Rebuilt(d, cloud, L)
  BY <1>7, <1>11, <1>15, <1>16, <1>17 DEF Rebuilt
<1>20. GCEDone(d, cloud')
  BY <1>1, <1>2, <1>12, <1>14, <1>17, <1>18, <1>19 DEF GCEDone, GCEEnsureDone, L
<1>21. GCEsAddress => Releasable(d, cloud', synced)
  BY <1>1, <1>3, <1>17 DEF Releasable
<1> QED BY <1>1, <1>17, <1>20, <1>21, Continuing, GCERunning

LEMMA StepDropRule == ASSUME GCEInv, UNCHANGED want, deleteForwardingRule PROVE GCEInv'
<1> DEFINE new == [cloud EXCEPT !.rule = NoRule]
<1>1. ~Idle /\ Head(call.steps) = "drop_rule" /\ Request(new, call)
  BY DEF deleteForwardingRule, At
<1>2. call.op = "ensure"
  BY <1>1, Heads DEF GCEOps
<1>3. /\ Rest = Left(call.steps) \ {"drop_rule"} /\ "drop_rule" \in Left(call.steps)
      /\ \A y \in Rest : 9 < Rank(y)
      /\ GCEEnsureFacts(call, cloud, Left(call.steps)) /\ cloud \in GCEClouds
      /\ (GCEsAddress <=> call.spec.ip \notin UserIPs)
      /\ GCEsAddress => Agreed(cloud, synced)
      /\ GCEContinues(call)
  BY <1>1, <1>2, EnsureStep, Ranks, GCERunning
<1>4. "rebuild" \notin Left(call.steps) /\ "address" \notin Left(call.steps)
  BY <1>3, Ranks
<1>5. NoRule \in Rules /\ ~NoRule.exists
  BY DEF NoRule, Rules, Addresses, Protocols
<1>6. /\ new \in GCEClouds /\ new.rule = NoRule /\ new.pool = cloud.pool
      /\ new.firewall = cloud.firewall /\ new.address = cloud.address
  BY <1>3, <1>5 DEF GCEClouds
<1> HIDE DEF new
<1>7. GCEEnsureFacts(call, new, Rest)
  BY <1>3, <1>4, <1>5, <1>6 DEF GCEEnsureFacts, Looked, Placed, Rebuilt
<1>8. GCEWhole(new) /\ Standing(new)
  BY <1>5, <1>6 DEF GCEWhole, Standing
<1>9. GCEsAddress => Agreed(new, synced)
  BY <1>3, <1>4, <1>5, <1>6 DEF GCEEnsureFacts, Placed, Agreed
<1>10. Releasable(call, new, synced)
  BY <1>3, <1>4 DEF GCEEnsureFacts, Rebuilt, Releasable
<1>11. GCEGood(new)
  BY <1>1, <1>2, <1>6, <1>8, <1>9, <1>10, EnsureGood
<1> QED BY <1>1, <1>2, <1>3, <1>7, <1>10, <1>11, EnsureRequests

LEMMA StepDropPool == ASSUME GCEInv, UNCHANGED want, deleteTargetPool PROVE GCEInv'
<1>1. ~Idle /\ Head(call.steps) \in {"drop_pool", "drop_check"}
  BY DEF deleteTargetPool, At
<1>2. call.op = "ensure"
  BY <1>1, Heads DEF GCEOps
<1>3. CASE Head(call.steps) = "drop_pool"
  <2> DEFINE new == [cloud EXCEPT !.pool = NoPool]
  <2>1. Request(new, call)
    BY <1>3 DEF deleteTargetPool, At
  <2>2. /\ Rest = Left(call.steps) \ {"drop_pool"} /\ "drop_pool" \in Left(call.steps)
        /\ \A y \in Rest : 10 < Rank(y)
        /\ GCEEnsureFacts(call, cloud, Left(call.steps)) /\ cloud \in GCEClouds /\ Sound(cloud)
        /\ GCEsAddress => Agreed(cloud, synced) /\ Releasable(call, cloud, synced)
        /\ GCEContinues(call)
    BY <1>1, <1>2, <1>3, EnsureStep, Ranks, GCERunning
  <2>3. "rebuild" \notin Left(call.steps) /\ "drop_rule" \notin Left(call.steps)
    BY <2>2, Ranks
  <2>4. NoPool \in Pools
    BY DEF NoPool, Pools
  <2>5. /\ new \in GCEClouds /\ new.rule = cloud.rule /\ new.pool = NoPool
        /\ new.firewall = cloud.firewall /\ new.address = cloud.address
    BY <2>2, <2>4 DEF GCEClouds
  <2> HIDE DEF new
  <2>6. ~cloud.rule.exists
    BY <2>2, <2>3 DEF GCEEnsureFacts, Rebuilt
  <2>7. GCEEnsureFacts(call, new, Rest)
    BY <2>2, <2>3, <2>5, <2>6 DEF GCEEnsureFacts, Looked, Placed, Rebuilt
  <2>8. GCEWhole(new) /\ Standing(new)
    BY <2>2, <2>5, <2>6 DEF Sound, GCEWhole, Standing
  <2>9. GCEsAddress => Agreed(new, synced) /\ Releasable(call, new, synced)
    BY <2>2, <2>5 DEF Agreed, Releasable
  <2>10. GCEGood(new)
    BY <1>1, <1>2, <2>5, <2>8, <2>9, EnsureGood
  <2> QED BY <1>1, <1>2, <1>3, <2>1, <2>2, <2>7, <2>9, <2>10, EnsureRequests
<1>4. CASE Head(call.steps) = "drop_check"
  <2> DEFINE new == [cloud EXCEPT !.check = "none"]
  <2>1. Attempt(new) \/ Request(new, call) \/ (Proceed(call) /\ NoRequest)
    BY <1>4 DEF deleteTargetPool, At, RequestIf
  <2>2. cloud \in GCEClouds /\ GCEContinues(call) /\ Head(call.steps) # "release"
    BY <1>1, GCERunning
  <2>3. /\ new \in GCEClouds /\ new.rule = cloud.rule /\ new.pool = cloud.pool
        /\ new.firewall = cloud.firewall /\ new.address = cloud.address
    BY <2>2 DEF GCEClouds, Checks
  <2> HIDE DEF new
  <2>4. /\ GCEGood(new) /\ GCEEnsureFacts(call, new, Rest)
        /\ GCEsAddress => Releasable(call, new, synced)
    BY <1>1, <1>2, <1>4, <2>2, <2>3, Apart
  <2>5. /\ GCEGood(cloud) /\ GCEEnsureFacts(call, cloud, Rest)
        /\ GCEsAddress => Releasable(call, cloud, synced)
    BY <1>1, <1>2, <1>4, <2>2, Apart
  <2>6. CASE Attempt(new)
    <3>1. cloud' \in {cloud, new} /\ Proceed(call)
      BY <2>6 DEF Attempt
    <3> QED BY <1>1, <1>2, <2>2, <2>4, <2>5, <3>1, EnsureGoes
  <2>7. CASE Request(new, call)
    BY <1>1, <1>2, <2>2, <2>4, <2>7, EnsureRequests
  <2>8. CASE Proceed(call) /\ NoRequest
    BY <1>1, <1>2, <2>2, <2>5, <2>8, EnsureGoes DEF NoRequest
  <2> QED BY <2>1, <2>6, <2>7, <2>8
<1> QED BY <1>1, <1>3, <1>4

LEMMA StepMakePool == ASSUME GCEInv, UNCHANGED want, createTargetPool PROVE GCEInv'
<1> DEFINE pool(hosts) == [exists |-> TRUE, affinity |-> call.spec.affinity,
                           checked |-> call.seen.check /= "none", instances |-> hosts]
           new(hosts)  == [cloud EXCEPT !.pool = pool(hosts)]
           c(hosts)    == [call EXCEPT !.todo = hosts]
<1>1. ~Idle /\ Head(call.steps) = "make_pool"
  BY DEF createTargetPool, At
<1>2. call.op = "ensure"
  BY <1>1, Heads DEF GCEOps
<1>3. /\ Rest = Left(call.steps) \ {"make_pool"} /\ "make_pool" \in Left(call.steps)
      /\ \A y \in Rest : 13 < Rank(y)
      /\ GCEEnsureFacts(call, cloud, Left(call.steps)) /\ cloud \in GCEClouds
      /\ Sound(cloud) /\ Standing(cloud) /\ call \in GCECalls /\ call.spec \in GCEShapes
      /\ GCEsAddress => Agreed(cloud, synced) /\ Releasable(call, cloud, synced)
  BY <1>1, <1>2, EnsureStep, Ranks
<1>4. "rebuild" \notin Left(call.steps) /\ "drop_pool" \notin Left(call.steps)
  BY <1>3, Ranks
<1>5. PICK hosts \in SUBSET call.nodes : Request(new(hosts), c(hosts))
  BY DEF createTargetPool, kSubset
<1>6. /\ pool(hosts) \in Pools /\ PoolFits(pool(hosts), call.spec)
      /\ hosts \in SUBSET BalancerNodes
  BY <1>3 DEF Pools, PoolFits, GCECalls
<1> HIDE DEF pool
<1>7. /\ new(hosts) \in GCEClouds /\ new(hosts).rule = cloud.rule
      /\ new(hosts).pool = pool(hosts) /\ new(hosts).firewall = cloud.firewall
      /\ new(hosts).address = cloud.address
  BY <1>3, <1>6 DEF GCEClouds
<1>8. /\ GCEContinues(c(hosts)) /\ c(hosts).answer = call.answer /\ c(hosts).seen = call.seen
      /\ c(hosts).spec = call.spec
  BY <1>3, <1>6 DEF GCEContinues, GCECalls
<1> HIDE DEF new, c
<1>9. GCEEnsureFacts(c(hosts), new(hosts), Rest)
  BY <1>3, <1>4, <1>6, <1>7, <1>8 DEF GCEEnsureFacts, Looked, Placed, Rebuilt
<1>10. GCEWhole(new(hosts)) /\ Standing(new(hosts))
  BY <1>3, <1>6, <1>7 DEF Sound, GCEWhole, Standing, PoolFits
<1>11. GCEsAddress => /\ Agreed(new(hosts), synced) /\ Releasable(call, new(hosts), synced)
                      /\ Releasable(c(hosts), new(hosts), synced)
  BY <1>3, <1>7, <1>8 DEF Agreed, Releasable
<1>12. GCEGood(new(hosts))
  BY <1>1, <1>2, <1>7, <1>10, <1>11, EnsureGood
<1> QED BY <1>1, <1>2, <1>5, <1>8, <1>9, <1>11, <1>12, EnsureRequests

LEMMA StepMakeRule == ASSUME GCEInv, UNCHANGED want, createForwardingRule PROVE GCEInv'
<1> DEFINE rule == [exists |-> TRUE, ip |-> call.answer,
                    range |-> loadBalancerPortRange(call.spec.ports),
                    protocol |-> call.spec.protocol]
           new == [cloud EXCEPT !.rule = rule]
           c   == [call EXCEPT !.seen.safe = TRUE]
<1>1. ~Idle /\ Head(call.steps) = "make_rule" /\ Request(new, c)
  BY DEF createForwardingRule, At
<1>2. call.op = "ensure"
  BY <1>1, Heads DEF GCEOps
<1>3. /\ Rest = Left(call.steps) \ {"make_rule"} /\ "make_rule" \in Left(call.steps)
      /\ \A y \in Rest : 17 < Rank(y)
      /\ GCEEnsureFacts(call, cloud, Left(call.steps)) /\ cloud \in GCEClouds
      /\ call \in GCECalls /\ call.seen \in Knowledge /\ call.spec \in GCEShapes
      /\ (GCEsAddress <=> call.spec.ip \notin UserIPs)
      /\ GCEsAddress => Agreed(cloud, synced)
  BY <1>1, <1>2, EnsureStep, Ranks
<1>4. /\ "rebuild" \notin Left(call.steps) /\ "address" \notin Left(call.steps)
      /\ "firewall" \notin Left(call.steps) /\ "make_pool" \notin Left(call.steps)
      /\ "drop_pool" \notin Left(call.steps) /\ "drop_rule" \notin Left(call.steps)
  BY <1>3, Ranks
<1>5. /\ call.answer # "none" /\ (call.spec.ip \notin UserIPs => call.answer = cloud.address)
      /\ cloud.pool.exists /\ cloud.firewall.exists
  BY <1>3, <1>4 DEF GCEEnsureFacts, Placed, Rebuilt, FirewallFits, PoolFits
<1>6. /\ rule \in Rules /\ RuleFits(rule, call.spec, call.answer) /\ rule.exists
      /\ rule.ip = call.answer
  BY <1>3 DEF Rules, RuleFits, GCECalls, Protocols
<1> HIDE DEF rule
<1>7. /\ new \in GCEClouds /\ new.rule = rule /\ new.pool = cloud.pool
      /\ new.firewall = cloud.firewall /\ new.address = cloud.address
  BY <1>3, <1>6 DEF GCEClouds
<1>8. GCEContinues(c) /\ c.answer = call.answer /\ c.spec = call.spec
  BY <1>3 DEF GCEContinues, GCECalls, Knowledge
<1> HIDE DEF new, c
<1>9. GCEEnsureFacts(c, new, Rest)
  BY <1>3, <1>4, <1>6, <1>7, <1>8 DEF GCEEnsureFacts, Looked, Placed, Rebuilt
<1>10. GCEWhole(new) /\ Standing(new)
  BY <1>5, <1>6, <1>7 DEF GCEWhole, Standing
<1>11. GCEsAddress => Agreed(new, synced)
  BY <1>3, <1>5, <1>6, <1>7 DEF Agreed
<1>12. Releasable(call, new, synced) /\ Releasable(c, new, synced)
  BY <1>6, <1>7 DEF Releasable
<1>13. GCEGood(new)
  BY <1>1, <1>2, <1>7, <1>10, <1>11, <1>12, EnsureGood
<1> QED BY <1>1, <1>2, <1>8, <1>9, <1>12, <1>13, EnsureRequests

LEMMA StepRelease == ASSUME GCEInv, UNCHANGED want, releaseStaticIP PROVE GCEInv'
<1> DEFINE new == [cloud EXCEPT !.address = "none"]
           L == Left(call.steps)
<1>1. ~Idle /\ Head(call.steps) = "release"
  BY DEF releaseStaticIP, At
<1>2. call.op = "ensure"
  BY <1>1, Heads DEF GCEOps
<1>3. /\ L \subseteq EnsureNames /\ Rest = L \ {"release"} /\ Len(call.steps) = 1
      /\ \A y \in Rest : 18 < Rank(y)
      /\ ~call.failed => GCEEnsureFacts(call, cloud, L)
      /\ GCEGood(cloud) /\ GCEContinues(call) /\ cloud \in GCEClouds
  BY <1>1, <1>2, EnsureHere, Ranks, GCERunning
<1>4. L \subseteq {"release"}
  <2>1. ASSUME NEW y \in Rest PROVE FALSE
    <3>1. Rank(y) \in 1 .. 18 /\ 18 < Rank(y)
      BY <1>3, <2>1, RankTypes
    <3> QED BY <3>1
  <2> QED BY <1>3, <2>1
<1>5. ~call.failed => Finished(call, cloud)
  BY <1>2, <1>3, <1>4 DEF GCEEnsureFacts, Placed, Rebuilt, Finished
<1>6. /\ new \in GCEClouds /\ new.rule = cloud.rule /\ new.pool = cloud.pool
      /\ new.firewall = cloud.firewall /\ new.address = "none"
  BY <1>3 DEF GCEClouds
<1> HIDE DEF new
<1>7. /\ Tended /\ Standing(cloud) /\ GCEWhole(cloud)
      /\ GCEsAddress => Agreed(cloud, synced) /\ Releasable(call, cloud, synced)
  <2>1. Tended
    BY <1>1, <1>2 DEF Tended
  <2> QED BY <1>3, <2>1 DEF GCEGood, Sound
<1>8. CASE ~call.seen.owned /\ call.seen.safe /\ cloud.address /= "none"
  <2>1. Attempt(new)
    BY <1>8 DEF releaseStaticIP, new
  <2>2. GCEWhole(new) /\ Standing(new)
    BY <1>6, <1>7 DEF GCEWhole, Standing
  <2>3. GCEsAddress => Agreed(new, synced) /\ Releasable(call, new, synced)
    BY <1>6, <1>7, <1>8 DEF Agreed, Releasable
  <2>4. GCEGood(new)
    BY <1>1, <1>2, <1>6, <2>2, <2>3, EnsureGood
  <2>5. ~call.failed => Finished(call, new)
    BY <1>2, <1>5, <1>6 DEF Finished
  <2>6. cloud' \in {cloud, new} /\ Proceed(call)
    BY <2>1 DEF Attempt
  <2>7. call.steps = call.steps /\ ~(Len(call.steps) > 1)
    BY <1>3
  <2> QED BY <1>1, <1>3, <1>5, <2>4, <2>5, <2>6, <2>7, GCEGoes
<1>9. CASE Proceed(call) /\ NoRequest
  <2>1. cloud' = cloud /\ ~(Len(call.steps) > 1)
    BY <1>3, <1>9 DEF NoRequest
  <2> QED BY <1>1, <1>3, <1>5, <1>9, <2>1, GCEGoes
<1> QED BY <1>8, <1>9 DEF releaseStaticIP

-----------------------------------------------------------------------------
(***************************************************************************)
(* The steps of UpdateLoadBalancer                                         *)
(***************************************************************************)
LEMMA PoolUpdate ==
    /\ Len(GCEUpdateSteps) = 4 /\ Tail(GCEUpdateSteps) = <<"add", "remove", "verify">>
    /\ Head(GCEUpdateSteps) = "get_pool"
    /\ Len(<<"add", "remove", "verify">>) = 3 /\ Head(<<"add", "remove", "verify">>) = "add"
    /\ Tail(<<"add", "remove", "verify">>) = <<"remove", "verify">>
    /\ Len(<<"remove", "verify">>) = 2 /\ Tail(<<"remove", "verify">>) = <<"verify">>
    /\ Head(<<"remove", "verify">>) = "remove"
    /\ Len(<<"verify">>) = 1 /\ Head(<<"verify">>) = "verify"
<1>1. Len(GCEUpdateSteps) = 4 /\ Head(GCEUpdateSteps) = "get_pool"
  BY DEF GCEUpdateSteps
<1>2. Tail(GCEUpdateSteps) = <<"add", "remove", "verify">>
  BY DEF GCEUpdateSteps
<1>3. Len(<<"add", "remove", "verify">>) = 3 /\ Head(<<"add", "remove", "verify">>) = "add"
  OBVIOUS
<1>4. Tail(<<"add", "remove", "verify">>) = <<"remove", "verify">>
  OBVIOUS
<1>5. Len(<<"remove", "verify">>) = 2 /\ Head(<<"remove", "verify">>) = "remove"
  OBVIOUS
<1>6. Tail(<<"remove", "verify">>) = <<"verify">>
  OBVIOUS
<1>7. Len(<<"verify">>) = 1 /\ Head(<<"verify">>) = "verify"
  OBVIOUS
<1> QED BY <1>1, <1>2, <1>3, <1>4, <1>5, <1>6, <1>7

LEMMA StepGetPool == ASSUME GCEInv, UNCHANGED want, UpdateLoadBalancer PROVE GCEInv'
<1> DEFINE c == [call EXCEPT !.todo = cloud.pool.instances]
<1>1. ~Idle /\ Head(call.steps) = "get_pool" /\ (Read(c) \/ (Fails /\ NoRequest))
  BY DEF UpdateLoadBalancer, At
<1>2. call.op = "update"
  BY <1>1, Heads DEF GCEOps, EnsureNames
<1>3. /\ call.steps = GCEUpdateSteps /\ ~call.failed /\ call.deferred = <<>>
      /\ call \in GCECalls /\ cloud \in GCEClouds /\ GCEGood(cloud)
  BY <1>1, <1>2, GCERunning, PoolUpdate DEF GCEUpdateDone
<1>4. /\ GCEContinues(c) /\ c.steps = GCEUpdateSteps /\ c.seen = call.seen /\ c.deferred = <<>>
      /\ c.todo = cloud.pool.instances /\ ~c.failed /\ c.op = "update"
  BY <1>2, <1>3 DEF GCEContinues, GCECalls, GCEClouds, Pools
<1> HIDE DEF c
<1>5. cloud' = cloud /\ (Proceed(c) \/ Fails)
  BY <1>1 DEF Read, NoRequest
<1>6. Len(c.steps) > 1
  BY <1>4, PoolUpdate
<1>7. GCEDone([c EXCEPT !.steps = Tail(@)], cloud')
  <2> DEFINE d == [c EXCEPT !.steps = Tail(@)]
  <2>1. /\ d.op = "update" /\ d.steps = <<"add", "remove", "verify">> /\ ~d.failed
        /\ d.deferred = <<>> /\ d.todo = cloud.pool.instances
    BY <1>4, PoolUpdate DEF GCEContinues, GCECalls
  <2> HIDE DEF d
  <2>2. GCEDone(d, cloud')
    BY <1>5, <2>1 DEF GCEDone, GCEUpdateDone
  <2> QED BY <2>2 DEF d
<1>8. GCEsAddress => Releasable(c, cloud', synced)
  BY <1>3, <1>4, <1>5 DEF GCEGood, Releasable
<1>9. CASE Proceed(c)
  BY <1>1, <1>3, <1>4, <1>5, <1>6, <1>7, <1>8, <1>9, GCEGoes
<1>10. CASE Fails
  BY <1>1, <1>3, <1>5, <1>10, GCEStops
<1> QED BY <1>5, <1>9, <1>10

\* A step on the pool in a call of UpdateLoadBalancer
LEMMA UpdateGoes ==
    ASSUME GCEInv, ~Idle, UNCHANGED want, call.op = "update", GCEGood(cloud'), Proceed(call),
           \/ /\ call.steps = <<"add", "remove", "verify">>
              /\ cloud'.pool.instances = call.todo \cup call.nodes
           \/ /\ call.steps \in {<<"remove", "verify">>, <<"verify">>}
              /\ cloud'.pool.instances = call.nodes
    PROVE  GCEInv'
<1> DEFINE d == [call EXCEPT !.steps = Tail(@)]
<1>1. /\ ~call.failed /\ call.deferred = <<>> /\ call \in GCECalls /\ GCEContinues(call)
  BY GCERunning DEF GCEUpdateDone
<1>2. /\ d.op = "update" /\ d.steps = Tail(call.steps) /\ ~d.failed /\ d.deferred = <<>>
      /\ d.todo = call.todo /\ d.nodes = call.nodes
  BY <1>1 DEF GCECalls
<1> HIDE DEF d
<1>3. ASSUME Len(call.steps) > 1 PROVE GCEDone(d, cloud')
  <2>1. CASE call.steps = <<"add", "remove", "verify">>
    BY <1>2, <2>1, PoolUpdate DEF GCEDone, GCEUpdateDone
  <2>2. CASE call.steps = <<"remove", "verify">> /\ cloud'.pool.instances = call.nodes
    BY <1>2, <2>2, PoolUpdate DEF GCEDone, GCEUpdateDone
  <2>3. CASE call.steps = <<"verify">>
    <3>1. Len(call.steps) = 1
      BY <2>3, PoolUpdate
    <3> QED BY <1>3, <3>1
  <2> QED BY <2>1, <2>2, <2>3
<1>4. ASSUME ~(Len(call.steps) > 1) PROVE Finished(call, cloud')
  <2>1. CASE call.steps = <<"add", "remove", "verify">>
    <3>1. Len(call.steps) = 3
      BY <2>1, PoolUpdate
    <3> QED BY <1>4, <3>1
  <2>2. CASE cloud'.pool.instances = call.nodes
    BY <2>2 DEF Finished
  <2> QED BY <2>1, <2>2
<1>5. GCEsAddress => Releasable(call, cloud', synced)
  BY DEF GCEGood
<1> QED BY <1>1, <1>3, <1>4, <1>5, GCEGoes DEF d

LEMMA StepUpdatePool ==
    ASSUME GCEInv, UNCHANGED want, updateTargetPool, call.op = "update"
    PROVE  GCEInv'
<1> DEFINE toAdd    == call.nodes \ call.todo
           toRemove == call.todo \ call.nodes
           new(S)   == [cloud EXCEPT !.pool.instances = S]
<1>1. ~Idle /\ Head(call.steps) \in {"add", "remove", "verify"}
  BY DEF updateTargetPool, At
<1>2. /\ call \in GCECalls /\ cloud \in GCEClouds /\ cloud.pool.instances \subseteq BalancerNodes
      /\ call.nodes \subseteq BalancerNodes /\ GCEGood(cloud) /\ synced.by = "none"
  BY <1>1, GCERunning DEF GCEClouds, Pools, GCECalls
<1>3. \/ /\ call.steps = <<"add", "remove", "verify">> /\ Head(call.steps) = "add"
         /\ cloud.pool.instances = call.todo
      \/ /\ call.steps = <<"remove", "verify">> /\ Head(call.steps) = "remove"
         /\ cloud.pool.instances = call.todo \cup call.nodes
      \/ /\ call.steps = <<"verify">> /\ Head(call.steps) = "verify"
         /\ cloud.pool.instances = call.nodes
  BY <1>1, GCERunning, PoolUpdate DEF GCEUpdateDone
<1>4. ASSUME NEW S \in SUBSET BalancerNodes
      PROVE  GCEGood(new(S)) /\ new(S).pool.instances = S
  <2>1. /\ new(S) \in GCEClouds /\ new(S).rule = cloud.rule /\ new(S).address = cloud.address
        /\ new(S).firewall = cloud.firewall /\ new(S).pool.exists = cloud.pool.exists
        /\ new(S).pool.affinity = cloud.pool.affinity /\ new(S).pool.instances = S
    BY <1>2 DEF GCEClouds, Pools
  <2> HIDE DEF new
  <2>2. Sound(new(S))
    BY <1>2, <2>1 DEF GCEGood, Sound, GCEWhole, Standing, Agreed
  <2>3. GCEExact(new(S), synced)
    BY <1>2, <2>1 DEF GCEGood, GCEExact, PoolFits
  <2>4. GCEsAddress => Releasable(call, new(S), synced)
    BY <1>2, <2>1 DEF GCEGood, Releasable
  <2> QED BY <2>1, <2>2, <2>3, <2>4 DEF GCEGood
<1>5. /\ cloud.pool.instances \cup toAdd \in SUBSET BalancerNodes
      /\ cloud.pool.instances \ toRemove \in SUBSET BalancerNodes
  BY <1>2
<1>6. CASE Head(call.steps) = "add"
  <2> DEFINE S == cloud.pool.instances \cup toAdd
  <2>1. RequestIf(toAdd /= {}, new(S), call)
    BY <1>6 DEF updateTargetPool, At
  <2>2. call.steps = <<"add", "remove", "verify">> /\ cloud.pool.instances = call.todo
    BY <1>3, <1>6
  <2>3. S = call.todo \cup call.nodes /\ (toAdd = {} => cloud.pool.instances = S)
    BY <2>2
  <2>4. S \in SUBSET BalancerNodes
    BY <1>5
  <2> HIDE DEF S, new, toAdd
  <2>5. cloud' \in {cloud, new(S)}
    BY <2>1 DEF RequestIf, Request, NoRequest
  <2>6. GCEGood(cloud')
    BY <1>2, <1>4, <2>4, <2>5
  <2>7. Fails \/ (Proceed(call) /\ cloud'.pool.instances = S)
    BY <1>4, <2>1, <2>3, <2>4 DEF RequestIf, Request, NoRequest
  <2> QED BY <1>1, <2>2, <2>3, <2>6, <2>7, UpdateGoes, GCEStops
<1>7. CASE Head(call.steps) = "remove"
  <2> DEFINE S == cloud.pool.instances \ toRemove
  <2>1. RequestIf(toRemove /= {}, new(S), call)
    BY <1>7 DEF updateTargetPool, At
  <2>2. call.steps = <<"remove", "verify">> /\ cloud.pool.instances = call.todo \cup call.nodes
    BY <1>3, <1>7
  <2>3. S = call.nodes /\ (toRemove = {} => cloud.pool.instances = S)
    BY <2>2
  <2>4. S \in SUBSET BalancerNodes
    BY <1>5
  <2> HIDE DEF S, new, toRemove
  <2>5. cloud' \in {cloud, new(S)}
    BY <2>1 DEF RequestIf, Request, NoRequest
  <2>6. GCEGood(cloud')
    BY <1>2, <1>4, <2>4, <2>5
  <2>7. Fails \/ (Proceed(call) /\ cloud'.pool.instances = S)
    BY <1>4, <2>1, <2>3, <2>4 DEF RequestIf, Request, NoRequest
  <2> QED BY <1>1, <2>2, <2>3, <2>6, <2>7, UpdateGoes, GCEStops
<1>8. CASE Head(call.steps) = "verify"
  <2>1. cloud' = cloud /\ (Fails \/ Proceed(call))
    BY <1>8 DEF updateTargetPool, At, Read, NoRequest
  <2>2. call.steps = <<"verify">> /\ cloud.pool.instances = call.nodes
    BY <1>3, <1>8
  <2> QED BY <1>1, <1>2, <2>1, <2>2, UpdateGoes, GCEStops
<1> QED BY <1>1, <1>6, <1>7, <1>8

-----------------------------------------------------------------------------
(***************************************************************************)
(* The steps of EnsureLoadBalancerDeleted                                  *)
(***************************************************************************)
LEMMA TearingDown ==
    /\ Len(GCEDeleteSteps) = 2 /\ Tail(GCEDeleteSteps) = <<"tear_down">>
    /\ Head(GCEDeleteSteps) = "check?"
    /\ Len(<<"tear_down">>) = 1 /\ Head(<<"tear_down">>) = "tear_down"
<1>1. Len(GCEDeleteSteps) = 2 /\ Head(GCEDeleteSteps) = "check?"
  BY DEF GCEDeleteSteps
<1>2. Tail(GCEDeleteSteps) = <<"tear_down">>
  BY DEF GCEDeleteSteps
<1>3. Len(<<"tear_down">>) = 1 /\ Head(<<"tear_down">>) = "tear_down"
  OBVIOUS
<1> QED BY <1>1, <1>2, <1>3

LEMMA WorkFacts ==
    /\ Head(FirewallWork) = "firewall" /\ {Tail(FirewallWork)} \ {<<>>} = {}
    /\ Head(AddressWork) = "address" /\ {Tail(AddressWork)} \ {<<>>} = {}
    /\ Head(RuleWork) = "rule" /\ {Tail(RuleWork)} \ {<<>>} = {PoolWork}
    /\ Head(PoolWork) = "pool" /\ {Tail(PoolWork)} \ {<<>>} = {CheckWork}
    /\ Head(CheckWork) = "check" /\ {Tail(CheckWork)} \ {<<>>} = {}
    /\ TearDown = {FirewallWork, AddressWork, RuleWork}
<1>1. Head(FirewallWork) = "firewall" /\ Tail(FirewallWork) = <<>>
  BY DEF FirewallWork
<1>2. Head(AddressWork) = "address" /\ Tail(AddressWork) = <<>>
  BY DEF AddressWork
<1>3. Head(CheckWork) = "check" /\ Tail(CheckWork) = <<>>
  BY DEF CheckWork
<1>4. Head(RuleWork) = "rule" /\ Head(PoolWork) = "pool"
  BY DEF RuleWork, PoolWork
<1>5. Tail(RuleWork) = PoolWork
  BY DEF RuleWork, PoolWork
<1>6. Tail(PoolWork) = CheckWork
  BY DEF PoolWork, CheckWork
<1>7. PoolWork # <<>> /\ CheckWork # <<>>
  BY DEF PoolWork, CheckWork
<1>8. TearDown = {FirewallWork, AddressWork, RuleWork}
  BY DEF TearDown, FirewallWork, AddressWork, RuleWork
<1> QED BY <1>1, <1>2, <1>3, <1>4, <1>5, <1>6, <1>7, <1>8

\* The health check a call of EnsureLoadBalancerDeleted looks for
LEMMA StepDeletedCheck ==
    ASSUME GCEInv, UNCHANGED want, getHealthCheck, call.op = "delete"
    PROVE  GCEInv'
<1> DEFINE wanted == call.spec.check /= "none"
           looked == [call EXCEPT !.seen.check = cloud.check, !.todo = TearDown]
           ready  == [call EXCEPT !.todo = TearDown]
<1>1. ~Idle /\ Head(call.steps) = "check?"
      /\ ((wanted /\ Read(looked)) \/ (~wanted /\ Proceed(ready) /\ NoRequest))
  BY DEF getHealthCheck, At
<1>2. /\ call.steps = GCEDeleteSteps /\ ~call.failed /\ call.deferred = <<>>
      /\ call \in GCECalls /\ cloud \in GCEClouds /\ GCEGood(cloud)
  BY <1>1, GCERunning, TearingDown DEF GCEDeleteDone
<1>3. PICK c : c = IF wanted THEN looked ELSE ready
  OBVIOUS
<1>4. /\ GCEContinues(c) /\ c.steps = GCEDeleteSteps /\ c.deferred = <<>> /\ ~c.failed
      /\ c.op = "delete" /\ c.spec = call.spec
  <2>1. TearDown \in SUBSET (BalancerNodes \cup GCEWorks)
    BY WorkFacts DEF GCEWorks
  <2>2. CASE wanted
    BY <1>2, <1>3, <2>1, <2>2 DEF GCEContinues, GCECalls, Knowledge, GCEClouds
  <2>3. CASE ~wanted
    BY <1>2, <1>3, <2>1, <2>3 DEF GCEContinues, GCECalls
  <2> QED BY <2>2, <2>3
<1>5. c.todo = TearDown /\ (call.spec.check # "none" => c.seen.check = cloud.check)
  BY <1>2, <1>3 DEF GCECalls, Knowledge
<1>6. cloud' = cloud /\ (Proceed(c) \/ Fails)
  BY <1>1, <1>3 DEF Read, NoRequest
<1> HIDE DEF looked, ready
<1>7. GCEDone([c EXCEPT !.steps = Tail(@)], cloud')
  <2> DEFINE d == [c EXCEPT !.steps = Tail(@)]
  <2>1. /\ d.op = "delete" /\ d.steps = <<"tear_down">> /\ d.deferred = <<>>
        /\ d.todo = TearDown /\ d.spec = call.spec /\ d.seen = c.seen
    BY <1>4, <1>5, TearingDown DEF GCEContinues, GCECalls
  <2> HIDE DEF d
  <2>2. TornDown(d, cloud)
    BY <1>5, <2>1, WorkFacts DEF TornDown
  <2>3. TearDown \subseteq GCEWorks
    BY WorkFacts DEF GCEWorks
  <2>4. GCEDone(d, cloud')
    BY <1>6, <2>1, <2>2, <2>3 DEF GCEDone, GCEDeleteDone
  <2> QED BY <2>4 DEF d
<1>8. Len(c.steps) > 1 /\ ~GCEsAddress
  BY <1>1, <1>4, TearingDown DEF GCEsAddress, Tended
<1>9. CASE Proceed(c)
  BY <1>1, <1>2, <1>4, <1>6, <1>7, <1>8, <1>9, GCEGoes
<1>10. CASE Fails
  BY <1>1, <1>2, <1>6, <1>10, GCEStops
<1> QED BY <1>6, <1>9, <1>10

\* What is left to delete when a goroutine has made its next request, done or failed
LEMMA StepTearDown == ASSUME GCEInv, UNCHANGED want, EnsureLoadBalancerDeleted PROVE GCEInv'
<1> DEFINE without(what) == CASE what = "firewall" -> [cloud EXCEPT !.firewall = NoFirewall]
                              [] what = "address"  -> [cloud EXCEPT !.address = "none"]
                              [] what = "rule"     -> [cloud EXCEPT !.rule = NoRule]
                              [] what = "pool"     -> [cloud EXCEPT !.pool = NoPool]
                              [] what = "check"    -> [cloud EXCEPT !.check = "none"]
           ignored(what) == what = "check" /\ call.seen.check = "none"
<1>1. ~Idle /\ Head(call.steps) = "tear_down"
  BY DEF EnsureLoadBalancerDeleted, At
<1>2. call.op = "delete" /\ ~Tended /\ ~GCEsAddress
  BY <1>1, Heads DEF GCEOps, EnsureNames, Tended, GCEsAddress
<1>3. /\ call.steps = <<"tear_down">> /\ call.deferred = <<>> /\ call.todo \subseteq GCEWorks
      /\ call.failed \/ TornDown(call, cloud)
      /\ call \in GCECalls /\ cloud \in GCEClouds /\ GCEGood(cloud) /\ Sound(cloud)
      /\ GCEContinues(call)
  BY <1>1, <1>2, GCERunning, TearingDown DEF GCEDeleteDone, GCEGood
<1>4. CASE call.todo = {} /\ Proceed(call) /\ NoRequest
  <2>1. cloud' = cloud /\ ~(Len(call.steps) > 1)
    BY <1>3, <1>4, TearingDown DEF NoRequest
  <2>2. ~call.failed => Finished(call, cloud')
    BY <1>2, <1>3, <1>4, <2>1 DEF TornDown, Finished, Gone
  <2> QED BY <1>1, <1>3, <1>4, <2>1, <2>2, GCEGoes
<1>5. ASSUME NEW work \in call.todo,
             \/ /\ cloud' = without(Head(work))
                /\ call' = [call EXCEPT !.todo = (call.todo \ {work}) \cup ({Tail(work)} \ {<<>>})]
             \/ /\ cloud' \in {cloud, without(Head(work))}
                /\ call' = [call EXCEPT !.todo = call.todo \ {work},
                                        !.failed = @ \/ ~ignored(Head(work))],
             UNCHANGED synced
      PROVE  GCEInv'
  <2> DEFINE others == call.todo \ {work}
  <2>1. work \in GCEWorks
    BY <1>3, <1>5
  <2>2. PICK new \in GCEClouds :
          /\ new = without(Head(work))
          /\ new.firewall = IF work = FirewallWork THEN NoFirewall ELSE cloud.firewall
          /\ new.address = IF work = AddressWork THEN "none" ELSE cloud.address
          /\ new.rule = IF work = RuleWork THEN NoRule ELSE cloud.rule
          /\ new.pool = IF work = PoolWork THEN NoPool ELSE cloud.pool
          /\ new.check = IF work = CheckWork THEN "none" ELSE cloud.check
    <3>1. /\ NoRule \in Rules /\ NoFirewall \in Firewalls /\ NoPool \in Pools /\ "none" \in Checks
      BY DEF NoRule, NoFirewall, NoPool, Rules, Firewalls, Pools, Addresses, Protocols, Checks
    <3>2. CASE work = FirewallWork
      <4>1. without(Head(work)) = [cloud EXCEPT !.firewall = NoFirewall]
        BY <3>2, WorkFacts
      <4> HIDE DEF without
      <4> QED BY <1>3, <3>1, <3>2, <4>1, WorkFacts DEF GCEClouds
    <3>3. CASE work = AddressWork
      <4>1. without(Head(work)) = [cloud EXCEPT !.address = "none"]
        BY <3>3, WorkFacts
      <4> HIDE DEF without
      <4> QED BY <1>3, <3>1, <3>3, <4>1, WorkFacts DEF GCEClouds
    <3>4. CASE work = RuleWork
      <4>1. without(Head(work)) = [cloud EXCEPT !.rule = NoRule]
        BY <3>4, WorkFacts
      <4> HIDE DEF without
      <4> QED BY <1>3, <3>1, <3>4, <4>1, WorkFacts DEF GCEClouds
    <3>5. CASE work = PoolWork
      <4>1. without(Head(work)) = [cloud EXCEPT !.pool = NoPool]
        BY <3>5, WorkFacts
      <4> HIDE DEF without
      <4> QED BY <1>3, <3>1, <3>5, <4>1, WorkFacts DEF GCEClouds
    <3>6. CASE work = CheckWork
      <4>1. without(Head(work)) = [cloud EXCEPT !.check = "none"]
        BY <3>6, WorkFacts
      <4> HIDE DEF without
      <4> QED BY <1>3, <3>1, <3>6, <4>1, WorkFacts DEF GCEClouds
    <3> QED BY <2>1, <3>2, <3>3, <3>4, <3>5, <3>6 DEF GCEWorks
  <2>3. GCEGood(cloud) /\ GCEGood(new)
    <3> HIDE DEF without
    <3>1. GCEWhole(new)
      BY <1>3, <2>2 DEF Sound, GCEWhole, NoRule
    <3> QED BY <1>2, <1>3, <2>2, <3>1 DEF GCEGood, Sound
  <2>4. \/ /\ cloud' = new
           /\ call' = [call EXCEPT !.todo = others \cup ({Tail(work)} \ {<<>>})]
        \/ /\ cloud' \in {cloud, new}
           /\ call' = [call EXCEPT !.todo = others, !.failed = @ \/ ~ignored(Head(work))]
    BY <1>5, <2>2
  <2> HIDE DEF without
  <2>5. CASE /\ cloud' = new
             /\ call' = [call EXCEPT !.todo = others \cup ({Tail(work)} \ {<<>>})]
    <3> DEFINE d == [call EXCEPT !.todo = others \cup ({Tail(work)} \ {<<>>})]
    <3>1. others \cup ({Tail(work)} \ {<<>>}) \in SUBSET GCEWorks
      BY <1>3, <2>1, WorkFacts DEF GCEWorks
    <3>2. /\ d \in GCECalls /\ d.op = "delete" /\ d.spec = call.spec /\ d.seen = call.seen
          /\ d.steps = call.steps /\ d.deferred = call.deferred /\ d.failed = call.failed
          /\ d.todo = others \cup ({Tail(work)} \ {<<>>})
      BY <1>2, <1>3, <3>1 DEF GCECalls
    <3>3. call' = d
      BY <2>5
    <3> HIDE DEF d
    <3>4. TornDown(call, cloud) => TornDown(d, new)
      <4> SUFFICES ASSUME TornDown(call, cloud) PROVE TornDown(d, new)
        OBVIOUS
      <4>1. CASE work = FirewallWork
        BY <2>2, <3>2, <4>1, WorkFacts DEF TornDown, NoFirewall
      <4>2. CASE work = AddressWork
        BY <2>2, <3>2, <4>2, WorkFacts DEF TornDown
      <4>3. CASE work = RuleWork
        BY <2>2, <3>2, <4>3, WorkFacts DEF TornDown, NoRule
      <4>4. CASE work = PoolWork
        BY <2>2, <3>2, <4>4, WorkFacts DEF TornDown, NoPool
      <4>5. CASE work = CheckWork
        BY <2>2, <3>2, <4>5, WorkFacts DEF TornDown
      <4> QED BY <2>1, <4>1, <4>2, <4>3, <4>4, <4>5 DEF GCEWorks
    <3>5. GCEDone(d, cloud')
      BY <1>3, <2>5, <3>1, <3>2, <3>4 DEF GCEDone, GCEDeleteDone
    <3> QED BY <1>1, <1>2, <1>5, <2>3, <2>5, <3>2, <3>3, <3>5, Continuing
  <2>6. CASE /\ cloud' \in {cloud, new}
             /\ call' = [call EXCEPT !.todo = others, !.failed = @ \/ ~ignored(Head(work))]
    <3> DEFINE fails == call.failed \/ ~ignored(Head(work))
               d == [call EXCEPT !.todo = others, !.failed = fails]
    <3>1. fails \in BOOLEAN /\ others \in SUBSET GCEWorks /\ call' = d
      BY <1>3, <2>6 DEF GCECalls
    <3>2. ~fails => ~call.failed /\ work = CheckWork /\ call.seen.check = "none"
      BY <2>1, WorkFacts DEF GCEWorks
    <3> HIDE DEF fails
    <3>3. /\ d \in GCECalls /\ d.op = "delete" /\ d.spec = call.spec /\ d.seen = call.seen
          /\ d.steps = call.steps /\ d.deferred = call.deferred /\ d.failed = fails
          /\ d.todo = others
      BY <1>2, <1>3, <3>1 DEF GCECalls
    <3> HIDE DEF d
    <3>4. ~fails => TornDown(d, cloud')
      BY <1>3, <2>2, <2>6, <3>2, <3>3, WorkFacts DEF TornDown
    <3>5. GCEDone(d, cloud')
      BY <1>3, <3>1, <3>3, <3>4 DEF GCEDone, GCEDeleteDone
    <3> QED BY <1>1, <1>2, <1>5, <2>3, <2>6, <3>1, <3>3, <3>5, Continuing
  <2> QED BY <2>4, <2>5, <2>6
<1>6. \/ call.todo = {} /\ Proceed(call) /\ NoRequest
      \/ \E work \in call.todo :
           /\ \/ /\ cloud' = without(Head(work))
                 /\ call' = [call EXCEPT !.todo = (call.todo \ {work})
                                                    \cup ({Tail(work)} \ {<<>>})]
              \/ /\ cloud' \in {cloud, without(Head(work))}
                 /\ call' = [call EXCEPT !.todo = call.todo \ {work},
                                         !.failed = @ \/ ~ignored(Head(work))]
           /\ UNCHANGED synced
  BY DEF EnsureLoadBalancerDeleted
<1> HIDE DEF without, ignored
<1> QED BY <1>4, <1>5, <1>6

-----------------------------------------------------------------------------
(***************************************************************************)
(* A call begins; the Service changes.                                     *)
(***************************************************************************)
LEMMA GCEInitially == Init => GCEHolds
<1> SUFFICES ASSUME Init, provider = "gce" PROVE GCEInv
  BY DEF GCEHolds
<1>1. GCEInit
  BY DEF Init, AWSInit, OpenStackInit, ServiceInit
<1>2. PICK s \in GCEShapes : want = [present |-> TRUE, spec |-> s, nodes |-> BalancerNodes]
  BY <1>1 DEF GCEInit, ServiceInit
<1>3. /\ synced = [spec |-> s, ensured |-> FALSE, by |-> "none", nodes |-> {},
                   asked |-> {}, known |-> BalancerNodes, answer |-> "none"]
      /\ call = NoCall
      /\ cloud = [rule |-> NoRule, address |-> "none", firewall |-> NoFirewall,
                  pool |-> NoPool, check |-> "none"]
  BY <1>1, <1>2 DEF GCEInit, ServiceInit
<1>4. /\ NoRule \in Rules /\ NoFirewall \in Firewalls /\ NoPool \in Pools /\ "none" \in Checks
      /\ ~NoRule.exists
  BY DEF NoRule, NoFirewall, NoPool, Rules, Firewalls, Pools, Addresses, Protocols, Checks
<1>5. cloud \in GCEClouds /\ GCEWhole(cloud) /\ Standing(cloud) /\ Agreed(cloud, synced)
  BY <1>3, <1>4 DEF GCEClouds, GCEWhole, Standing, Agreed
<1>6. GCETypes /\ synced.by # "delete" /\ GCEExact(cloud, synced)
  BY <1>2, <1>3 DEF GCETypes, GCEAnswers, Addresses, GCEExact
<1> QED BY <1>3, <1>5, <1>6 DEF GCEInv, Sound

LEMMA EnsureAscends ==
    /\ Ascends(GCEEnsureSteps, 1, 18) /\ GCEEnsureSteps # <<>>
    /\ Left(GCEEnsureSteps) =
         {"get_rule", "owner", "address", "firewall", "pool?", "check?", "check", "rebuild",
          "release"}
<1> DEFINE s == GCEEnsureSteps
<1>1. /\ DOMAIN s = 1 .. 9 /\ s[1] = "get_rule" /\ s[2] = "owner" /\ s[3] = "address"
      /\ s[4] = "firewall" /\ s[5] = "pool?" /\ s[6] = "check?" /\ s[7] = "check"
      /\ s[8] = "rebuild" /\ s[9] = "release"
  BY DEF GCEEnsureSteps
<1>2. s \in Seq(EnsureNames) /\ s # <<>>
  BY DEF GCEEnsureSteps, EnsureNames
<1> HIDE DEF s
<1>3. DOMAIN s = {1, 2, 3, 4, 5, 6, 7, 8, 9}
  BY <1>1
<1>4. Left(s) = {"get_rule", "owner", "address", "firewall", "pool?", "check?", "check",
                 "rebuild", "release"}
  BY <1>1, <1>3 DEF Left
<1>5. /\ \A i \in 1 .. 8 : Rank(s[i]) = i
      /\ Rank(s[9]) = 18
  BY <1>1, Ranks
<1>6. Ascends(s, 1, 18)
  <2>1. ASSUME NEW i \in 1 .. 9 PROVE Rank(s[i]) >= 1 /\ Rank(s[i]) <= 18
    BY <1>5
  <2>2. ASSUME NEW i \in 1 .. 9, NEW j \in 1 .. 9, i < j PROVE Rank(s[i]) < Rank(s[j])
    <3>1. i \in 1 .. 8
      BY <2>2
    <3> QED BY <1>5, <2>2, <3>1
  <2> QED BY <1>1, <1>2, <2>1, <2>2 DEF Ascends
<1> QED BY <1>2, <1>4, <1>6 DEF s

LEMMA StepStart ==
    ASSUME GCEInv, UNCHANGED want, NEW op \in GCEOps, NEW steps,
           /\ op = "ensure" => steps = GCEEnsureSteps
           /\ op = "update" => steps = GCEUpdateSteps
           /\ op = "delete" => steps = GCEDeleteSteps,
           Start(op, steps, <<>>, Unknown)
    PROVE  GCEInv'
<1>1. Idle /\ cloud' = cloud
  BY DEF Start, StartServing, NoRequest
<1>2. call = NoCall
  BY <1>1 DEF GCEInv, GCERuns, GCECalls, GCEOps, Idle
<1>3. /\ want \in [present : BOOLEAN, spec : GCEShapes, nodes : SUBSET BalancerNodes]
      /\ synced \in GCEAnswers /\ Sound(cloud) /\ GCEExact(cloud, synced)
      /\ synced.by = "delete" => ~want.present
  BY DEF GCEInv, GCETypes
<1>4. /\ op \in {"ensure", "update"} => want.present
      /\ op = "update" => synced.ensured
      /\ op = "delete" => ~want.present /\ synced.by # "delete"
  BY DEF Start, StartServing
<1> DEFINE c == [op |-> op, steps |-> steps, deferred |-> <<>>, failed |-> FALSE,
                 spec |-> want.spec, nodes |-> IF op = "delete" THEN {} ELSE want.nodes,
                 asked |-> IF op = "delete" THEN {} ELSE want.nodes,
                 seen |-> Unknown, todo |-> {}, answer |-> "none"]
<1>5. call' = c /\ synced' = [synced EXCEPT !.ensured = @ /\ op = "update", !.by = "none"]
  BY DEF Start, StartServing
<1>6. /\ synced' \in GCEAnswers /\ synced'.by = "none" /\ synced'.answer = synced.answer
      /\ synced'.spec = synced.spec /\ synced'.nodes = synced.nodes
      /\ synced'.ensured <=> op = "update"
      /\ synced'.ensured => synced.ensured
  BY <1>3, <1>4, <1>5 DEF GCEAnswers
<1>7. steps \in Seq(GCEStepNames)
  <2>1. GCEEnsureSteps \in Seq(GCEStepNames)
    BY EnsureAscends DEF Ascends, GCEStepNames
  <2>2. GCEUpdateSteps \in Seq(GCEStepNames)
    BY DEF GCEUpdateSteps, GCEStepNames, EnsureNames
  <2>3. GCEDeleteSteps \in Seq(GCEStepNames)
    BY DEF GCEDeleteSteps, GCEStepNames, EnsureNames
  <2> QED BY <2>1, <2>2, <2>3 DEF GCEOps
<1>8. Unknown \in Knowledge /\ ~Unknown.safe
  BY DEF Unknown, Knowledge, NoRule, Rules, Addresses, Protocols, Checks
<1>9. /\ c \in GCECalls /\ c.op = op /\ c.steps = steps /\ c.deferred = <<>> /\ ~c.failed
      /\ c.spec = want.spec /\ c.seen = Unknown
  BY <1>3, <1>7, <1>8 DEF GCECalls, Addresses
<1> HIDE DEF c
<1>10. GCEDone(c, cloud)
  <2>1. CASE op = "ensure"
    <3>1. /\ "release" \in Left(steps) /\ "rebuild" \in Left(steps) /\ "firewall" \in Left(steps)
          /\ "get_rule" \in Left(steps) /\ "owner" \in Left(steps) /\ "pool?" \in Left(steps)
          /\ "address" \in Left(steps)
      BY <2>1, EnsureAscends
    <3>2. \A step \in Left(steps) : Rank(step) <= 8 \/ step = "release"
      BY <2>1, EnsureAscends, Ranks
    <3>3. Order(Left(steps))
      BY <3>1, <3>2 DEF Order
    <3>4. Looked(c, cloud, Left(steps)) /\ Placed(c, cloud, Left(steps))
          /\ Rebuilt(c, cloud, Left(steps))
      BY <3>1 DEF Looked, Placed, Rebuilt
    <3> QED BY <1>9, <2>1, <3>3, <3>4, EnsureAscends DEF GCEDone, GCEEnsureDone
  <2>2. CASE op = "update"
    BY <1>9, <2>2 DEF GCEDone, GCEUpdateDone
  <2>3. CASE op = "delete"
    BY <1>9, <2>3 DEF GCEDone, GCEDeleteDone
  <2> QED BY <2>1, <2>2, <2>3 DEF GCEOps
<1>11. ~Idle' /\ (Tended' => Tended) /\ (GCEsAddress' => GCEsAddress)
  BY <1>1, <1>4, <1>5, <1>9 DEF GCEOps, Idle, Tended, GCEsAddress
<1>12. Sound(cloud)'
  BY <1>1, <1>3, <1>6, <1>11 DEF Sound, Standing, Agreed, GCEWhole
<1>13. GCEExact(cloud, synced)'
  BY <1>1, <1>3, <1>6 DEF GCEExact
<1>14. Releasable(c, cloud', synced')
  BY <1>8, <1>9 DEF Releasable
<1>15. GCERuns'
  BY <1>1, <1>4, <1>5, <1>6, <1>9, <1>10, <1>14 DEF GCERuns
<1>16. GCETypes' /\ synced'.by # "delete"
  BY <1>3, <1>6 DEF GCETypes
<1> QED BY <1>12, <1>13, <1>15, <1>16 DEF GCEInv

LEMMA StepServiceChange == ASSUME GCEInv, Change(Possible) PROVE GCEInv'
<1>1. /\ want \in [present : BOOLEAN, spec : GCEShapes, nodes : SUBSET BalancerNodes]
      /\ synced \in GCEAnswers /\ Sound(cloud) /\ GCEExact(cloud, synced)
      /\ synced.by = "delete" => ~want.present
      /\ synced.ensured => synced.by # "delete"
  BY DEF GCEInv, GCETypes
<1>2. want.present /\ UNCHANGED <<synced, cloud, call>>
  BY DEF Change
<1>3. /\ want' \in [present : BOOLEAN, spec : GCEShapes, nodes : SUBSET BalancerNodes]
      /\ want.spec.ip \in UserIPs => want'.spec.ip \in UserIPs
  BY <1>1 DEF Change, Possible
<1>4. (Idle' <=> Idle) /\ (Tended' => Tended) /\ (GCEsAddress' => GCEsAddress)
  BY <1>2, <1>3 DEF Idle, Tended, GCEsAddress
<1>5. Sound(cloud)'
  BY <1>1, <1>2, <1>4 DEF Sound, Standing, Agreed, GCEWhole
<1>6. GCEExact(cloud, synced)' /\ GCETypes' /\ synced'.by # "delete"
  BY <1>1, <1>2, <1>3 DEF GCEExact, GCETypes
<1>7. call = NoCall \/ GCERuns
  BY DEF GCEInv
<1>8. GCERuns => GCERuns'
  BY <1>2, <1>3, <1>4 DEF GCERuns
<1> QED BY <1>2, <1>5, <1>6, <1>7, <1>8 DEF GCEInv

LEMMA GCESteps == ASSUME GCEInv, GCEWork PROVE GCEInv'
<1>1. UNCHANGED want
  BY DEF GCEWork
<1>2. CASE Start("ensure", GCEEnsureSteps, <<>>, Unknown)
  BY <1>1, <1>2, StepStart DEF GCEOps
<1>3. CASE Start("update", GCEUpdateSteps, <<>>, Unknown)
  BY <1>1, <1>3, StepStart DEF GCEOps
<1>4. CASE Start("delete", GCEDeleteSteps, <<>>, Unknown)
  BY <1>1, <1>4, StepStart DEF GCEOps
<1>5. CASE getHealthCheck
  <2>1. call.op = "ensure" \/ call.op = "delete"
    <3>1. ~Idle /\ Head(call.steps) = "check?"
      BY <1>5 DEF getHealthCheck, At
    <3> QED BY <3>1, Heads DEF GCEOps
  <2> QED BY <1>1, <1>5, <2>1, StepLookForCheck, StepDeletedCheck
<1>6. CASE updateTargetPool
  <2>1. call.op = "ensure" \/ call.op = "update"
    <3>1. ~Idle /\ Head(call.steps) \in {"add", "remove", "verify"}
      BY <1>6 DEF updateTargetPool, At
    <3> QED BY <3>1, Heads DEF GCEOps
  <2> QED BY <1>1, <1>6, <2>1, StepAddNodes, StepUpdatePool
<1>7. CASE getForwardingRule \/ projectOwnsStaticIP \/ chooseAddress \/ ensureFirewall
  BY <1>1, <1>7, StepGetRule, StepOwner, StepAddress, StepFirewall
<1>8. CASE \/ targetPoolNeedsUpdate \/ ensureHTTPHealthCheck \/ rebuild \/ deleteForwardingRule
           \/ deleteTargetPool
  BY <1>1, <1>8, StepPool, StepCheck, StepRebuild, StepDropRule, StepDropPool
<1>9. CASE createTargetPool \/ createForwardingRule \/ releaseStaticIP
  BY <1>1, <1>9, StepMakePool, StepMakeRule, StepRelease
<1>10. CASE UpdateLoadBalancer \/ EnsureLoadBalancerDeleted
  BY <1>1, <1>10, StepGetPool, StepTearDown
<1> QED BY <1>2, <1>3, <1>4, <1>5, <1>6, <1>7, <1>8, <1>9, <1>10 DEF GCEWork

LEMMA GCENextStep == GCEHolds /\ [Next]_vars => GCEHolds'
<1> SUFFICES ASSUME GCEHolds, [Next]_vars, provider' = "gce" PROVE GCEInv'
  BY DEF GCEHolds
<1>1. CASE UNCHANGED balancerVars
  <2>1. GCEInv /\ UNCHANGED <<want, synced, cloud, call>>
    BY <1>1 DEF balancerVars, GCEHolds
  <2> QED BY <2>1 DEF GCEInv, GCETypes, Sound, GCEExact, Gone, GCERuns, Tended, GCEsAddress, Idle,
                     GCEWhole, Standing, Agreed
<1>2. CASE Elsewhere(GCENext)
  <2>1. GCEInv
    BY <1>2 DEF Elsewhere, Balancer, GCENext, GCEWork, GCEHolds
  <2> QED BY <1>2, <2>1, GCESteps, StepServiceChange DEF Elsewhere, Balancer, GCENext
<1>3. CASE Balancer(AWSNext)
  BY <1>3 DEF Balancer, AWSNext, AWSWork, NodeStopsOrStarts, Change
<1>4. CASE Elsewhere(OpenStackNext)
  BY <1>4 DEF Elsewhere, Balancer, OpenStackNext, OpenStackWork, Change
<1> QED BY <1>1, <1>2, <1>3, <1>4 DEF Next, vars

-----------------------------------------------------------------------------
(***************************************************************************)
(* What each request of EnsureLoadBalancer, UpdateLoadBalancer and         *)
(* EnsureLoadBalancerDeleted of GCE leaves for those after it holds at     *)
(* every point of a call, whatever calls before it left behind.            *)
(***************************************************************************)
THEOREM GCEInvariant == Spec => []GCEHolds
<1> QED BY GCEInitially, GCENextStep, PTL DEF Spec

(***************************************************************************)
(* When EnsureLoadBalancer of GCE answers success, the rule, the firewall  *)
(* and the pool are as the Service says, with the address that was         *)
(* answered, though the call replaces only what it has found to differ.    *)
(***************************************************************************)
THEOREM GCEEnsuredExact == Spec => []GCEEnsuredIsExact
<1>1. GCEHolds => GCEEnsuredIsExact
  BY DEF GCEHolds, GCEInv, GCEExact, RuleFits, PoolFits, GCEEnsuredIsExact, GCEFits
<1> QED BY <1>1, GCEInvariant, PTL

(***************************************************************************)
(* GCE's forwarding rule is never there without its pool and the firewall, *)
(* wherever a call stops: it is made last and deleted first.               *)
(***************************************************************************)
THEOREM RuleLast == Spec => []RuleIsLast
<1>1. GCEHolds => RuleIsLast
  <2> SUFFICES ASSUME GCEInv, want.present PROVE Standing(cloud)
    BY DEF GCEHolds, RuleIsLast, Standing
  <2>1. Tended
    BY DEF GCEInv, GCERuns, Tended, Idle, NoCall
  <2> QED BY <2>1 DEF GCEInv, Sound
<1> QED BY <1>1, GCEInvariant, PTL

(***************************************************************************)
(* When EnsureLoadBalancerDeleted of GCE answers success, nothing is left: *)
(* a goroutine that failed keeps the call from it, in whatever order the   *)
(* goroutines' requests are made.                                          *)
(***************************************************************************)
THEOREM DeletedGone == Spec => []DeletedIsGone
<1>1. GCEHolds => DeletedIsGone
  BY DEF GCEHolds, GCEInv, Gone, DeletedIsGone, GCEGone
<1> QED BY <1>1, GCEInvariant, PTL

-----------------------------------------------------------------------------
(***************************************************************************)
(* Where the answer of a call is kept: at its last step, which is to       *)
(* release the address if the call is one of EnsureLoadBalancer            *)
(***************************************************************************)
LEMMA Asks ==
    \A c, new, needed : Read(c) \/ Request(new, c) \/ RequestIf(needed, new, c) =>
        UNCHANGED synced \/ Proceed(c)
<1> QED BY DEF Read, Request, RequestIf, Fails

LEMMA Proceeding ==
    ASSUME call \in GCECalls, ~Idle, GCEWork
    PROVE  UNCHANGED synced \/ \E c : c.steps = call.steps /\ Proceed(c)
<1>1. /\ ~Start("ensure", GCEEnsureSteps, <<>>, Unknown)
      /\ ~Start("update", GCEUpdateSteps, <<>>, Unknown)
      /\ ~Start("delete", GCEDeleteSteps, <<>>, Unknown)
  BY DEF Start, StartServing
<1>2. CASE getForwardingRule
  <2> PICK c : c = Deferred([call EXCEPT !.seen.rule = cloud.rule,
                               !.seen.ruleNeedsUpdate = forwardingRuleNeedsUpdate(call.spec)])
    OBVIOUS
  <2>1. c.steps = call.steps /\ Read(c)
    BY <1>2 DEF getForwardingRule, Deferred, GCECalls
  <2> QED BY <2>1, Asks
<1>3. CASE projectOwnsStaticIP
  <2>1. PICK yes, safe : Proceed([call EXCEPT !.seen.owned = yes, !.seen.safe = safe])
    BY <1>3 DEF projectOwnsStaticIP
  <2> PICK c : c = [call EXCEPT !.seen.owned = yes, !.seen.safe = safe]
    OBVIOUS
  <2>2. c.steps = call.steps /\ Proceed(c)
    BY <2>1 DEF GCECalls
  <2> QED BY <2>2
<1>4. CASE chooseAddress
  <2> DEFINE known(a)    == [call EXCEPT !.answer = a]
             reserved(a) == [call EXCEPT !.answer = a, !.seen.safe = TRUE]
  <2>1. \A a : known(a).steps = call.steps /\ reserved(a).steps = call.steps
    BY DEF GCECalls
  <2>2. \/ \E a : Read(known(a)) \/ Proceed(known(a))
        \/ \E a, new : Request(new, reserved(a))
        \/ UNCHANGED synced
    BY <1>4 DEF chooseAddress, ensureStaticIP, Fails
  <2> HIDE DEF known, reserved
  <2> QED BY <2>1, <2>2, Asks
<1>5. CASE targetPoolNeedsUpdate
  <2> PICK c : c = [call EXCEPT !.seen.poolExists = cloud.pool.exists,
                                !.seen.poolNeedsUpdate = ~cloud.pool.exists
                                               \/ cloud.pool.affinity /= call.spec.affinity]
    OBVIOUS
  <2>1. c.steps = call.steps /\ Read(c)
    BY <1>5 DEF targetPoolNeedsUpdate, GCECalls
  <2> QED BY <2>1, Asks
<1>6. CASE getHealthCheck
  <2> DEFINE wanted == call.spec.check /= "none"
             exists == cloud.check /= "none"
             a == [call EXCEPT !.seen.poolNeedsUpdate = @ \/ wanted /= exists]
             b == [call EXCEPT !.seen.check = cloud.check, !.todo = TearDown]
             d == [call EXCEPT !.todo = TearDown]
  <2>1. a.steps = call.steps /\ b.steps = call.steps /\ d.steps = call.steps
    BY DEF GCECalls
  <2>2. Read(a) \/ Read(b) \/ Proceed(d)
    BY <1>6 DEF getHealthCheck
  <2> HIDE DEF a, b, d
  <2> QED BY <2>1, <2>2, Asks
<1>7. CASE ensureHTTPHealthCheck
  <2> DEFINE c(p) == [call EXCEPT !.seen.check = IF cloud.check = "none" THEN p ELSE cloud.check]
  <2>1. \A p : c(p).steps = call.steps
    BY DEF GCECalls
  <2>2. Proceed(call) \/ \E p, needed, new : RequestIf(needed, new, c(p))
    BY <1>7 DEF ensureHTTPHealthCheck
  <2> HIDE DEF c
  <2> QED BY <2>1, <2>2, Asks
<1>8. CASE rebuild
  BY <1>8 DEF rebuild
<1>9. CASE createTargetPool
  <2> DEFINE c(hosts) == [call EXCEPT !.todo = hosts]
  <2>1. \A hosts : c(hosts).steps = call.steps
    BY DEF GCECalls
  <2>2. \E hosts, new : Request(new, c(hosts))
    BY <1>9 DEF createTargetPool
  <2> HIDE DEF c
  <2> QED BY <2>1, <2>2, Asks
<1>10. CASE createForwardingRule
  <2> PICK c : c = [call EXCEPT !.seen.safe = TRUE]
    OBVIOUS
  <2>1. c.steps = call.steps /\ \E new : Request(new, c)
    BY <1>10 DEF createForwardingRule, GCECalls
  <2> QED BY <2>1, Asks
<1>11. CASE UpdateLoadBalancer
  <2> PICK c : c = [call EXCEPT !.todo = cloud.pool.instances]
    OBVIOUS
  <2>1. c.steps = call.steps /\ (Read(c) \/ Fails)
    BY <1>11 DEF UpdateLoadBalancer, GCECalls
  <2> QED BY <2>1, Asks DEF Fails
<1>12. CASE EnsureLoadBalancerDeleted
  BY <1>12 DEF EnsureLoadBalancerDeleted
<1>13. CASE ensureFirewall \/ deleteForwardingRule
  <2>1. \E needed, new : RequestIf(needed, new, call) \/ Request(new, call)
    BY <1>13 DEF ensureFirewall, deleteForwardingRule
  <2> QED BY <2>1, Asks
<1>14. CASE updateTargetPool
  <2>1. (\E needed, new : RequestIf(needed, new, call)) \/ Read(call) \/ Fails
    BY <1>14 DEF updateTargetPool
  <2> QED BY <2>1, Asks DEF Fails
<1>15. CASE deleteTargetPool \/ releaseStaticIP
  <2>1. (\E new : Request(new, call)) \/ Proceed(call)
    BY <1>15 DEF deleteTargetPool, releaseStaticIP, Attempt, RequestIf
  <2> QED BY <2>1, Asks
<1> QED BY <1>1, <1>2, <1>3, <1>4, <1>5, <1>6, <1>7, <1>8, <1>9, <1>10, <1>11, <1>12, <1>13,
           <1>14, <1>15 DEF GCEWork

\* A call of EnsureLoadBalancer succeeds when it has gone on behind its last step.
LEMMA LastStep ==
    ASSUME GCEInv, GCEWork, ~Idle, call.op = "ensure", synced' # synced
    PROVE  cloud'.rule = cloud.rule
<1>1. PICK c : c.steps = call.steps /\ Proceed(c)
  BY GCERunning, Proceeding
<1>2. ~(Len(call.steps) > 1)
  BY <1>1 DEF Proceed
<1>3. Head(call.steps) = "release"
  BY <1>2, EnsureHere
<1>4. releaseStaticIP
  BY <1>3 DEF GCEWork, Start, StartServing, At, getForwardingRule, projectOwnsStaticIP, chooseAddress,
              ensureFirewall, targetPoolNeedsUpdate, getHealthCheck, ensureHTTPHealthCheck,
              rebuild, deleteForwardingRule, deleteTargetPool, createTargetPool,
              createForwardingRule, UpdateLoadBalancer, updateTargetPool,
              EnsureLoadBalancerDeleted
<1> QED BY <1>4, GCERunning DEF releaseStaticIP, Attempt, NoRequest, GCEClouds

(***************************************************************************)
(* The address in the status of a Service that asks for none is kept, as   *)
(* long as the load balancer is not deleted: wherever the steps between    *)
(* the deletion of the rule and its creation fail, the address they need   *)
(* stays reserved, and the next call finds it again.                       *)
(***************************************************************************)
THEOREM AddressKept == Spec => AddressIsKept
<1> DEFINE A == provider = "gce" /\ synced.answer \notin {"none", synced'.answer} =>
                  synced'.by = "delete" \/ synced'.spec.ip /= "none"
<1>1. ASSUME GCEHolds, GCEHolds', [Next]_vars PROVE A \/ UNCHANGED balancerVars
  <2> SUFFICES ASSUME provider = "gce", synced.answer # "none", synced'.answer # synced.answer,
                      synced'.by # "delete", synced'.spec.ip = "none"
               PROVE  FALSE
    OBVIOUS
  <2>1. GCENext
    <3>1. ~UNCHANGED vars
      BY DEF vars, balancerVars
    <3>2. ~Balancer(AWSNext) /\ ~Elsewhere(OpenStackNext)
      BY DEF Elsewhere, Balancer, AWSNext, AWSWork, OpenStackNext, OpenStackWork
    <3>3. ~UNCHANGED balancerVars
      BY DEF balancerVars
    <3> QED BY <1>1, <3>1, <3>2, <3>3 DEF Next, Elsewhere, Balancer
  <2>2. GCEWork /\ GCEInv
    BY <1>1, <2>1 DEF GCENext, Change, GCEHolds
  <2>3. GCEInv'
    BY <1>1, <2>2 DEF GCEWork, GCEHolds
  <2>4. ~Idle
    <3> SUFFICES ASSUME Idle PROVE FALSE
      OBVIOUS
    <3>1. \/ Start("ensure", GCEEnsureSteps, <<>>, Unknown)
          \/ Start("update", GCEUpdateSteps, <<>>, Unknown)
          \/ Start("delete", GCEDeleteSteps, <<>>, Unknown)
      BY <2>2 DEF GCEWork, At, getForwardingRule, projectOwnsStaticIP, chooseAddress,
              ensureFirewall, targetPoolNeedsUpdate, getHealthCheck, ensureHTTPHealthCheck,
              rebuild, deleteForwardingRule, deleteTargetPool, createTargetPool,
              createForwardingRule, releaseStaticIP, UpdateLoadBalancer, updateTargetPool,
              EnsureLoadBalancerDeleted
    <3>2. synced \in GCEAnswers
      BY <2>2 DEF GCEInv, GCETypes
    <3> QED BY <3>1, <3>2 DEF Start, StartServing, GCEAnswers
  <2>5. PICK c : c.steps = call.steps /\ Proceed(c)
    BY <2>2, <2>4, GCERunning, Proceeding
  <2>6. Succeeds
    BY <2>5 DEF Proceed
  <2>7. /\ call.op \in GCEOps
        /\ call.op = "update" => synced'.answer = synced.answer
        /\ call.op = "delete" => synced'.by = "delete"
        /\ call.op = "ensure" => /\ synced'.spec = call.spec /\ synced'.ensured
                                 /\ synced'.answer = call.answer
    BY <2>2, <2>4, <2>6, GCERunning DEF Succeeds
  <2>8. call.op = "ensure"
    BY <2>7 DEF GCEOps
  <2>9. "none" \notin UserIPs
    BY GCEAssumption
  <2>10. cloud'.rule.exists /\ cloud'.rule.ip = synced'.answer
    BY <2>3, <2>7, <2>8, <2>9 DEF GCEInv, GCEExact, RuleFits
  <2>11. cloud'.rule = cloud.rule
    BY <2>2, <2>4, <2>8, LastStep
  <2>12. GCEsAddress
    BY <2>4, <2>7, <2>8, <2>9 DEF GCEsAddress, Tended
  <2>13. Agreed(cloud, synced)
    BY <2>2, <2>12 DEF GCEInv, Sound
  <2> QED BY <2>10, <2>11, <2>13 DEF Agreed
<1>2. GCEHolds /\ GCEHolds' /\ [Next]_vars => [A]_balancerVars
  BY <1>1
<1> QED BY <1>2, GCEInvariant, PTL DEF Spec, AddressIsKept

=============================================================================
